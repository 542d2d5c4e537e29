-------------------------- MODULE ResponseCacheProofs --------------------------
(***************************************************************************)
(* What ResponseCache guarantees for any number of processes, of names and *)
(* of inodes, and any cap.  IInv says what each process still knows of     *)
(* files that others may change at any time: where it holds the lock, what *)
(* a prune's stats are worth, what a clear has left to do, and who will    *)
(* find the entries above the cap.                                         *)
(***************************************************************************)
EXTENDS ResponseCache, FiniteSetTheorems, TLAPS

\* What a process's variables hold, where it is.
NamesInPlace ==
    \A p \in Process :
        /\ run[p] = 0 => pc[p] = "idle"
        /\ temp[p] # None => pc[p] = "rename"
        /\ pc[p] \in {"lock", "scan"} => key[p] \in Response
        /\ pc[p] \in {"stage", "rename", "drop"} \cup Prunes => key[p] \in Key
        /\ pc[p] \in {"evict", "judge"} => todo[p] \subseteq Response
        /\ pc[p] = "judgeTool" => todo[p] \subseteq Tool
        /\ pc[p] \in Prunes => todo[p] \subseteq (IF key[p] \in Response THEN Response ELSE Tool)

\* An inode is the file of one name, or one staging file.
OneFilePerInode ==
    /\ \A j, k \in Key : j # k /\ file[j] # None => file[j] # file[k]
    /\ \A p \in Process, k \in Key : temp[p] # None => temp[p] # file[k]
    /\ \A p, q \in Process : p # q /\ temp[p] # None => temp[p] # temp[q]

\* Who is between the taking of cache-write.lock and its release.
Holds(p) ==
    \/ pc[p] \in {"scan", "evict", "list", "judge"}
    \/ pc[p] \in {"stage", "rename"} \cup Prunes /\ key[p] \in Response

HoldersLock == ~unlocked => \A p \in Process : Holds(p) => lock = p

\* What a prune knows of the name it is at, from its two stats and its read.
Tracks(p) ==
    pc[p] \in Prunes =>
        /\ moved[p][key[p]] = 0 => file[key[p]] = ino[p]
        /\ moved[p][key[p]] = 1 => file[key[p]] # ino[p]
        /\ ino[p] # None
        /\ pc[p] # "read" =>
             /\ moved[p][key[p]] = 0 => age[ino[p]] # "fresh"
             /\ ~unlocked /\ key[p] \in Response /\ file[key[p]] # None
                  => age[file[key[p]]] # "fresh"
        /\ pc[p] = "unlink" /\ ~late[p] => file[key[p]] = ino[p]

PrunesTrack == \A p \in Process : Tracks(p)

\* What a clear has still to unlink.
Clears(p) ==
    pc[p] = "clear" /\ ~failed[p] => \A k \in Present(Key) : k \in todo[p] \/ moved[p][k] > 0

ClearsTrack == \A p \in Process : Clears(p)

\* Entries above the cap are some eviction's to find, or its victims.
EvictionCovers ==
    \/ over
    \/ \E p \in Process : pc[p] = "scan"
    \/ Cardinality(Present(Response)) <= Cap
    \/ \E p \in Process : pc[p] = "evict" /\ Cardinality(Present(Response) \ todo[p]) <= Cap

IInv ==
    /\ TypeOK
    /\ NamesInPlace
    /\ OneFilePerInode
    /\ HoldersLock
    /\ PrunesTrack
    /\ ClearsTrack
    /\ EvictionCovers

ByProcess(p) ==
    \/ StartWrite(p) \/ StartRead(p) \/ StartPrune(p) \/ StartClear(p)
    \/ TakeLock(p) \/ LockTimeout(p)
    \/ Stage(p) \/ Rename(p) \/ RenameMisses(p) \/ WriteFails(p)
    \/ Scan(p) \/ ScanFails(p) \/ Evict(p) \/ EvictFails(p) \/ EvictEnds(p)
    \/ List(p) \/ Stat(p) \/ Read(p) \/ Restat(p) \/ Unlink(p)
    \/ EntryFails(p) \/ PruneEnds(p)
    \/ ClearName(p) \/ ClearLock(p) \/ ClearStaged(p) \/ ClearFails(p) \/ ClearEnds(p)
    \/ Drop(p) \/ Crash(p)

-----------------------------------------------------------------------------
\* Types.

\* The ghosts of a change to a file are well typed.
LEMMA GhostTypes ==
  ASSUME TypeOK, NEW k \in Key
  PROVE  /\ MovedWith(k) \in [Process -> [Key -> 0..2]]
         /\ LateWith(k) \in [Process -> BOOLEAN]
  <1>1. ASSUME NEW p \in Process PROVE MovedWith(k)[p] \in [Key -> 0..2]
    <2>1. moved[p] \in [Key -> 0..2]
      BY DEF TypeOK
    <2>2. moved[p][k] < 2 => [moved[p] EXCEPT ![k] = @ + 1] \in [Key -> 0..2]
      BY <2>1
    <2> QED BY <2>1, <2>2 DEF MovedWith
  <1>2. \A p \in Process : LateWith(k)[p] \in BOOLEAN
    BY DEF LateWith, TypeOK
  <1> QED BY <1>1, <1>2 DEF MovedWith, LateWith

\* A command that ends leaves its process's variables well typed.
LEMMA EndTypes ==
  ASSUME TypeOK, NEW p \in Process, NEW m \in [Process -> [Key -> 0..2]],
         NEW l \in [Process -> BOOLEAN], EndWith(p, m, l)
  PROVE  /\ pc' \in [Process -> Location]
         /\ run' \in [Process -> 0..MaxRuns]
         /\ key' \in [Process -> Key \cup {None}]
         /\ temp' \in [Process -> Ino \cup {None}]
         /\ todo' \in [Process -> SUBSET (Key \cup {LockFile} \cup 1..MaxRuns)]
         /\ ino' \in [Process -> Ino \cup {None}]
         /\ moved' \in [Process -> [Key -> 0..2]]
         /\ late' \in [Process -> BOOLEAN]
         /\ failed' \in [Process -> BOOLEAN]
  <1>1. [k \in Key |-> 0] \in [Key -> 0..2] /\ 0 \in 0..MaxRuns
    BY ConstantsAssumption
  <1> QED BY <1>1 DEF EndWith, Goto, TypeOK, Location

\* So does one that ends without a change to a file.
LEMMA PlainEndTypes ==
  ASSUME TypeOK, NEW p \in Process, End(p)
  PROVE  /\ pc' \in [Process -> Location]
         /\ run' \in [Process -> 0..MaxRuns]
         /\ key' \in [Process -> Key \cup {None}]
         /\ temp' \in [Process -> Ino \cup {None}]
         /\ todo' \in [Process -> SUBSET (Key \cup {LockFile} \cup 1..MaxRuns)]
         /\ ino' \in [Process -> Ino \cup {None}]
         /\ moved' \in [Process -> [Key -> 0..2]]
         /\ late' \in [Process -> BOOLEAN]
         /\ failed' \in [Process -> BOOLEAN]
  <1>1. moved \in [Process -> [Key -> 0..2]] /\ late \in [Process -> BOOLEAN]
    BY DEF TypeOK
  <1> QED BY <1>1, EndTypes DEF End

\* A fault is counted within its bound.
LEMMA FaultTypes == TypeOK /\ Fault => faults' \in 0..MaxFaults
  BY ConstantsAssumption DEF TypeOK, Fault

\* Everything is well typed at the start.
LEMMA InitTypes == Init => TypeOK
  <1> SUFFICES ASSUME Init PROVE TypeOK
    OBVIOUS
  <1>1. [k \in Key |-> 0] \in [Key -> 0..2] /\ 0 \in 0..MaxRuns /\ 0 \in 0..MaxFaults
    BY ConstantsAssumption
  <1> QED BY <1>1 DEF Init, TypeOK, Location

\* A write keeps the types.
LEMMA WriteTypes ==
  ASSUME TypeOK, NamesInPlace, NEW p \in Process,
         Stage(p) \/ Rename(p) \/ RenameMisses(p) \/ WriteFails(p)
  PROVE  TypeOK'
  <1>0. pc[p] \in {"stage", "rename"} /\ key[p] \in Key
    BY DEF NamesInPlace, Stage, Rename, RenameMisses, WriteFails
  <1> DEFINE M == MovedWith(key[p])
             L == LateWith(key[p])
  <1>1. M \in [Process -> [Key -> 0..2]] /\ L \in [Process -> BOOLEAN]
    BY <1>0, GhostTypes
  <1> HIDE DEF M, L
  <1>2. CASE Stage(p)
    BY <1>2 DEF Stage, Goto, TypeOK, Location, Used
  <1>3. CASE Rename(p)
    <2>1. file' \in [Key -> Ino \cup {None}]
      BY <1>3 DEF Rename, TypeOK
    <2>2. CASE key[p] \in Response
      BY <1>3, <1>1, <2>1, <2>2 DEF Rename, Goto, TypeOK, Location, M, L
    <2>3. CASE key[p] \notin Response
      <3>1. EndWith(p, M, L)
        BY <1>3, <2>3 DEF Rename, M, L
      <3> QED BY <1>3, <1>1, <2>1, <3>1, EndTypes DEF Rename, TypeOK
    <2> QED BY <2>2, <2>3
  <1>4. CASE RenameMisses(p)
    <2>1. End(p) /\ lock' \in {lock, None}
      BY <1>4 DEF RenameMisses, ReleaseFor, Release
    <2> QED BY <1>4, <2>1, PlainEndTypes DEF RenameMisses, TypeOK
  <1>5. CASE WriteFails(p)
    <2>1. lock' \in {lock, None} /\ faults' \in 0..MaxFaults
      BY <1>5, ConstantsAssumption DEF WriteFails, ReleaseFor, Release, Fault, TypeOK
    <2>2. CASE End(p) /\ UNCHANGED <<file, over>>
      BY <1>5, <2>1, <2>2, PlainEndTypes DEF WriteFails, TypeOK
    <2>3. CASE /\ temp[p] # None
               /\ file' = [file EXCEPT ![key[p]] = temp[p]]
               /\ over' = (over \/ key[p] \in Response)
               /\ EndWith(p, M, L)
      BY <1>5, <1>1, <2>1, <2>3, EndTypes DEF WriteFails, TypeOK
    <2> QED BY <1>5, <2>2, <2>3 DEF WriteFails, M, L
  <1> QED BY <1>2, <1>3, <1>4, <1>5

\* So does an eviction.
LEMMA EvictionTypes ==
  ASSUME TypeOK, NamesInPlace, NEW p \in Process,
         Scan(p) \/ ScanFails(p) \/ Evict(p) \/ EvictFails(p) \/ EvictEnds(p)
  PROVE  TypeOK'
  <1>1. CASE Scan(p)
    <2>1. PICK victims \in SUBSET Present(Response) : todo' = [todo EXCEPT ![p] = victims]
      BY <1>1 DEF Scan
    <2>2. todo' \in [Process -> SUBSET (Key \cup {LockFile} \cup 1..MaxRuns)]
      BY <2>1 DEF Present, Key, TypeOK
    <2>3. pc' \in [Process -> Location]
      BY <1>1 DEF Scan, Goto, TypeOK, Location
    <2>4. /\ over' = FALSE
          /\ UNCHANGED <<file, age, lock, run, key, temp, ino, moved, late, failed,
                         runs, faults, unlocked>>
      BY <1>1 DEF Scan
    <2> QED BY <2>2, <2>3, <2>4 DEF TypeOK
  <1>2. CASE ScanFails(p)
    <2>1. faults' \in 0..MaxFaults
      BY <1>2, FaultTypes DEF ScanFails
    <2> QED BY <1>2, <2>1, PlainEndTypes DEF ScanFails, Release, TypeOK
  <1>3. CASE Evict(p)
    <2>1. PICK k \in todo[p] :
             /\ file' = [file EXCEPT ![k] = None]
             /\ todo' = [todo EXCEPT ![p] = @ \ {k}]
             /\ IF file[k] # None THEN moved' = MovedWith(k) /\ late' = LateWith(k)
                                  ELSE UNCHANGED <<moved, late>>
      BY <1>3 DEF Evict
    <2>2. k \in Key
      BY <1>3 DEF Evict, NamesInPlace, Key
    <2>3. moved' \in [Process -> [Key -> 0..2]] /\ late' \in [Process -> BOOLEAN]
      BY <2>1, <2>2, GhostTypes DEF TypeOK
    <2>4. todo' \in [Process -> SUBSET (Key \cup {LockFile} \cup 1..MaxRuns)]
      BY <2>1 DEF TypeOK
    <2>5. file' \in [Key -> Ino \cup {None}]
      BY <2>1, <2>2 DEF TypeOK
    <2> QED BY <1>3, <2>3, <2>4, <2>5 DEF Evict, TypeOK
  <1>4. CASE EvictFails(p)
    <2>1. todo' \in [Process -> SUBSET (Key \cup {LockFile} \cup 1..MaxRuns)]
      BY <1>4 DEF EvictFails, TypeOK
    <2>2. faults' \in 0..MaxFaults
      BY <1>4, FaultTypes DEF EvictFails
    <2> QED BY <1>4, <2>1, <2>2 DEF EvictFails, TypeOK
  <1>5. CASE EvictEnds(p)
    BY <1>5, PlainEndTypes DEF EvictEnds, Release, TypeOK
  <1> QED BY <1>1, <1>2, <1>3, <1>4, <1>5

\* And a prune.
LEMMA PruneTypes ==
  ASSUME TypeOK, NamesInPlace, NEW p \in Process,
         \/ List(p) \/ Stat(p) \/ Read(p) \/ Restat(p) \/ Unlink(p)
         \/ EntryFails(p) \/ PruneEnds(p)
  PROVE  TypeOK'
  <1>0. [k \in Key |-> 0] \in [Key -> 0..2]
    OBVIOUS
  <1>1. CASE List(p)
    <2>1. PICK names \in SUBSET Key : todo' = [todo EXCEPT ![p] = names]
      BY <1>1 DEF List, Present, Key
    <2>2. todo' \in [Process -> SUBSET (Key \cup {LockFile} \cup 1..MaxRuns)]
      BY <2>1 DEF TypeOK
    <2> QED BY <1>1, <2>2 DEF List, Goto, TypeOK, Location
  <1>2. CASE Stat(p)
    <2>1. PICK k \in todo[p] :
             /\ todo' = [todo EXCEPT ![p] = @ \ {k}]
             /\ IF file[k] = None
                THEN UNCHANGED <<pc, key, ino, moved>>
                ELSE /\ key' = [key EXCEPT ![p] = k]
                     /\ ino' = [ino EXCEPT ![p] = file[k]]
                     /\ moved' = [moved EXCEPT ![p] = [j \in Key |-> 0]]
                     /\ Goto(p, "read")
      BY <1>2 DEF Stat
    <2>2. k \in Key
      BY <1>2 DEF Stat, Judges, NamesInPlace, Key
    <2>3. todo' \in [Process -> SUBSET (Key \cup {LockFile} \cup 1..MaxRuns)]
      BY <2>1 DEF TypeOK
    <2>4. /\ pc' \in [Process -> Location]
          /\ key' \in [Process -> Key \cup {None}]
          /\ ino' \in [Process -> Ino \cup {None}]
      BY <2>1, <2>2 DEF Goto, TypeOK, Location, Prunes
    <2>5. moved' \in [Process -> [Key -> 0..2]]
      BY <1>0, <2>1 DEF TypeOK
    <2> QED BY <1>2, <2>3, <2>4, <2>5 DEF Stat, TypeOK
  <1>3. ASSUME Skip(p) PROVE
          /\ pc' \in [Process -> Location]
          /\ UNCHANGED <<file, run, temp, todo, failed>>
          /\ key' \in [Process -> Key \cup {None}]
          /\ ino' \in [Process -> Ino \cup {None}]
          /\ moved' \in [Process -> [Key -> 0..2]]
          /\ late' \in [Process -> BOOLEAN]
    BY <1>3, <1>0 DEF Skip, Continue, Goto, TypeOK, Location
  <1>4. CASE Read(p)
    <2>1. CASE Goto(p, "restat") /\ UNCHANGED <<file, local>>
      BY <1>4, <2>1 DEF Read, Goto, TypeOK, Location, Prunes, local
    <2>2. CASE Skip(p)
      BY <1>4, <1>3, <2>2 DEF Read, TypeOK
    <2> QED BY <1>4, <2>1, <2>2 DEF Read
  <1>5. CASE Restat(p)
    <2>1. CASE Goto(p, "unlink") /\ UNCHANGED <<file, local>>
      BY <1>5, <2>1 DEF Restat, Goto, TypeOK, Location, Prunes, local
    <2>2. CASE Skip(p)
      BY <1>5, <1>3, <2>2 DEF Restat, TypeOK
    <2> QED BY <1>5, <2>1, <2>2 DEF Restat
  <1>6. CASE Unlink(p)
    <2>1. key[p] \in Key
      BY <1>6 DEF Unlink, NamesInPlace, Prunes
    <2> DEFINE m == IF file[key[p]] # None THEN MovedWith(key[p]) ELSE moved
               l == IF file[key[p]] # None THEN LateWith(key[p]) ELSE late
    <2>2. m \in [Process -> [Key -> 0..2]] /\ l \in [Process -> BOOLEAN]
      BY <2>1, GhostTypes DEF TypeOK
    <2>3. moved' = [m EXCEPT ![p] = [k \in Key |-> 0]]
      BY <1>6 DEF Unlink
    <2>4. late' = [l EXCEPT ![p] = FALSE]
      BY <1>6 DEF Unlink
    <2> HIDE DEF m, l
    <2>5. moved' \in [Process -> [Key -> 0..2]] /\ late' \in [Process -> BOOLEAN]
      BY <1>0, <2>2, <2>3, <2>4
    <2>6. file' \in [Key -> Ino \cup {None}]
      BY <1>6 DEF Unlink, TypeOK
    <2>7. /\ pc' \in [Process -> Location]
          /\ key' \in [Process -> Key \cup {None}]
          /\ ino' \in [Process -> Ino \cup {None}]
      BY <1>6 DEF Unlink, Continue, Goto, TypeOK, Location
    <2>8. UNCHANGED <<run, temp, todo, failed, age, lock, runs, faults, over, unlocked>>
      BY <1>6 DEF Unlink, Continue
    <2> QED BY <2>5, <2>6, <2>7, <2>8 DEF TypeOK
  <1>7. CASE EntryFails(p)
    <2>1. faults' \in 0..MaxFaults
      BY <1>7, FaultTypes DEF EntryFails
    <2> QED BY <1>7, <1>3, <2>1 DEF EntryFails, TypeOK
  <1>8. CASE PruneEnds(p)
    <2>1. CASE Goto(p, "listTool") /\ Release /\ UNCHANGED local
      BY <1>8, <2>1 DEF PruneEnds, Goto, Release, TypeOK, Location, local
    <2>2. CASE End(p) /\ UNCHANGED lock
      BY <1>8, <2>2, PlainEndTypes DEF PruneEnds, TypeOK
    <2> QED BY <1>8, <2>1, <2>2 DEF PruneEnds
  <1> QED BY <1>1, <1>2, <1>4, <1>5, <1>6, <1>7, <1>8

\* And a clear, a read's unlink and a death.
LEMMA ClearTypes ==
  ASSUME TypeOK, NamesInPlace, NEW p \in Process,
         \/ ClearName(p) \/ ClearLock(p) \/ ClearStaged(p) \/ ClearFails(p) \/ ClearEnds(p)
         \/ Drop(p) \/ Crash(p)
  PROVE  TypeOK'
  <1>1. CASE ClearName(p)
    <2>1. PICK k \in todo[p] \cap Key :
             /\ todo' = [todo EXCEPT ![p] = @ \ {k}]
             /\ file' = [file EXCEPT ![k] = None]
             /\ IF file[k] # None THEN moved' = MovedWith(k) /\ late' = LateWith(k)
                                  ELSE UNCHANGED <<moved, late>>
      BY <1>1 DEF ClearName
    <2>2. moved' \in [Process -> [Key -> 0..2]] /\ late' \in [Process -> BOOLEAN]
      BY <2>1, GhostTypes DEF TypeOK
    <2> QED BY <1>1, <2>1, <2>2 DEF ClearName, TypeOK
  <1>2. CASE ClearLock(p)
    BY <1>2 DEF ClearLock, Release, TypeOK
  <1>3. CASE ClearStaged(p)
    <2>1. todo' \in [Process -> SUBSET (Key \cup {LockFile} \cup 1..MaxRuns)]
      BY <1>3 DEF ClearStaged, TypeOK
    <2>2. temp' \in [Process -> Ino \cup {None}]
      BY <1>3 DEF ClearStaged, TypeOK
    <2> QED BY <1>3, <2>1, <2>2 DEF ClearStaged, TypeOK
  <1>4. CASE ClearFails(p)
    <2>1. todo' \in [Process -> SUBSET (Key \cup {LockFile} \cup 1..MaxRuns)]
      BY <1>4 DEF ClearFails, TypeOK
    <2>2. faults' \in 0..MaxFaults
      BY <1>4, FaultTypes DEF ClearFails
    <2>3. failed' \in [Process -> BOOLEAN]
      BY <1>4 DEF ClearFails, TypeOK
    <2> QED BY <1>4, <2>1, <2>2, <2>3 DEF ClearFails, TypeOK
  <1>5. CASE ClearEnds(p)
    BY <1>5, PlainEndTypes DEF ClearEnds, TypeOK
  <1>6. CASE Drop(p)
    <2>1. key[p] \in Key
      BY <1>6 DEF Drop, NamesInPlace
    <2>0. file' \in [Key -> Ino \cup {None}]
      BY <1>6 DEF Drop, TypeOK
    <2>2. CASE End(p)
      BY <1>6, <2>0, <2>2, PlainEndTypes DEF Drop, TypeOK
    <2>3. CASE EndWith(p, MovedWith(key[p]), LateWith(key[p]))
      <3> DEFINE M == MovedWith(key[p])
                 L == LateWith(key[p])
      <3>1. M \in [Process -> [Key -> 0..2]] /\ L \in [Process -> BOOLEAN]
        BY <2>1, GhostTypes
      <3>2. EndWith(p, M, L)
        BY <2>3
      <3> HIDE DEF M, L
      <3> QED BY <1>6, <2>0, <3>1, <3>2, EndTypes DEF Drop, TypeOK
    <2> QED BY <1>6, <2>2, <2>3 DEF Drop
  <1>7. CASE Crash(p)
    <2>1. faults' \in 0..MaxFaults
      BY <1>7, FaultTypes DEF Crash
    <2>2. lock' \in {lock, LockFile} /\ over' \in BOOLEAN
      BY <1>7 DEF Crash, TypeOK
    <2>3. End(p) /\ UNCHANGED <<file, age, runs, unlocked>>
      BY <1>7 DEF Crash
    <2> QED BY <2>1, <2>2, <2>3, PlainEndTypes DEF TypeOK
  <1> QED BY <1>1, <1>2, <1>3, <1>4, <1>5, <1>6, <1>7

\* And everything else: every step keeps the types.
LEMMA NextTypes ==
  ASSUME TypeOK, NamesInPlace, [Next]_vars
  PROVE  TypeOK'
  <1>1. ASSUME NEW p \in Process, Begin(p)
        PROVE  /\ runs' \in 0..MaxRuns
               /\ run' \in [Process -> 0..MaxRuns]
    <2>1. runs + 1 \in 0..MaxRuns
      BY <1>1, ConstantsAssumption DEF Begin, TypeOK
    <2> QED BY <1>1, <2>1 DEF Begin, TypeOK
  <1>2. ASSUME NEW p \in Process, StartWrite(p) PROVE TypeOK'
    <2>1. Begin(p)
      BY <1>2 DEF StartWrite
    <2>2. key' \in [Process -> Key \cup {None}] /\ pc' \in [Process -> Location]
      BY <1>2 DEF StartWrite, Goto, TypeOK, Location
    <2> QED BY <1>1, <1>2, <2>1, <2>2 DEF StartWrite, Begin, TypeOK
  <1>3. ASSUME NEW p \in Process, StartRead(p) PROVE TypeOK'
    <2>1. Begin(p)
      BY <1>3 DEF StartRead
    <2>2. key' \in [Process -> Key \cup {None}] /\ pc' \in [Process -> Location]
      BY <1>3 DEF StartRead, Goto, TypeOK, Location, Present, Key
    <2> QED BY <1>1, <1>3, <2>1, <2>2 DEF StartRead, Begin, TypeOK
  <1>4. ASSUME NEW p \in Process, StartPrune(p) PROVE TypeOK'
    <2>1. Begin(p)
      BY <1>4 DEF StartPrune
    <2> QED BY <1>1, <1>4, <2>1 DEF StartPrune, Begin, Goto, TypeOK, Location
  <1>5. ASSUME NEW p \in Process, StartClear(p) PROVE TypeOK'
    <2>1. [k \in Key |-> 0] \in [Key -> 0..2]
      OBVIOUS
    <2>2. moved' \in [Process -> [Key -> 0..2]]
      BY <1>5, <2>1 DEF StartClear, TypeOK
    <2> DEFINE S == {run[q] : q \in {r \in Process : temp[r] # None}}
               T == Listed \cup (IF lock = None THEN {} ELSE {LockFile}) \cup S
    <2>3. todo' = [todo EXCEPT ![p] = T]
      BY <1>5 DEF StartClear
    <2>4. S \subseteq 1..MaxRuns
      <3>1. \A q \in Process : temp[q] # None => run[q] \in 1..MaxRuns
        BY ConstantsAssumption DEF TypeOK, NamesInPlace
      <3> QED BY <3>1
    <2>5. T \in SUBSET (Key \cup {LockFile} \cup 1..MaxRuns)
      BY <2>4 DEF Listed, Present
    <2> HIDE DEF T
    <2>6. Begin(p) /\ todo' \in [Process -> SUBSET (Key \cup {LockFile} \cup 1..MaxRuns)]
      BY <1>5, <2>3, <2>5 DEF StartClear, TypeOK
    <2> QED BY <1>1, <1>5, <2>2, <2>6 DEF StartClear, Begin, Goto, TypeOK, Location
  <1>6. ASSUME NEW p \in Process, TakeLock(p) PROVE TypeOK'
    BY <1>6 DEF TakeLock, Goto, TypeOK, Location, local
  <1>7. ASSUME NEW p \in Process, LockTimeout(p) PROVE TypeOK'
    BY <1>7, PlainEndTypes DEF LockTimeout, TypeOK
  <1>8. CASE GrowOld
    BY <1>8 DEF GrowOld, TypeOK, local
  <1>9. CASE BreakStale
    BY <1>9 DEF BreakStale, Release, TypeOK, local
  <1>10. CASE UNCHANGED vars
    BY <1>10 DEF vars, local, TypeOK
  <1> QED
    BY <1>2, <1>3, <1>4, <1>5, <1>6, <1>7, <1>8, <1>9, <1>10, WriteTypes, EvictionTypes,
       PruneTypes, ClearTypes DEF Next

-----------------------------------------------------------------------------
\* What a step does to a file, to its ghosts, and to the other processes.

\* q does nothing; at most its staging file is taken.
Rests(q) ==
    /\ UNCHANGED <<pc[q], run[q], key[q], todo[q], ino[q], failed[q]>>
    /\ temp[q]' \in {temp[q], None}

Unseen(q) == UNCHANGED <<moved[q], late[q]>>

\* The file of k becomes i, gone or the staging file of one of the actors.
Changes(actors, k, i) ==
    /\ file' = [file EXCEPT ![k] = i]
    /\ file[k] # i
    /\ \/ i = None
       \/ \E p \in actors : i = temp[p] /\ pc[p] = "rename" /\ key[p] = k
    /\ \A q \in Process \ actors : moved'[q] = MovedWith(k)[q] /\ late'[q] = LateWith(k)[q]

Shape(actors) ==
    /\ \A q \in Process \ actors : Rests(q)
    /\ \/ UNCHANGED file /\ \A q \in Process \ actors : Unseen(q)
       \/ \E k \in Key, i \in Ino \cup {None} : Changes(actors, k, i)
    /\ unlocked => unlocked'
    /\ \A i \in Used \ {None} : age'[i] = "fresh" => age[i] = "fresh"

\* A step that changes no file.
LEMMA QuietShape ==
  ASSUME TypeOK, TypeOK', NEW actors \in SUBSET Process, UNCHANGED <<file, age>>,
         unlocked => unlocked',
         \A q \in Process \ actors : Rests(q) /\ Unseen(q)
  PROVE  Shape(actors)
  BY DEF Shape

\* A file that is gone is not changed by an unlink, one that is there is seen to go.
LEMMA RemovalShape ==
  ASSUME TypeOK, TypeOK', NEW p \in Process, NEW k \in Key,
         UNCHANGED <<age, unlocked>>, file' = [file EXCEPT ![k] = None],
         \A q \in Process \ {p} :
            /\ Rests(q)
            /\ file[k] = None => Unseen(q)
            /\ file[k] # None => moved'[q] = MovedWith(k)[q] /\ late'[q] = LateWith(k)[q]
  PROVE  Shape({p})
  <1>1. CASE file[k] = None
    <2>1. file' = file
      BY <1>1 DEF TypeOK
    <2> QED BY <1>1, <2>1 DEF Shape
  <1>2. CASE file[k] # None
    <2>1. Changes({p}, k, None)
      BY <1>2 DEF Changes
    <2> QED BY <2>1 DEF Shape
  <1> QED BY <1>1, <1>2

\* A command that ends leaves the others alone.
LEMMA EndRests ==
  ASSUME TypeOK, NEW p \in Process, NEW m \in [Process -> [Key -> 0..2]],
         NEW l \in [Process -> BOOLEAN], EndWith(p, m, l)
  PROVE  /\ \A q \in Process \ {p} : Rests(q) /\ moved'[q] = m[q] /\ late'[q] = l[q]
         /\ pc'[p] = "idle"
         /\ temp'[p] = None
  BY DEF EndWith, Goto, Rests, TypeOK

\* The same, of an end without a change to a file.
LEMMA PlainEndRests ==
  ASSUME TypeOK, NEW p \in Process, End(p)
  PROVE  /\ \A q \in Process \ {p} : Rests(q) /\ Unseen(q)
         /\ pc'[p] = "idle"
         /\ temp'[p] = None
  <1>1. moved \in [Process -> [Key -> 0..2]] /\ late \in [Process -> BOOLEAN]
    BY DEF TypeOK
  <1> QED BY <1>1, EndRests DEF End, Unseen

\* A rename puts another inode in place, and is seen.
LEMMA RenameShape ==
  ASSUME TypeOK, OneFilePerInode, NEW p \in Process, pc[p] = "rename", temp[p] # None,
         key[p] \in Key, UNCHANGED <<age, unlocked>>,
         file' = [file EXCEPT ![key[p]] = temp[p]],
         \A q \in Process \ {p} :
            Rests(q) /\ moved'[q] = MovedWith(key[p])[q] /\ late'[q] = LateWith(key[p])[q]
  PROVE  Shape({p})
  <1>1. temp[p] \in Ino /\ file[key[p]] # temp[p]
    BY DEF TypeOK, OneFilePerInode
  <1>2. Changes({p}, key[p], temp[p])
    BY <1>1 DEF Changes
  <1> QED BY <1>1, <1>2 DEF Shape

\* The actions that end a command or change no file.
LEMMA QuietShapes ==
  ASSUME TypeOK, TypeOK', NamesInPlace, NEW p \in Process,
         \/ StartWrite(p) \/ StartRead(p) \/ StartPrune(p) \/ StartClear(p)
         \/ TakeLock(p) \/ LockTimeout(p) \/ Stage(p) \/ RenameMisses(p)
         \/ Scan(p) \/ ScanFails(p) \/ EvictFails(p) \/ EvictEnds(p)
         \/ List(p) \/ Stat(p) \/ Read(p) \/ Restat(p) \/ EntryFails(p) \/ PruneEnds(p)
         \/ ClearLock(p) \/ ClearStaged(p) \/ ClearFails(p) \/ ClearEnds(p) \/ Crash(p)
  PROVE  Shape({p})
  <1> DEFINE Quiet == \A q \in Process \ {p} : Rests(q) /\ Unseen(q)
  <1>1. CASE StartWrite(p) \/ StartRead(p) \/ StartPrune(p)
    <2>1. Begin(p) /\ UNCHANGED <<todo, moved>>
      BY <1>1 DEF StartWrite, StartRead, StartPrune
    <2>2. \A q \in Process \ {p} : pc'[q] = pc[q] /\ key'[q] = key[q]
      BY <1>1 DEF StartWrite, StartRead, StartPrune, Goto, TypeOK
    <2>3. Quiet
      BY <2>1, <2>2 DEF Begin, Rests, Unseen, TypeOK
    <2> QED BY <2>1, <2>3, QuietShape DEF Begin
  <1>2. CASE StartClear(p)
    <2>1. \A q \in Process \ {p} : todo'[q] = todo[q] /\ moved'[q] = moved[q]
      BY <1>2 DEF StartClear, TypeOK
    <2>2. Begin(p) /\ Goto(p, "clear") /\ UNCHANGED key
      BY <1>2 DEF StartClear
    <2>3. Quiet
      BY <2>1, <2>2 DEF Begin, Goto, Rests, Unseen, TypeOK
    <2> QED BY <2>2, <2>3, QuietShape DEF Begin
  <1>3. CASE TakeLock(p)
    <2>1. Quiet
      BY <1>3 DEF TakeLock, Goto, local, Rests, Unseen, TypeOK
    <2> QED BY <1>3, <2>1, QuietShape DEF TakeLock
  <1>4. CASE Stage(p)
    <2>1. Quiet
      BY <1>4 DEF Stage, Goto, Rests, Unseen, TypeOK
    <2>2. \A i \in Used \ {None} : age'[i] = "fresh" => age[i] = "fresh"
      BY <1>4 DEF Stage, TypeOK
    <2> QED BY <1>4, <2>1, <2>2 DEF Stage, Shape
  <1>5. CASE LockTimeout(p) \/ RenameMisses(p) \/ ScanFails(p) \/ EvictEnds(p)
             \/ ClearEnds(p) \/ Crash(p)
    <2>1. End(p) /\ UNCHANGED <<file, age, unlocked>>
      BY <1>5 DEF LockTimeout, RenameMisses, ScanFails, EvictEnds, ClearEnds, Crash
    <2> QED BY <2>1, PlainEndRests, QuietShape
  <1>6. CASE Scan(p) \/ List(p) \/ EvictFails(p)
    <2>1. \A q \in Process \ {p} : todo'[q] = todo[q]
      BY <1>6 DEF Scan, List, EvictFails, TypeOK
    <2>2. UNCHANGED <<file, age, run, key, temp, ino, moved, late, failed, unlocked>>
      BY <1>6 DEF Scan, List, EvictFails
    <2>3. \A q \in Process \ {p} : pc'[q] = pc[q]
      BY <1>6 DEF Scan, List, EvictFails, Goto, TypeOK
    <2>4. Quiet
      BY <2>1, <2>2, <2>3 DEF Rests, Unseen
    <2> QED BY <2>2, <2>4, QuietShape
  <1>7. CASE Stat(p)
    <2>1. \A q \in Process \ {p} : /\ todo'[q] = todo[q] /\ pc'[q] = pc[q] /\ key'[q] = key[q]
                                   /\ ino'[q] = ino[q] /\ moved'[q] = moved[q]
      BY <1>7 DEF Stat, Goto, TypeOK
    <2>2. UNCHANGED <<file, age, run, temp, late, failed, unlocked>>
      BY <1>7 DEF Stat
    <2>3. Quiet
      BY <2>1, <2>2 DEF Rests, Unseen
    <2> QED BY <2>2, <2>3, QuietShape
  <1>8. ASSUME Skip(p) PROVE UNCHANGED file /\ Quiet
    BY <1>8 DEF Skip, Continue, Goto, Rests, Unseen, TypeOK
  <1>9. CASE Read(p) \/ Restat(p) \/ EntryFails(p)
    <2>1. UNCHANGED <<age, unlocked>>
      BY <1>9 DEF Read, Restat, EntryFails
    <2>2. CASE Skip(p)
      BY <1>8, <2>1, <2>2, QuietShape
    <2>3. CASE (Goto(p, "restat") \/ Goto(p, "unlink")) /\ UNCHANGED <<file, local>>
      <3>1. Quiet
        BY <2>3 DEF Goto, local, Rests, Unseen, TypeOK
      <3> QED BY <2>1, <2>3, <3>1, QuietShape
    <2> QED BY <1>9, <2>2, <2>3 DEF Read, Restat, EntryFails
  <1>10. CASE PruneEnds(p)
    <2>1. UNCHANGED <<file, age, unlocked>>
      BY <1>10 DEF PruneEnds
    <2>2. CASE Goto(p, "listTool") /\ Release /\ UNCHANGED local
      <3>1. Quiet
        BY <2>2 DEF Goto, local, Rests, Unseen, TypeOK
      <3> QED BY <2>1, <3>1, QuietShape
    <2>3. CASE End(p)
      BY <2>1, <2>3, PlainEndRests, QuietShape
    <2> QED BY <1>10, <2>2, <2>3 DEF PruneEnds
  <1>11. CASE ClearLock(p) \/ ClearFails(p)
    <2>1. \A q \in Process \ {p} : todo'[q] = todo[q] /\ failed'[q] = failed[q]
      BY <1>11 DEF ClearLock, ClearFails, TypeOK
    <2>2. UNCHANGED <<file, age, pc, run, key, temp, ino, moved, late>>
      BY <1>11 DEF ClearLock, ClearFails
    <2>3. Quiet
      BY <2>1, <2>2 DEF Rests, Unseen
    <2>4. unlocked => unlocked'
      BY <1>11 DEF ClearLock, ClearFails
    <2> QED BY <2>2, <2>3, <2>4, QuietShape
  <1>12. CASE ClearStaged(p)
    <2>1. \A q \in Process \ {p} : todo'[q] = todo[q] /\ temp'[q] \in {temp[q], None}
      BY <1>12 DEF ClearStaged, TypeOK
    <2>2. UNCHANGED <<file, age, pc, run, key, ino, moved, late, failed, unlocked>>
      BY <1>12 DEF ClearStaged
    <2>3. Quiet
      BY <2>1, <2>2 DEF Rests, Unseen
    <2> QED BY <2>2, <2>3, QuietShape
  <1> QED BY <1>1, <1>2, <1>3, <1>4, <1>5, <1>6, <1>7, <1>9, <1>10, <1>11, <1>12

\* The actions that may change a file.
LEMMA ChangeShapes ==
  ASSUME TypeOK, TypeOK', NamesInPlace, OneFilePerInode, NEW p \in Process,
         Rename(p) \/ WriteFails(p) \/ Evict(p) \/ Unlink(p) \/ ClearName(p) \/ Drop(p)
  PROVE  Shape({p})
  <1> DEFINE M == MovedWith(key[p])
             L == LateWith(key[p])
             Seen(k) == \A q \in Process \ {p} : moved'[q] = MovedWith(k)[q]
                                                 /\ late'[q] = LateWith(k)[q]
  <1>0. key[p] \in Key => M \in [Process -> [Key -> 0..2]] /\ L \in [Process -> BOOLEAN]
    BY GhostTypes
  <1>1. ASSUME key[p] \in Key, EndWith(p, M, L)
        PROVE  (\A q \in Process \ {p} : Rests(q)) /\ Seen(key[p])
    <2> HIDE DEF M, L
    <2>1. \A q \in Process \ {p} : Rests(q) /\ moved'[q] = M[q] /\ late'[q] = L[q]
      BY <1>0, <1>1, EndRests
    <2> QED BY <2>1 DEF M, L
  <1>2. CASE Rename(p)
    <2>1. /\ pc[p] = "rename" /\ temp[p] # None /\ UNCHANGED <<age, unlocked>>
          /\ file' = [file EXCEPT ![key[p]] = temp[p]]
      BY <1>2 DEF Rename
    <2>2. key[p] \in Key
      BY <2>1 DEF NamesInPlace
    <2>3. (\A q \in Process \ {p} : Rests(q)) /\ Seen(key[p])
      <3>1. CASE key[p] \in Response
        <4>1. \A q \in Process \ {p} : Rests(q)
          BY <1>2, <3>1 DEF Rename, Goto, Rests, TypeOK
        <4> QED BY <1>2, <3>1, <4>1 DEF Rename
      <3>2. CASE key[p] \notin Response
        <4>1. EndWith(p, M, L)
          BY <1>2, <3>2 DEF Rename
        <4> QED BY <1>1, <2>2, <4>1
      <3> QED BY <3>1, <3>2
    <2> QED BY <2>1, <2>2, <2>3, RenameShape
  <1>3. CASE WriteFails(p)
    <2>0. UNCHANGED <<age, unlocked>>
      BY <1>3 DEF WriteFails
    <2>1. CASE End(p) /\ UNCHANGED file
      BY <2>0, <2>1, PlainEndRests, QuietShape
    <2>2. CASE /\ pc[p] = "rename" /\ temp[p] # None
               /\ file' = [file EXCEPT ![key[p]] = temp[p]]
               /\ EndWith(p, M, L)
      <3>1. key[p] \in Key
        BY <2>2 DEF NamesInPlace
      <3>2. (\A q \in Process \ {p} : Rests(q)) /\ Seen(key[p])
        BY <1>1, <2>2, <3>1
      <3> QED BY <2>0, <2>2, <3>1, <3>2, RenameShape
    <2> QED BY <1>3, <2>1, <2>2 DEF WriteFails
  <1>4. CASE Evict(p) \/ ClearName(p)
    <2>1. UNCHANGED <<age, pc, run, key, temp, ino, failed, unlocked>>
      BY <1>4 DEF Evict, ClearName
    <2>2. PICK k \in todo[p] :
             /\ k \in Key
             /\ todo' = [todo EXCEPT ![p] = @ \ {k}]
             /\ file' = [file EXCEPT ![k] = None]
             /\ IF file[k] # None THEN moved' = MovedWith(k) /\ late' = LateWith(k)
                                  ELSE UNCHANGED <<moved, late>>
      BY <1>4 DEF Evict, ClearName, NamesInPlace, Key
    <2>3. \A q \in Process \ {p} : Rests(q)
      BY <2>1, <2>2 DEF Rests, TypeOK
    <2>4. file[k] = None => \A q \in Process \ {p} : Unseen(q)
      BY <2>2 DEF Unseen
    <2>5. file[k] # None => Seen(k)
      BY <2>2
    <2> QED BY <2>1, <2>2, <2>3, <2>4, <2>5, RemovalShape
  <1>5. CASE Unlink(p)
    <2>1. key[p] \in Key
      BY <1>5 DEF Unlink, NamesInPlace, Prunes
    <2>2. UNCHANGED <<age, unlocked>> /\ file' = [file EXCEPT ![key[p]] = None]
      BY <1>5 DEF Unlink
    <2>3. \A q \in Process \ {p} : Rests(q)
      BY <1>5 DEF Unlink, Continue, Goto, Rests, TypeOK
    <2>4. ASSUME file[key[p]] = None PROVE \A q \in Process \ {p} : Unseen(q)
      BY <1>5, <2>4 DEF Unlink, Unseen, TypeOK
    <2>5. ASSUME file[key[p]] # None PROVE Seen(key[p])
      <3> HIDE DEF M, L
      <3>1. moved' = [M EXCEPT ![p] = [k \in Key |-> 0]] /\ late' = [L EXCEPT ![p] = FALSE]
        BY <1>5, <2>5 DEF Unlink, M, L
      <3>2. \A q \in Process \ {p} : moved'[q] = M[q] /\ late'[q] = L[q]
        BY <1>0, <2>1, <3>1
      <3> QED BY <3>2 DEF M, L
    <2> QED BY <2>1, <2>2, <2>3, <2>4, <2>5, RemovalShape
  <1>6. CASE Drop(p)
    <2>1. key[p] \in Key
      BY <1>6 DEF Drop, NamesInPlace
    <2>2. UNCHANGED <<age, unlocked>> /\ file' = [file EXCEPT ![key[p]] = None]
      BY <1>6 DEF Drop
    <2>3. CASE file[key[p]] = None
      <3>1. End(p)
        BY <1>6, <2>3 DEF Drop
      <3> QED BY <2>1, <2>2, <2>3, <3>1, PlainEndRests, RemovalShape
    <2>4. CASE file[key[p]] # None
      <3>1. EndWith(p, M, L)
        BY <1>6, <2>4 DEF Drop
      <3> QED BY <1>1, <2>1, <2>2, <2>4, <3>1, RemovalShape
    <2> QED BY <2>3, <2>4
  <1> QED BY <1>2, <1>3, <1>4, <1>5, <1>6

\* Every step is one of these, of one process or of none.
LEMMA StepShapes ==
  ASSUME TypeOK, TypeOK', NamesInPlace, OneFilePerInode
  PROVE  /\ \A p \in Process : ByProcess(p) => Shape({p})
         /\ GrowOld \/ BreakStale \/ UNCHANGED vars => Shape({})
  <1>1. \A p \in Process : ByProcess(p) => Shape({p})
    BY QuietShapes, ChangeShapes DEF ByProcess
  <1>2. CASE GrowOld
    <2>1. UNCHANGED <<file, pc, local, unlocked>>
      BY <1>2 DEF GrowOld
    <2>2. \A i \in Used \ {None} : age'[i] = "fresh" => age[i] = "fresh"
      BY <1>2 DEF GrowOld, TypeOK
    <2>3. \A q \in Process : Rests(q) /\ Unseen(q)
      BY <2>1 DEF local, Rests, Unseen
    <2> QED BY <2>1, <2>2, <2>3 DEF Shape
  <1>3. CASE BreakStale \/ UNCHANGED vars
    <2>1. UNCHANGED <<file, age, pc, local, unlocked>>
      BY <1>3 DEF BreakStale, vars
    <2>2. \A q \in Process : Rests(q) /\ Unseen(q)
      BY <2>1 DEF local, Rests, Unseen
    <2> QED BY <2>1, <2>2, QuietShape
  <1> QED BY <1>1, <1>2, <1>3

-----------------------------------------------------------------------------
\* NamesInPlace.

InPlace(p) ==
    /\ run[p] = 0 => pc[p] = "idle"
    /\ temp[p] # None => pc[p] = "rename"
    /\ pc[p] \in {"lock", "scan"} => key[p] \in Response
    /\ pc[p] \in {"stage", "rename", "drop"} \cup Prunes => key[p] \in Key
    /\ pc[p] \in {"evict", "judge"} => todo[p] \subseteq Response
    /\ pc[p] = "judgeTool" => todo[p] \subseteq Tool
    /\ pc[p] \in Prunes => todo[p] \subseteq (IF key[p] \in Response THEN Response ELSE Tool)

\* A process that has ended its command has nothing to be in place.
LEMMA EndedInPlace ==
  ASSUME TypeOK, NEW p \in Process, pc'[p] = "idle", temp'[p] = None
  PROVE  InPlace(p)'
  BY DEF InPlace, Prunes

\* An action leaves its own process's variables in place.
LEMMA ActorInPlace ==
  ASSUME TypeOK, TypeOK', NamesInPlace, NEW p \in Process, ByProcess(p)
  PROVE  InPlace(p)'
  <1>0. InPlace(p)
    BY DEF NamesInPlace, InPlace
  <1> USE DEF InPlace
  <1>1. CASE StartWrite(p) \/ StartRead(p) \/ StartPrune(p) \/ StartClear(p)
    <2>1. Begin(p)
      BY <1>1 DEF StartWrite, StartRead, StartPrune, StartClear
    <2>2. run'[p] # 0 /\ temp'[p] = None
      BY <1>0, <2>1, ConstantsAssumption DEF Begin, TypeOK
    <2>3. \/ pc'[p] = "lock" /\ key'[p] \in Response
          \/ pc'[p] \in {"stage", "drop"} /\ key'[p] \in Key
          \/ pc'[p] \in {"pruneLock", "clear"}
      BY <1>1 DEF StartWrite, StartRead, StartPrune, StartClear, Goto, TypeOK, Present, Key
    <2> QED BY <2>2, <2>3 DEF Prunes
  <1>2. CASE TakeLock(p) \/ Stage(p)
    <2>1. \/ pc'[p] = "list" /\ temp'[p] = temp[p] /\ pc[p] = "pruneLock"
          \/ pc'[p] = "stage" /\ temp'[p] = temp[p] /\ pc[p] = "lock"
          \/ pc'[p] = "rename" /\ pc[p] = "stage"
      BY <1>2 DEF TakeLock, Stage, Goto, TypeOK, local
    <2>2. UNCHANGED <<key, run>>
      BY <1>2 DEF TakeLock, Stage, local
    <2> QED BY <1>0, <2>1, <2>2 DEF Prunes, Key
  <1>3. CASE LockTimeout(p) \/ RenameMisses(p) \/ ScanFails(p) \/ EvictEnds(p)
             \/ ClearEnds(p) \/ Crash(p)
    <2>1. End(p)
      BY <1>3 DEF LockTimeout, RenameMisses, ScanFails, EvictEnds, ClearEnds, Crash
    <2> QED BY <2>1, PlainEndRests, EndedInPlace
  <1>4. ASSUME NEW m, NEW l, EndWith(p, m, l) PROVE InPlace(p)'
    <2>1. pc'[p] = "idle" /\ temp'[p] = None
      BY <1>4 DEF EndWith, Goto, TypeOK
    <2> QED BY <2>1, EndedInPlace
  <1>5. CASE Rename(p) \/ WriteFails(p) \/ Drop(p)
    <2>1. CASE \E m, l : EndWith(p, m, l)
      BY <1>4, <2>1
    <2>2. CASE End(p)
      BY <2>2, PlainEndRests, EndedInPlace
    <2>3. CASE key[p] \in Response /\ Goto(p, "scan") /\ temp' = [temp EXCEPT ![p] = None]
               /\ UNCHANGED <<run, key>> /\ pc[p] = "rename"
      BY <1>0, <2>3 DEF Goto, TypeOK, Prunes
    <2> QED BY <1>5, <2>1, <2>2, <2>3 DEF Rename, WriteFails, Drop
  <1>6. CASE Scan(p)
    <2>1. pc'[p] = "evict" /\ todo'[p] \subseteq Response /\ UNCHANGED <<run, key, temp>>
      BY <1>6 DEF Scan, Goto, Present, TypeOK
    <2> QED BY <1>0, <1>6, <2>1 DEF Prunes, Scan
  <1>7. CASE Evict(p) \/ EvictFails(p)
    <2>1. UNCHANGED <<pc, run, key, temp>> /\ pc[p] = "evict" /\ todo'[p] \subseteq todo[p]
      BY <1>7 DEF Evict, EvictFails, TypeOK
    <2> QED BY <1>0, <2>1 DEF Prunes
  <1>8. CASE List(p)
    <2>1. \/ pc'[p] = "judge" /\ todo'[p] \subseteq Response
          \/ pc'[p] = "judgeTool" /\ todo'[p] \subseteq Tool
      BY <1>8 DEF List, Goto, Present, TypeOK
    <2>2. UNCHANGED <<run, key, temp>> /\ pc[p] \in {"list", "listTool"}
      BY <1>8 DEF List
    <2> QED BY <1>0, <2>1, <2>2 DEF Prunes
  <1>9. CASE Stat(p)
    <2>1. UNCHANGED <<run, temp>> /\ pc[p] \in {"judge", "judgeTool"} /\ todo'[p] \subseteq todo[p]
      BY <1>9 DEF Stat, Judges, TypeOK
    <2>2. \/ pc'[p] = pc[p]
          \/ /\ pc'[p] = "read" /\ key'[p] \in todo[p]
      BY <1>9 DEF Stat, Goto, TypeOK
    <2>3. pc[p] = "judge" => todo[p] \subseteq Response
      BY <1>0
    <2>4. pc[p] = "judgeTool" => todo[p] \subseteq Tool
      BY <1>0
    <2>5. \A k \in Tool : k \notin Response
      BY ConstantsAssumption
    <2> QED BY <1>0, <2>1, <2>2, <2>3, <2>4, <2>5 DEF Prunes, Key
  <1>10. CASE Read(p) \/ Restat(p) \/ Unlink(p) \/ EntryFails(p)
    <2>1. pc[p] \in Prunes
      BY <1>10 DEF Read, Restat, Unlink, EntryFails, Prunes
    <2>2. CASE Continue(p)
      <3>1. UNCHANGED <<run, temp, todo>>
            /\ pc'[p] = IF key[p] \in Response THEN "judge" ELSE "judgeTool"
        BY <2>2 DEF Continue, Goto, TypeOK
      <3> QED BY <1>0, <2>1, <3>1 DEF Prunes
    <2>3. CASE (Goto(p, "restat") \/ Goto(p, "unlink")) /\ UNCHANGED local
      <3>1. pc'[p] \in {"restat", "unlink"} /\ UNCHANGED <<run, temp, todo, key>>
        BY <2>3 DEF Goto, local, TypeOK
      <3> QED BY <1>0, <2>1, <3>1 DEF Prunes
    <2> QED BY <1>10, <2>2, <2>3 DEF Read, Restat, Unlink, EntryFails, Skip
  <1>11. CASE PruneEnds(p)
    <2>1. CASE End(p)
      BY <2>1, PlainEndRests, EndedInPlace
    <2>2. CASE Goto(p, "listTool") /\ UNCHANGED local
      <3>1. pc'[p] = "listTool" /\ UNCHANGED <<run, temp>> /\ pc[p] \in {"judge", "judgeTool"}
        BY <1>11, <2>2 DEF Goto, local, TypeOK, PruneEnds, Judges
      <3> QED BY <1>0, <3>1 DEF Prunes
    <2> QED BY <1>11, <2>1, <2>2 DEF PruneEnds
  <1>12. CASE ClearName(p) \/ ClearLock(p) \/ ClearStaged(p) \/ ClearFails(p)
    <2>1. UNCHANGED <<pc, run, key>> /\ pc[p] = "clear" /\ temp'[p] \in {temp[p], None}
      BY <1>12 DEF ClearName, ClearLock, ClearStaged, ClearFails, TypeOK
    <2> QED BY <1>0, <2>1 DEF Prunes
  <1> QED BY <1>1, <1>2, <1>3, <1>5, <1>6, <1>7, <1>8, <1>9, <1>10, <1>11, <1>12 DEF ByProcess

\* And a process that rests stays in place.
LEMMA NextInPlace ==
  ASSUME IInv, TypeOK', [Next]_vars
  PROVE  NamesInPlace'
  <1>0. TypeOK /\ NamesInPlace /\ OneFilePerInode
    BY DEF IInv
  <1>1. ASSUME NEW q \in Process, Rests(q) PROVE InPlace(q)'
    <2>1. InPlace(q)
      BY <1>0 DEF NamesInPlace, InPlace
    <2> QED BY <1>1, <2>1 DEF InPlace, Rests
  <1>2. CASE \E p \in Process : ByProcess(p)
    <2>1. PICK p \in Process : ByProcess(p)
      BY <1>2
    <2>2. Shape({p}) /\ InPlace(p)'
      BY <1>0, <2>1, StepShapes, ActorInPlace
    <2>3. \A q \in Process : InPlace(q)'
      BY <1>1, <2>2 DEF Shape
    <2> QED BY <2>3 DEF NamesInPlace, InPlace
  <1>3. CASE GrowOld \/ BreakStale \/ UNCHANGED vars
    <2>1. Shape({})
      BY <1>0, <1>3, StepShapes
    <2>2. \A q \in Process : InPlace(q)'
      BY <1>1, <2>1 DEF Shape
    <2> QED BY <2>2 DEF NamesInPlace, InPlace
  <1> QED BY <1>2, <1>3 DEF Next, ByProcess

-----------------------------------------------------------------------------
\* OneFilePerInode.

\* Files and staging files that go do not share an inode.
LEMMA FilesDwindle ==
  ASSUME OneFilePerInode,
         \A k \in Key : file'[k] \in {file[k], None},
         \A p \in Process : temp'[p] \in {temp[p], None}
  PROVE  OneFilePerInode'
  BY DEF OneFilePerInode

\* A staged file that is renamed has one name.
LEMMA RenameMoves ==
  ASSUME TypeOK, TypeOK', OneFilePerInode, NEW p \in Process, key[p] \in Key,
         file' = [file EXCEPT ![key[p]] = temp[p]], temp'[p] = None,
         \A q \in Process \ {p} : temp'[q] \in {temp[q], None}
  PROVE  OneFilePerInode'
  <1>1. \A k \in Key : file'[k] = IF k = key[p] THEN temp[p] ELSE file[k]
    BY DEF TypeOK
  <1>2. \A q \in Process : q # p => temp'[q] \in {temp[q], None}
    OBVIOUS
  <1>3. \A j, k \in Key : j # k /\ file'[j] # None => file'[j] # file'[k]
    BY <1>1 DEF OneFilePerInode
  <1>4. \A q \in Process, k \in Key : temp'[q] # None => temp'[q] # file'[k]
    BY <1>1, <1>2 DEF OneFilePerInode
  <1>5. \A q, r \in Process : q # r /\ temp'[q] # None => temp'[q] # temp'[r]
    BY <1>2 DEF OneFilePerInode
  <1> QED BY <1>3, <1>4, <1>5 DEF OneFilePerInode

\* No step gives an inode a second file.
LEMMA NextDistinct ==
  ASSUME IInv, TypeOK', [Next]_vars
  PROVE  OneFilePerInode'
  <1>0. TypeOK /\ NamesInPlace /\ OneFilePerInode
    BY DEF IInv
  <1>1. ASSUME NEW p \in Process, ByProcess(p), temp'[p] \in {temp[p], None},
               pc[p] # "rename"
        PROVE  OneFilePerInode'
    <2>1. Shape({p})
      BY <1>0, <1>1, StepShapes
    <2>2. \A q \in Process : temp'[q] \in {temp[q], None}
      BY <1>1, <2>1 DEF Shape, Rests
    <2>3. \A k \in Key : file'[k] \in {file[k], None}
      BY <1>0, <1>1, <2>1 DEF Shape, Changes, TypeOK
    <2> QED BY <1>0, <2>2, <2>3, FilesDwindle
  <1>2. ASSUME NEW p \in Process, Stage(p) PROVE OneFilePerInode'
    <2>1. PICK i \in Ino \ Used : temp' = [temp EXCEPT ![p] = i]
      BY <1>2 DEF Stage
    <2>2. UNCHANGED file
      BY <1>2 DEF Stage
    <2>3. \A q \in Process : temp'[q] = IF q = p THEN i ELSE temp[q]
      BY <1>0, <2>1 DEF TypeOK
    <2>4. (\A k \in Key : file[k] # i) /\ \A q \in Process : temp[q] # i
      BY <2>1 DEF Used
    <2>5. i # None
      BY <2>1, ConstantsAssumption
    <2> QED BY <1>0, <2>2, <2>3, <2>4, <2>5 DEF OneFilePerInode
  <1>3. ASSUME NEW p \in Process, End(p), UNCHANGED file PROVE OneFilePerInode'
    <2>1. \A q \in Process : temp'[q] \in {temp[q], None}
      BY <1>0, <1>3, PlainEndRests DEF Rests
    <2> QED BY <1>0, <1>3, <2>1, FilesDwindle
  <1>4. ASSUME NEW p \in Process, Rename(p) \/ WriteFails(p) \/ RenameMisses(p)
        PROVE  OneFilePerInode'
    <2>1. CASE End(p) /\ UNCHANGED file
      BY <1>3, <2>1
    <2>2. CASE /\ pc[p] = "rename"
               /\ file' = [file EXCEPT ![key[p]] = temp[p]]
               /\ \/ \E m, l : EndWith(p, m, l)
                  \/ temp' = [temp EXCEPT ![p] = None]
      <3>1. temp' = [temp EXCEPT ![p] = None]
        BY <2>2 DEF EndWith
      <3>2. temp'[p] = None /\ \A q \in Process \ {p} : temp'[q] \in {temp[q], None}
        BY <1>0, <3>1 DEF TypeOK
      <3>3. key[p] \in Key
        BY <1>0, <2>2 DEF NamesInPlace
      <3> QED BY <1>0, <2>2, <3>2, <3>3, RenameMoves
    <2> QED BY <1>4, <2>1, <2>2 DEF Rename, WriteFails, RenameMisses
  <1>5. ASSUME NEW p \in Process, Crash(p) PROVE OneFilePerInode'
    BY <1>3, <1>5 DEF Crash
  <1>6. ASSUME NEW p \in Process, ByProcess(p), ~Stage(p), ~Rename(p), ~WriteFails(p),
               ~RenameMisses(p), ~Crash(p)
        PROVE  temp'[p] \in {temp[p], None} /\ pc[p] # "rename"
    <2>1. CASE \/ StartWrite(p) \/ StartRead(p) \/ StartPrune(p) \/ StartClear(p)
               \/ TakeLock(p) \/ Scan(p) \/ EvictFails(p) \/ List(p) \/ Stat(p)
               \/ ClearLock(p) \/ ClearFails(p) \/ Evict(p) \/ ClearName(p)
      BY <2>1 DEF StartWrite, StartRead, StartPrune, StartClear, Begin, TakeLock, Scan,
                  EvictFails, List, Stat, Judges, ClearLock, ClearFails, Evict, ClearName, local
    <2>2. CASE LockTimeout(p) \/ ScanFails(p) \/ EvictEnds(p) \/ ClearEnds(p)
      <3>1. End(p)
        BY <2>2 DEF LockTimeout, ScanFails, EvictEnds, ClearEnds
      <3>2. temp'[p] = None
        BY <1>0, <3>1, PlainEndRests
      <3> QED BY <2>2, <3>2 DEF LockTimeout, ScanFails, EvictEnds, ClearEnds
    <2>3. CASE Read(p) \/ Restat(p) \/ Unlink(p) \/ EntryFails(p)
      BY <2>3 DEF Read, Restat, Unlink, EntryFails, Skip, Continue, Prunes, local
    <2>4. CASE PruneEnds(p)
      <3>1. CASE End(p)
        BY <1>0, <2>4, <3>1, PlainEndRests DEF PruneEnds, Judges
      <3>2. CASE UNCHANGED local
        BY <2>4, <3>2 DEF PruneEnds, Judges, local
      <3> QED BY <2>4, <3>1, <3>2 DEF PruneEnds
    <2>5. CASE ClearStaged(p)
      BY <1>0, <2>5 DEF ClearStaged, TypeOK
    <2>6. CASE Drop(p)
      <3>1. \/ End(p)
            \/ EndWith(p, MovedWith(key[p]), LateWith(key[p]))
        BY <2>6 DEF Drop
      <3>2. temp' = [temp EXCEPT ![p] = None]
        BY <3>1 DEF End, EndWith
      <3> QED BY <1>0, <2>6, <3>2 DEF Drop, TypeOK
    <2> QED BY <1>6, <2>1, <2>2, <2>3, <2>4, <2>5, <2>6 DEF ByProcess
  <1>7. CASE GrowOld \/ BreakStale \/ UNCHANGED vars
    <2>1. UNCHANGED <<file, temp>>
      BY <1>7 DEF GrowOld, BreakStale, vars, local
    <2> QED BY <1>0, <2>1 DEF OneFilePerInode
  <1> QED BY <1>1, <1>2, <1>4, <1>5, <1>6, <1>7 DEF Next, ByProcess

-----------------------------------------------------------------------------
\* HoldersLock.

\* What an action does to the lock.
LockShape(p) ==
    \/ unlocked'
    \/ UNCHANGED lock /\ (Holds(p)' => Holds(p))
    \/ lock = None /\ lock' = p
    \/ Holds(p) /\ lock' = None /\ ~Holds(p)'
    \/ lock = p /\ ~Holds(p)'
    \/ lock \notin Process /\ UNCHANGED Holds(p)

\* A process that has ended its command holds nothing.
LEMMA EndedHoldsNot ==
  ASSUME NEW p \in Process, pc'[p] = "idle"
  PROVE  ~Holds(p)'
  BY DEF Holds, Prunes

\* Every action takes, keeps or gives back the lock as its place says.
LEMMA LockShapes ==
  ASSUME TypeOK, TypeOK', NamesInPlace, NEW p \in Process, ByProcess(p)
  PROVE  LockShape(p)
  <1> USE DEF LockShape
  <1>1. CASE StartWrite(p) \/ StartRead(p) \/ StartPrune(p) \/ StartClear(p)
    <2>1. UNCHANGED lock
      BY <1>1 DEF StartWrite, StartRead, StartPrune, StartClear, Begin
    <2>2. pc[p] = "idle"
      BY <1>1 DEF StartWrite, StartRead, StartPrune, StartClear, Begin
    <2>3. \/ pc'[p] \in {"lock", "drop", "pruneLock", "clear"}
          \/ pc'[p] = "stage" /\ key'[p] \notin Response
      BY <1>1 DEF StartWrite, StartRead, StartPrune, StartClear, Goto, TypeOK
    <2>4. ~Holds(p)'
      BY <2>3 DEF Holds, Prunes
    <2> QED BY <2>1, <2>4
  <1>2. CASE TakeLock(p)
    BY <1>2 DEF TakeLock
  <1>3. CASE Stage(p)
    BY <1>3 DEF Stage, Goto, Holds, TypeOK
  <1>4. CASE LockTimeout(p) \/ ClearEnds(p)
    <2>1. End(p) /\ UNCHANGED lock
      BY <1>4 DEF LockTimeout, ClearEnds
    <2> QED BY <2>1, PlainEndRests, EndedHoldsNot
  <1>5. CASE ScanFails(p) \/ EvictEnds(p)
    <2>1. End(p) /\ lock' = None /\ Holds(p)
      BY <1>5 DEF ScanFails, EvictEnds, Release, Holds
    <2> QED BY <2>1, PlainEndRests, EndedHoldsNot
  <1>6. CASE RenameMisses(p) \/ WriteFails(p)
    <2>1. pc[p] \in {"stage", "rename"} /\ ReleaseFor(key[p])
      BY <1>6 DEF RenameMisses, WriteFails
    <2>2. \/ End(p) \/ \E m, l : EndWith(p, m, l)
      BY <1>6 DEF RenameMisses, WriteFails
    <2>3. pc' = [pc EXCEPT ![p] = "idle"]
      BY <2>2 DEF End, EndWith, Goto
    <2>4. ~Holds(p)'
      BY <2>3, EndedHoldsNot DEF TypeOK
    <2> QED BY <2>1, <2>4 DEF ReleaseFor, Release, Holds
  <1>7. CASE Rename(p)
    <2>1. UNCHANGED lock /\ pc[p] = "rename"
      BY <1>7 DEF Rename
    <2>2. CASE key[p] \in Response
      BY <2>1, <2>2 DEF Holds
    <2>3. CASE key[p] \notin Response
      <3>1. pc' = [pc EXCEPT ![p] = "idle"]
        BY <1>7, <2>3 DEF Rename, EndWith, Goto
      <3>2. ~Holds(p)'
        BY <3>1, EndedHoldsNot DEF TypeOK
      <3> QED BY <2>1, <3>2
    <2> QED BY <2>2, <2>3
  <1>8. CASE Scan(p) \/ Evict(p) \/ EvictFails(p) \/ (List(p) /\ pc[p] = "list")
    <2>1. UNCHANGED lock /\ Holds(p)
      BY <1>8 DEF Scan, Evict, EvictFails, List, Holds
    <2> QED BY <2>1
  <1>9. CASE List(p) /\ pc[p] # "list"
    <2>1. UNCHANGED lock /\ pc'[p] = "judgeTool"
      BY <1>9 DEF List, Goto, TypeOK
    <2> QED BY <2>1 DEF Holds, Prunes
  <1>10. CASE Stat(p)
    <2>1. UNCHANGED lock /\ pc[p] \in {"judge", "judgeTool"}
      BY <1>10 DEF Stat, Judges
    <2>2. CASE pc[p] = "judge"
      BY <2>1, <2>2 DEF Holds
    <2>3. CASE pc[p] = "judgeTool"
      <3>1. \/ pc'[p] = pc[p]
            \/ pc'[p] = "read" /\ key'[p] \in todo[p]
        BY <1>10 DEF Stat, Goto, TypeOK
      <3>2. todo[p] \cap Response = {}
        BY <2>3, ConstantsAssumption DEF NamesInPlace
      <3> QED BY <2>1, <2>3, <3>1, <3>2 DEF Holds, Prunes
    <2> QED BY <2>1, <2>2, <2>3
  <1>11. CASE Read(p) \/ Restat(p) \/ Unlink(p) \/ EntryFails(p)
    <2>1. UNCHANGED lock /\ pc[p] \in Prunes
      BY <1>11 DEF Read, Restat, Unlink, EntryFails, Prunes
    <2>2. \/ pc'[p] = IF key[p] \in Response THEN "judge" ELSE "judgeTool"
          \/ pc'[p] \in {"restat", "unlink"} /\ key'[p] = key[p]
      BY <1>11 DEF Read, Restat, Unlink, EntryFails, Skip, Continue, Goto, TypeOK, local
    <2> QED BY <2>1, <2>2 DEF Holds, Prunes
  <1>12. CASE PruneEnds(p)
    <2>1. CASE pc[p] = "judge"
      <3>1. pc'[p] = "listTool" /\ lock' = None
        BY <1>12, <2>1 DEF PruneEnds, Goto, Release, TypeOK
      <3> QED BY <2>1, <3>1 DEF Holds, Prunes
    <2>2. CASE pc[p] # "judge"
      <3>1. End(p) /\ UNCHANGED lock
        BY <1>12, <2>2 DEF PruneEnds
      <3> QED BY <3>1, PlainEndRests, EndedHoldsNot
    <2> QED BY <2>1, <2>2
  <1>13. CASE ClearName(p) \/ ClearStaged(p) \/ ClearFails(p)
    BY <1>13 DEF ClearName, ClearStaged, ClearFails, Holds
  <1>14. CASE ClearLock(p)
    BY <1>14 DEF ClearLock, Holds
  <1>15. CASE Drop(p)
    <2>1. UNCHANGED lock /\ pc' = [pc EXCEPT ![p] = "idle"]
      BY <1>15 DEF Drop, End, EndWith, Goto
    <2> QED BY <2>1, EndedHoldsNot DEF TypeOK
  <1>16. CASE Crash(p)
    <2>1. End(p) /\ (lock = p \/ UNCHANGED lock)
      BY <1>16 DEF Crash
    <2> QED BY <2>1, PlainEndRests, EndedHoldsNot
  <1> HIDE DEF LockShape
  <1> QED
    BY <1>1, <1>2, <1>3, <1>4, <1>5, <1>6, <1>7, <1>8, <1>9, <1>10, <1>11, <1>12, <1>13, <1>14,
       <1>15, <1>16 DEF ByProcess

\* While no clear has broken it, the lock is its holder's.
LEMMA NextHolders ==
  ASSUME IInv, TypeOK', [Next]_vars
  PROVE  HoldersLock'
  <1>0. TypeOK /\ NamesInPlace /\ OneFilePerInode /\ HoldersLock
    BY DEF IInv
  <1>1. ASSUME NEW q \in Process, Rests(q) PROVE Holds(q)' <=> Holds(q)
    BY <1>1 DEF Holds, Rests
  <1>2. ASSUME NEW p \in Process, ByProcess(p), ~unlocked' PROVE \A q \in Process : Holds(q)' => lock' = q
    <2>1. Shape({p}) /\ LockShape(p)
      BY <1>0, <1>2, StepShapes, LockShapes
    <2>2. \A q \in Process : Holds(q) => lock = q
      BY <1>0, <1>2, <2>1 DEF Shape, HoldersLock
    <2>3. \A q \in Process \ {p} : Holds(q)' <=> Holds(q)
      BY <1>1, <2>1 DEF Shape
    <2>4. None \notin Process
      BY ConstantsAssumption
    <2> HIDE DEF Holds
    <2> QED BY <1>2, <2>1, <2>2, <2>3, <2>4 DEF LockShape
  <1>3. CASE GrowOld \/ BreakStale \/ UNCHANGED vars
    <2>1. Shape({})
      BY <1>0, <1>3, StepShapes
    <2>2. \A q \in Process : Holds(q)' <=> Holds(q)
      BY <1>1, <2>1 DEF Shape
    <2>3. lock = LockFile \/ UNCHANGED lock
      BY <1>3 DEF GrowOld, BreakStale, vars
    <2>4. LockFile \notin Process
      BY ConstantsAssumption
    <2> HIDE DEF Holds
    <2> QED BY <1>0, <2>1, <2>2, <2>3, <2>4 DEF HoldersLock, Shape
  <1> QED BY <1>2, <1>3 DEF Next, ByProcess, HoldersLock

-----------------------------------------------------------------------------
\* PrunesTrack and ClearsTrack.

\* The ghosts of a process that does not act.
LEMMA GhostsOf ==
  ASSUME TypeOK, NEW k \in Key, NEW q \in Process
  PROVE  /\ \A j \in Key : j # k => MovedWith(k)[q][j] = moved[q][j]
         /\ Watching(q, k) /\ moved[q][k] = 0 => MovedWith(k)[q][k] = 1
         /\ Watching(q, k) /\ moved[q][k] # 0 => MovedWith(k)[q][k] = 2
         /\ ~Watching(q, k) => MovedWith(k)[q] = moved[q]
         /\ LateWith(k)[q] = (late[q] \/ (pc[q] = "unlink" /\ key[q] = k))
  <1>1. moved[q] \in [Key -> 0..2]
    BY DEF TypeOK
  <1>2. MovedWith(k)[q] = IF Watching(q, k) /\ moved[q][k] < 2
                          THEN [moved[q] EXCEPT ![k] = @ + 1] ELSE moved[q]
    BY DEF MovedWith
  <1>3. LateWith(k)[q] = (late[q] \/ (pc[q] = "unlink" /\ key[q] = k))
    BY DEF LateWith
  <1>4. moved[q][k] \in 0..2
    BY <1>1
  <1>5. moved[q][k] < 2 =>
          /\ [moved[q] EXCEPT ![k] = @ + 1][k] = moved[q][k] + 1
          /\ \A j \in Key : j # k => [moved[q] EXCEPT ![k] = @ + 1][j] = moved[q][j]
    BY <1>1
  <1> QED BY <1>2, <1>3, <1>4, <1>5

\* A prune keeps track while others act.
LEMMA RestingTracks ==
  ASSUME IInv, TypeOK', NEW actors \in SUBSET Process, Shape(actors),
         NEW q \in Process \ actors
  PROVE  Tracks(q)'
  <1>0. TypeOK /\ NamesInPlace /\ OneFilePerInode /\ HoldersLock /\ Tracks(q)
    BY DEF IInv, PrunesTrack
  <1>1. pc'[q] = pc[q] /\ key'[q] = key[q] /\ ino'[q] = ino[q]
    BY DEF Shape, Rests
  <1>2. SUFFICES ASSUME pc[q] \in Prunes PROVE Tracks(q)'
    BY <1>1 DEF Tracks
  <1> DEFINE k == key[q]
  <1>3. k \in Key
    BY <1>0, <1>2 DEF NamesInPlace
  <1>4. \A i \in Ino : i \in Used /\ age'[i] = "fresh" => age[i] = "fresh"
    BY ConstantsAssumption DEF Shape
  <1>5. file[k] \in Used
    BY <1>3 DEF Used
  <1>6. moved[q][k] \in 0..2 /\ file[k] \in Ino \cup {None} /\ ino[q] \in Ino \cup {None}
    BY <1>0, <1>3 DEF TypeOK
  <1>7. CASE file'[k] = file[k] /\ moved'[q][k] = moved[q][k] /\ late'[q] = late[q]
    BY <1>0, <1>1, <1>2, <1>4, <1>5, <1>6, <1>7 DEF Tracks, Shape
  <1>8. CASE \E i \in Ino \cup {None} : Changes(actors, k, i)
    <2>1. PICK i \in Ino \cup {None} : Changes(actors, k, i)
      BY <1>8
    <2>2. file'[k] = i /\ file[k] # i
      BY <1>0, <1>3, <2>1 DEF Changes, TypeOK
    <2>3. Watching(q, k)
      BY <1>2 DEF Watching
    <2>4. moved[q][k] = 0 => moved'[q][k] = 1
      BY <1>0, <1>3, <2>1, <2>3, GhostsOf DEF Changes
    <2>5. moved[q][k] # 0 => moved'[q][k] = 2
      BY <1>0, <1>3, <2>1, <2>3, GhostsOf DEF Changes
    <2>6. pc[q] = "unlink" => late'[q]
      <3>1. ASSUME pc[q] = "unlink" PROVE LateWith(k)[q] = TRUE
        BY <1>0, <1>3, <3>1, GhostsOf
      <3>2. late'[q] = LateWith(k)[q]
        BY <2>1 DEF Changes
      <3> QED BY <3>1, <3>2
    <2>7. k \in Response /\ ~unlocked => i = None
      <3> SUFFICES ASSUME k \in Response, ~unlocked, i # None PROVE FALSE
        OBVIOUS
      <3>1. PICK p \in actors : pc[p] = "rename" /\ key[p] = k
        BY <2>1 DEF Changes
      <3>2. Holds(p) /\ Holds(q)
        BY <1>2, <3>1 DEF Holds
      <3> QED BY <1>0, <3>2 DEF HoldersLock
    <2>8. unlocked => unlocked'
      BY DEF Shape
    <2> QED BY <1>0, <1>1, <1>2, <2>2, <2>4, <2>5, <2>6, <2>7, <2>8 DEF Tracks
  <1>9. CASE \E j \in Key \ {k}, i \in Ino \cup {None} : Changes(actors, j, i)
    <2>1. PICK j \in Key \ {k}, i \in Ino \cup {None} : Changes(actors, j, i)
      BY <1>9
    <2>2. file'[k] = file[k]
      BY <1>0, <1>3, <2>1 DEF Changes, TypeOK
    <2>3. moved'[q][k] = moved[q][k]
      BY <1>0, <1>3, <2>1, GhostsOf DEF Changes
    <2>4. late'[q] = (late[q] \/ (pc[q] = "unlink" /\ key[q] = j))
      BY <1>0, <2>1, GhostsOf DEF Changes
    <2>5. late'[q] = late[q]
      BY <1>0, <2>1, <2>4 DEF TypeOK
    <2> QED BY <1>7, <2>2, <2>3, <2>5
  <1>10. CASE UNCHANGED file /\ Unseen(q)
    BY <1>7, <1>10 DEF Unseen
  <1> QED BY <1>8, <1>9, <1>10 DEF Shape

\* A prune's own actions keep its track.
LEMMA ActorTracks ==
  ASSUME IInv, TypeOK', NEW p \in Process, ByProcess(p)
  PROVE  Tracks(p)'
  <1>0. TypeOK /\ NamesInPlace /\ Tracks(p) /\ NamesInPlace'
    BY NextInPlace DEF IInv, PrunesTrack, Next, ByProcess
  <1>1. SUFFICES ASSUME pc'[p] \in Prunes PROVE Tracks(p)'
    BY DEF Tracks
  <1>2. CASE Stat(p)
    <2>1. PICK k \in todo[p] :
             IF file[k] = None
             THEN UNCHANGED <<pc, key, ino, moved>>
             ELSE /\ key' = [key EXCEPT ![p] = k]
                  /\ ino' = [ino EXCEPT ![p] = file[k]]
                  /\ moved' = [moved EXCEPT ![p] = [j \in Key |-> 0]]
                  /\ Goto(p, "read")
      BY <1>2 DEF Stat
    <2>2. pc[p] \notin Prunes /\ UNCHANGED file
      BY <1>2 DEF Stat, Judges, Prunes
    <2>3. k \in Key /\ file[k] # None
      BY <1>0, <1>1, <1>2, <2>1, <2>2 DEF Stat, Judges, NamesInPlace, Key
    <2>4. key'[p] = k /\ ino'[p] = file[k] /\ moved'[p] = [j \in Key |-> 0] /\ pc'[p] = "read"
      BY <1>0, <2>1, <2>3 DEF Goto, TypeOK
    <2>5. moved'[p][k] = 0
      BY <2>3, <2>4
    <2> QED BY <2>2, <2>3, <2>4, <2>5 DEF Tracks
  <1>3. ASSUME Skip(p) \/ Continue(p) PROVE FALSE
    BY <1>0, <1>1, <1>3 DEF Skip, Continue, Goto, TypeOK, Prunes
  <1>4. CASE Read(p)
    <2>1. /\ file[key[p]] # None /\ age[file[key[p]]] # "fresh"
          /\ Goto(p, "restat")
          /\ UNCHANGED <<file, age, local>> /\ pc[p] = "read"
      BY <1>3, <1>4 DEF Read
    <2>2. pc'[p] = "restat"
      BY <1>0, <2>1 DEF Goto, TypeOK
    <2> QED BY <1>0, <2>1, <2>2 DEF Tracks, Prunes, local
  <1>5. CASE Restat(p)
    <2>1. /\ file[key[p]] = ino[p]
          /\ Goto(p, "unlink")
          /\ UNCHANGED <<file, age, local, unlocked>> /\ pc[p] = "restat"
      BY <1>3, <1>5 DEF Restat, SameFile
    <2>2. pc'[p] = "unlink"
      BY <1>0, <2>1 DEF Goto, TypeOK
    <2> QED BY <1>0, <2>1, <2>2 DEF Tracks, Prunes, local
  <1>6. CASE Unlink(p) \/ EntryFails(p)
    BY <1>3, <1>6 DEF Unlink, EntryFails
  <1>7. CASE \/ LockTimeout(p) \/ RenameMisses(p) \/ ScanFails(p) \/ EvictEnds(p)
             \/ ClearEnds(p) \/ Crash(p) \/ WriteFails(p) \/ Drop(p)
    <2>1. pc' = [pc EXCEPT ![p] = "idle"]
      BY <1>7 DEF LockTimeout, RenameMisses, ScanFails, EvictEnds, ClearEnds, Crash,
                  WriteFails, Drop, End, EndWith, Goto
    <2> QED BY <1>0, <1>1, <2>1 DEF TypeOK, Prunes
  <1>8. CASE \/ StartWrite(p) \/ StartRead(p) \/ StartPrune(p) \/ StartClear(p)
             \/ TakeLock(p) \/ Stage(p) \/ Scan(p) \/ List(p)
    BY <1>0, <1>1, <1>8 DEF StartWrite, StartRead, StartPrune, StartClear, TakeLock, Stage,
                            Scan, List, Goto, TypeOK, Prunes
  <1>9. CASE Rename(p)
    <2>1. Goto(p, "scan") \/ Goto(p, "idle")
      BY <1>9 DEF Rename, EndWith
    <2> QED BY <1>0, <1>1, <2>1 DEF Goto, TypeOK, Prunes
  <1>10. CASE PruneEnds(p)
    <2>1. Goto(p, "listTool") \/ Goto(p, "idle")
      BY <1>10 DEF PruneEnds, End, EndWith
    <2> QED BY <1>0, <1>1, <2>1 DEF Goto, TypeOK, Prunes
  <1>11. CASE Evict(p) \/ EvictFails(p) \/ ClearName(p) \/ ClearLock(p) \/ ClearStaged(p)
              \/ ClearFails(p)
    BY <1>1, <1>11 DEF Evict, EvictFails, ClearName, ClearLock, ClearStaged, ClearFails, Prunes
  <1> QED
    BY <1>2, <1>4, <1>5, <1>6, <1>7, <1>8, <1>9, <1>10, <1>11 DEF ByProcess

\* A clear keeps track while others act.
LEMMA RestingClears ==
  ASSUME IInv, TypeOK', NEW actors \in SUBSET Process, Shape(actors),
         NEW q \in Process \ actors
  PROVE  Clears(q)'
  <1>0. TypeOK /\ Clears(q)
    BY DEF IInv, ClearsTrack
  <1>1. pc'[q] = pc[q] /\ failed'[q] = failed[q] /\ todo'[q] = todo[q]
    BY DEF Shape, Rests
  <1>2. SUFFICES ASSUME pc[q] = "clear", ~failed[q], NEW k \in Key, file'[k] # None,
                        k \notin todo[q]
                 PROVE  moved'[q][k] > 0
    BY <1>1 DEF Clears, Present
  <1>3. moved[q][k] \in 0..2
    BY <1>0 DEF TypeOK
  <1>4. file[k] # None => moved[q][k] > 0
    BY <1>0, <1>2 DEF Clears, Present
  <1>5. CASE UNCHANGED file /\ Unseen(q)
    BY <1>2, <1>4, <1>5 DEF Unseen
  <1>6. CASE \E j \in Key, i \in Ino \cup {None} : Changes(actors, j, i)
    <2>1. PICK j \in Key, i \in Ino \cup {None} : Changes(actors, j, i)
      BY <1>6
    <2>2. moved'[q] = MovedWith(j)[q]
      BY <2>1 DEF Changes
    <2>3. CASE j = k
      <3>1. Watching(q, k)
        BY <1>2 DEF Watching
      <3>2. moved'[q][k] \in {1, 2}
        BY <1>0, <2>2, <2>3, <3>1, GhostsOf
      <3> QED BY <3>2
    <2>4. CASE j # k
      <3>1. file'[k] = file[k]
        BY <1>0, <2>1, <2>4 DEF Changes, TypeOK
      <3>2. moved'[q][k] = moved[q][k]
        BY <1>0, <2>2, <2>4, GhostsOf
      <3> QED BY <1>2, <1>4, <3>1, <3>2
    <2> QED BY <2>3, <2>4
  <1> QED BY <1>5, <1>6 DEF Shape

\* A clear's own actions keep its track.
LEMMA ActorClears ==
  ASSUME IInv, TypeOK', NEW p \in Process, ByProcess(p)
  PROVE  Clears(p)'
  <1>0. TypeOK /\ Clears(p)
    BY DEF IInv, ClearsTrack
  <1>1. SUFFICES ASSUME pc'[p] = "clear", ~failed'[p], NEW k \in Key, file'[k] # None,
                        k \notin todo'[p]
                 PROVE  moved'[p][k] > 0
    BY DEF Clears, Present
  <1>2. CASE StartClear(p)
    <2> DEFINE S == {run[q] : q \in {r \in Process : temp[r] # None}}
               T == Listed \cup (IF lock = None THEN {} ELSE {LockFile}) \cup S
    <2>1. todo' = [todo EXCEPT ![p] = T] /\ UNCHANGED file
      BY <1>2 DEF StartClear, Begin
    <2>2. k \in T
      BY <1>1, <2>1 DEF Listed, Present
    <2> HIDE DEF T
    <2> QED BY <1>0, <1>1, <2>1, <2>2 DEF TypeOK
  <1>3. CASE ClearName(p)
    <2>1. PICK j \in todo[p] \cap Key :
             /\ todo' = [todo EXCEPT ![p] = @ \ {j}]
             /\ file' = [file EXCEPT ![j] = None]
             /\ IF file[j] # None THEN moved' = MovedWith(j) /\ late' = LateWith(j)
                                  ELSE UNCHANGED <<moved, late>>
      BY <1>3 DEF ClearName
    <2>2. k # j /\ file[k] # None /\ k \notin todo[p]
      BY <1>0, <1>1, <2>1 DEF TypeOK
    <2>3. pc[p] = "clear" /\ ~failed[p]
      BY <1>1, <1>3 DEF ClearName
    <2>4. moved[p][k] > 0
      BY <1>0, <2>2, <2>3 DEF Clears, Present
    <2>5. moved'[p][k] = moved[p][k]
      BY <1>0, <2>1, <2>2, GhostsOf
    <2> QED BY <2>4, <2>5
  <1>4. CASE ClearLock(p) \/ ClearStaged(p)
    <2>1. UNCHANGED <<file, failed, moved>> /\ pc[p] = "clear"
      BY <1>4 DEF ClearLock, ClearStaged
    <2>2. PICK n \in {LockFile} \cup 1..MaxRuns : todo' = [todo EXCEPT ![p] = @ \ {n}]
      BY <1>4 DEF ClearLock, ClearStaged
    <2>3. k # n
      BY ConstantsAssumption
    <2>4. k \notin todo[p]
      BY <1>0, <1>1, <2>2, <2>3 DEF TypeOK
    <2> QED BY <1>0, <1>1, <2>1, <2>4 DEF Clears, Present
  <1>5. CASE ClearFails(p)
    BY <1>0, <1>1, <1>5 DEF ClearFails, TypeOK
  <1>6. ASSUME ~StartClear(p), ~ClearName(p), ~ClearLock(p), ~ClearStaged(p), ~ClearFails(p)
        PROVE  pc'[p] # "clear"
    <2>1. CASE \/ LockTimeout(p) \/ RenameMisses(p) \/ ScanFails(p) \/ EvictEnds(p)
               \/ ClearEnds(p) \/ Crash(p) \/ WriteFails(p) \/ Drop(p)
      <3>1. pc' = [pc EXCEPT ![p] = "idle"]
        BY <2>1 DEF LockTimeout, RenameMisses, ScanFails, EvictEnds, ClearEnds, Crash,
                    WriteFails, Drop, End, EndWith, Goto
      <3> QED BY <1>0, <3>1 DEF TypeOK
    <2>2. CASE \/ StartWrite(p) \/ StartRead(p) \/ StartPrune(p)
               \/ TakeLock(p) \/ Stage(p) \/ Scan(p) \/ List(p)
      BY <1>0, <2>2 DEF StartWrite, StartRead, StartPrune, TakeLock, Stage, Scan, List, Goto, TypeOK
    <2>3. CASE Rename(p) \/ PruneEnds(p)
      <3>1. Goto(p, "scan") \/ Goto(p, "idle") \/ Goto(p, "listTool")
        BY <2>3 DEF Rename, PruneEnds, End, EndWith
      <3> QED BY <1>0, <3>1 DEF Goto, TypeOK
    <2>4. CASE Read(p) \/ Restat(p) \/ Unlink(p) \/ EntryFails(p)
      <3>1. \/ Goto(p, "restat") \/ Goto(p, "unlink")
            \/ Goto(p, IF key[p] \in Response THEN "judge" ELSE "judgeTool")
        BY <2>4 DEF Read, Restat, Unlink, EntryFails, Skip, Continue
      <3> QED BY <1>0, <3>1 DEF Goto, TypeOK
    <2>5. CASE Evict(p) \/ EvictFails(p)
      BY <2>5 DEF Evict, EvictFails
    <2>6. CASE Stat(p)
      BY <1>0, <2>6 DEF Stat, Judges, Goto, TypeOK
    <2> QED BY <1>6, <2>1, <2>2, <2>3, <2>4, <2>5, <2>6 DEF ByProcess
  <1> QED BY <1>1, <1>2, <1>3, <1>4, <1>5, <1>6

\* Both, of every step.
LEMMA NextTracks ==
  ASSUME IInv, TypeOK', [Next]_vars
  PROVE  PrunesTrack' /\ ClearsTrack'
  <1>0. TypeOK /\ NamesInPlace /\ OneFilePerInode
    BY DEF IInv
  <1>1. CASE \E p \in Process : ByProcess(p)
    <2>1. PICK p \in Process : ByProcess(p)
      BY <1>1
    <2>2. Shape({p}) /\ Tracks(p)' /\ Clears(p)'
      BY <1>0, <2>1, StepShapes, ActorTracks, ActorClears
    <2>3. \A q \in Process \ {p} : Tracks(q)' /\ Clears(q)'
      BY <2>2, RestingTracks, RestingClears
    <2> QED BY <2>2, <2>3 DEF PrunesTrack, ClearsTrack
  <1>2. CASE GrowOld \/ BreakStale \/ UNCHANGED vars
    <2>1. Shape({})
      BY <1>0, <1>2, StepShapes
    <2>2. \A q \in Process \ {} : Tracks(q)' /\ Clears(q)'
      BY <2>1, RestingTracks, RestingClears
    <2> QED BY <2>2 DEF PrunesTrack, ClearsTrack
  <1> QED BY <1>1, <1>2 DEF Next, ByProcess

-----------------------------------------------------------------------------
\* EvictionCovers.

\* The responses are finitely many.
LEMMA ResponsesFinite ==
  ASSUME NEW S \in SUBSET Response
  PROVE  IsFiniteSet(S) /\ Cardinality(S) \in Nat
  BY ConstantsAssumption, FS_Subset, FS_CardinalityType

\* Entries that go, and evictions that go on, leave the cap covered.
LEMMA CoverDwindles ==
  ASSUME EvictionCovers, over => over', Present(Response)' \subseteq Present(Response),
         \A q \in Process : pc[q] = "scan" => pc'[q] = "scan",
         \A q \in Process : pc[q] = "evict" => pc'[q] = "evict" /\ todo'[q] = todo[q]
  PROVE  EvictionCovers'
  <1> DEFINE S == Present(Response)
             T == Present(Response)'
  <1>0. S \subseteq Response /\ T \subseteq S /\ Cap \in Nat
    BY ConstantsAssumption DEF Present
  <1>1. CASE over
    BY <1>1 DEF EvictionCovers
  <1>2. CASE \E q \in Process : pc[q] = "scan"
    BY <1>2 DEF EvictionCovers
  <1>3. CASE Cardinality(S) <= Cap
    <2>1. Cardinality(T) <= Cardinality(S) /\ Cardinality(S) \in Nat /\ Cardinality(T) \in Nat
      <3> HIDE DEF S, T
      <3> QED BY <1>0, ResponsesFinite, FS_Subset
    <2>2. Cardinality(T) <= Cap
      <3> HIDE DEF S, T
      <3> QED BY <1>0, <1>3, <2>1
    <2> QED BY <2>2 DEF EvictionCovers
  <1>4. CASE \E q \in Process : pc[q] = "evict" /\ Cardinality(S \ todo[q]) <= Cap
    <2>1. PICK q \in Process : pc[q] = "evict" /\ Cardinality(S \ todo[q]) <= Cap
      BY <1>4
    <2>2. Cardinality(T \ todo[q]) <= Cap
      <3> HIDE DEF S, T
      <3> DEFINE U == S \ todo[q]
                 V == T \ todo[q]
      <3>1. V \subseteq U /\ U \subseteq Response
        BY <1>0
      <3> HIDE DEF U, V
      <3>2. Cardinality(V) <= Cardinality(U) /\ Cardinality(U) \in Nat /\ Cardinality(V) \in Nat
        BY <3>1, ResponsesFinite, FS_Subset
      <3>3. Cardinality(U) <= Cap
        BY <2>1 DEF U
      <3> QED BY <1>0, <3>2, <3>3 DEF V
    <2>3. pc'[q] = "evict" /\ todo'[q] = todo[q]
      BY <2>1
    <2>4. Cardinality(Present(Response)' \ todo'[q]) <= Cap
      BY <2>2, <2>3
    <2> QED BY <2>3, <2>4 DEF EvictionCovers
  <1> QED BY <1>1, <1>2, <1>3, <1>4 DEF EvictionCovers

\* What an eviction has picked brings the entries down to the cap.
LEMMA ScanCovers ==
  ASSUME TypeOK, NEW p \in Process, Scan(p)
  PROVE  EvictionCovers'
  <1> DEFINE S == Present(Response)
  <1>1. PICK victims \in SUBSET S :
           /\ Cardinality(victims) = Surplus(Cardinality(S))
           /\ todo' = [todo EXCEPT ![p] = victims]
    BY DEF Scan
  <1>2. UNCHANGED file /\ pc'[p] = "evict" /\ todo'[p] = victims
    BY <1>1 DEF Scan, Goto, TypeOK
  <1>3. Present(Response)' = S
    BY <1>2 DEF Present
  <1>4. Cardinality(S \ victims) <= Cap
    <2>0. S \subseteq Response /\ Cap \in Nat /\ Low \in Nat /\ Low <= Cap
      BY ConstantsAssumption DEF Present
    <2> HIDE DEF S
    <2>1. IsFiniteSet(S) /\ IsFiniteSet(victims)
          /\ Cardinality(S) \in Nat /\ Cardinality(victims) \in Nat
      BY <2>0, <1>1, ResponsesFinite
    <2>2. S \cap victims = victims
      BY <1>1
    <2>3. Cardinality(S \ victims) = Cardinality(S) - Cardinality(victims)
      BY <2>1, <2>2, FS_Difference
    <2> QED BY <1>1, <2>0, <2>1, <2>3 DEF Surplus
  <1>5. Cardinality(Present(Response)' \ todo'[p]) <= Cap
    <2> HIDE DEF S
    <2> QED BY <1>2, <1>3, <1>4
  <1> QED BY <1>2, <1>5 DEF EvictionCovers

\* An eviction that unlinks one of its victims leaves the same entries over.
LEMMA EvictCovers ==
  ASSUME IInv, TypeOK', NEW p \in Process, Evict(p)
  PROVE  EvictionCovers'
  <1>0. TypeOK /\ NamesInPlace /\ EvictionCovers
    BY DEF IInv
  <1>1. PICK k \in todo[p] :
           /\ file' = [file EXCEPT ![k] = None]
           /\ todo' = [todo EXCEPT ![p] = @ \ {k}]
    BY DEF Evict
  <1>2. k \in Response /\ UNCHANGED <<pc, over>> /\ pc[p] = "evict"
    BY <1>0 DEF Evict, NamesInPlace
  <1>3. Present(Response)' = Present(Response) \ {k}
    BY <1>0, <1>1, <1>2 DEF Present, TypeOK, Key
  <1>4. \A q \in Process : q # p => todo'[q] = todo[q]
    BY <1>0, <1>1 DEF TypeOK
  <1>5. todo'[p] = todo[p] \ {k}
    BY <1>0, <1>1 DEF TypeOK
  <1>6. CASE over \/ \E q \in Process : pc[q] = "scan"
    BY <1>2, <1>6 DEF EvictionCovers
  <1> DEFINE S == Present(Response)
  <1>7. ASSUME NEW U \in SUBSET S, NEW V \in SUBSET U, Cardinality(U) <= Cap
        PROVE  Cardinality(V) <= Cap
    <2>1. U \subseteq Response /\ V \subseteq Response /\ Cap \in Nat
      BY ConstantsAssumption DEF Present
    <2> QED BY <1>7, <2>1, ResponsesFinite, FS_Subset
  <1>8. CASE Cardinality(S) <= Cap
    <2>1. Cardinality(S \ {k}) <= Cap
      BY <1>7, <1>8
    <2> QED BY <1>3, <2>1 DEF EvictionCovers
  <1>9. ASSUME NEW q \in Process, pc[q] = "evict", Cardinality(S \ todo[q]) <= Cap
        PROVE  EvictionCovers'
    <2>1. Present(Response)' \ todo'[q] \subseteq S \ todo[q]
      BY <1>1, <1>3, <1>4, <1>5
    <2> DEFINE U == S \ todo[q]
               V == Present(Response)' \ todo'[q]
    <2>2. U \subseteq S /\ V \subseteq U /\ Cardinality(U) <= Cap
      BY <1>9, <2>1
    <2> HIDE DEF U, V, S
    <2>3. Cardinality(V) <= Cap
      BY <1>7, <2>2
    <2> QED BY <1>2, <1>9, <2>3 DEF EvictionCovers, V
  <1> QED BY <1>0, <1>6, <1>8, <1>9 DEF EvictionCovers

\* An eviction that has unlinked all its victims has brought the entries down.
LEMMA EvictEndsCovers ==
  ASSUME IInv, TypeOK', NEW p \in Process, EvictEnds(p)
  PROVE  EvictionCovers'
  <1>0. TypeOK /\ EvictionCovers
    BY DEF IInv
  <1>1. End(p) /\ pc[p] = "evict" /\ todo[p] = {} /\ UNCHANGED <<file, over>>
    BY DEF EvictEnds
  <1>2. \A q \in Process : q # p => pc'[q] = pc[q] /\ todo'[q] = todo[q]
    BY <1>0, <1>1, PlainEndRests DEF Rests
  <1>3. Present(Response)' = Present(Response)
    BY <1>1 DEF Present
  <1>4. CASE Cardinality(Present(Response)) <= Cap
    BY <1>3, <1>4 DEF EvictionCovers
  <1>5. CASE Cardinality(Present(Response) \ todo[p]) <= Cap
    <2>1. Present(Response) \ todo[p] = Present(Response)
      BY <1>1
    <2> QED BY <1>4, <1>5, <2>1
  <1>6. CASE over
    BY <1>1, <1>6 DEF EvictionCovers
  <1>7. CASE \E q \in Process : pc[q] = "scan"
    BY <1>1, <1>2, <1>7 DEF EvictionCovers
  <1>8. CASE \E q \in Process \ {p} : pc[q] = "evict" /\ Cardinality(Present(Response) \ todo[q]) <= Cap
    <2>1. PICK q \in Process \ {p} : pc[q] = "evict" /\ Cardinality(Present(Response) \ todo[q]) <= Cap
      BY <1>8
    <2>2. pc'[q] = "evict" /\ Cardinality(Present(Response)' \ todo'[q]) <= Cap
      BY <1>2, <1>3, <2>1
    <2> QED BY <2>2 DEF EvictionCovers
  <1> QED BY <1>0, <1>4, <1>5, <1>6, <1>7, <1>8 DEF EvictionCovers

\* An action of one that is not evicting, and puts no response, covers the cap.
LEMMA OutsideCovers ==
  ASSUME IInv, TypeOK', NEW p \in Process, Shape({p}), over => over',
         pc[p] \notin {"scan", "evict"},
         pc[p] = "rename" /\ key[p] \in Response => UNCHANGED file
  PROVE  EvictionCovers'
  <1>0. TypeOK /\ NamesInPlace /\ EvictionCovers
    BY DEF IInv
  <1>1. \A q \in Process \ {p} : pc'[q] = pc[q] /\ todo'[q] = todo[q]
    BY DEF Shape, Rests
  <1>2. Present(Response)' \subseteq Present(Response)
    <2>1. SUFFICES ASSUME NEW k \in Response, file'[k] # None PROVE file[k] # None
      BY DEF Present
    <2>2. CASE UNCHANGED file
      BY <2>1, <2>2
    <2>3. CASE \E j \in Key, i \in Ino \cup {None} : Changes({p}, j, i)
      <3>1. PICK j \in Key, i \in Ino \cup {None} : Changes({p}, j, i)
        BY <2>3
      <3>2. file'[k] = IF k = j THEN i ELSE file[k]
        BY <1>0, <3>1 DEF Changes, TypeOK, Key
      <3>3. j = k /\ i # None => UNCHANGED file
        BY <2>1, <3>1 DEF Changes
      <3> QED BY <2>1, <3>2, <3>3
    <2> QED BY <2>2, <2>3 DEF Shape
  <1>3. \A q \in Process : pc[q] = "scan" => pc'[q] = "scan"
    BY <1>1
  <1>4. \A q \in Process : pc[q] = "evict" => pc'[q] = "evict" /\ todo'[q] = todo[q]
    BY <1>1
  <1> QED BY <1>0, <1>2, <1>3, <1>4, CoverDwindles

\* Every step keeps the cap covered.
LEMMA NextCovers ==
  ASSUME IInv, TypeOK', [Next]_vars
  PROVE  EvictionCovers'
  <1>0. TypeOK /\ NamesInPlace /\ OneFilePerInode /\ EvictionCovers
    BY DEF IInv
  <1>1. ASSUME NEW p \in Process, Scan(p) \/ Evict(p) \/ EvictEnds(p) PROVE EvictionCovers'
    BY <1>0, <1>1, ScanCovers, EvictCovers, EvictEndsCovers
  <1>2. ASSUME NEW p \in Process, ScanFails(p) \/ EvictFails(p) PROVE EvictionCovers'
    BY <1>2 DEF ScanFails, EvictFails, EvictionCovers
  <1>3. ASSUME NEW p \in Process, Crash(p), pc[p] \in {"scan", "evict"} PROVE EvictionCovers'
    <2>1. over' = TRUE
      BY <1>3 DEF Crash
    <2> QED BY <2>1 DEF EvictionCovers
  <1>4. ASSUME NEW p \in Process, Rename(p), key[p] \in Response PROVE EvictionCovers'
    <2>1. pc'[p] = "scan"
      BY <1>0, <1>4 DEF Rename, Goto, TypeOK
    <2> QED BY <2>1 DEF EvictionCovers
  <1>5. ASSUME NEW p \in Process, WriteFails(p), key[p] \in Response PROVE over' \/ UNCHANGED <<file, over>>
    BY <1>5 DEF WriteFails
  <1>6. ASSUME NEW p \in Process, ByProcess(p), ~Scan(p), ~Evict(p), ~EvictEnds(p), ~ScanFails(p),
               ~EvictFails(p), ~(Crash(p) /\ pc[p] \in {"scan", "evict"}),
               ~(Rename(p) /\ key[p] \in Response), ~over'
        PROVE  EvictionCovers'
    <2>1. Shape({p})
      BY <1>0, <1>6, StepShapes
    <2>2. CASE Rename(p) \/ WriteFails(p)
      <3>0. over => over'
        BY <2>2 DEF Rename, WriteFails
      <3>1. pc[p] \in {"stage", "rename"}
        BY <2>2 DEF Rename, WriteFails
      <3>2. key[p] \in Response => UNCHANGED file
        BY <1>5, <1>6, <2>2
      <3> QED BY <1>0, <2>1, <3>0, <3>1, <3>2, OutsideCovers
    <2>3. CASE \/ StartWrite(p) \/ StartRead(p) \/ StartPrune(p) \/ StartClear(p)
               \/ TakeLock(p) \/ LockTimeout(p) \/ Stage(p) \/ List(p) \/ Stat(p) \/ Read(p)
               \/ Restat(p) \/ Unlink(p) \/ EntryFails(p) \/ PruneEnds(p)
               \/ ClearName(p) \/ ClearLock(p) \/ ClearStaged(p) \/ ClearFails(p) \/ ClearEnds(p)
               \/ Drop(p)
      <3>1. UNCHANGED over
        BY <2>3 DEF StartWrite, StartRead, StartPrune, StartClear, Begin, TakeLock, LockTimeout,
                    Stage, List, Stat, Read, Restat, Unlink, EntryFails, PruneEnds, ClearName,
                    ClearLock, ClearStaged, ClearFails, ClearEnds, Drop
      <3>2. pc[p] \notin {"scan", "evict", "rename"}
        BY <2>3 DEF StartWrite, StartRead, StartPrune, StartClear, Begin, TakeLock, LockTimeout,
                    Stage, List, Stat, Read, Restat, Unlink, EntryFails, PruneEnds, Judges, Prunes,
                    ClearName, ClearLock, ClearStaged, ClearFails, ClearEnds, Drop
      <3> QED BY <1>0, <2>1, <3>1, <3>2, OutsideCovers
    <2>4. CASE RenameMisses(p) \/ Crash(p)
      <3>0. over => over'
        BY <2>4 DEF RenameMisses, Crash
      <3>1. UNCHANGED file /\ pc[p] \notin {"scan", "evict"}
        BY <1>6, <2>4 DEF RenameMisses, Crash
      <3> QED BY <1>0, <2>1, <3>0, <3>1, OutsideCovers
    <2> QED BY <1>6, <2>2, <2>3, <2>4 DEF ByProcess
  <1>7. CASE GrowOld \/ BreakStale \/ UNCHANGED vars
    <2>1. UNCHANGED <<file, pc, todo, over>>
      BY <1>7 DEF GrowOld, BreakStale, vars, local
    <2>2. Present(Response)' = Present(Response)
      BY <2>1 DEF Present
    <2> QED BY <1>0, <2>1, <2>2, CoverDwindles
  <1>8. over' => EvictionCovers'
    BY DEF EvictionCovers
  <1> QED BY <1>1, <1>2, <1>3, <1>4, <1>6, <1>7, <1>8 DEF Next, ByProcess

-----------------------------------------------------------------------------
\* The theorems.

\* The invariant holds at the start, when there are no responses.
LEMMA InitIInv == Init => IInv
  <1> SUFFICES ASSUME Init PROVE IInv
    OBVIOUS
  <1>1. TypeOK
    BY InitTypes
  <1>2. \A p \in Process : pc[p] = "idle" /\ temp[p] = None
    BY DEF Init
  <1>3. NamesInPlace
    BY <1>2 DEF NamesInPlace, Prunes
  <1>4. OneFilePerInode
    <2>1. \A k \in Response : file[k] = None
      BY DEF Init
    <2>2. \A s, t \in Tool : s # t /\ file[s] # None => file[s] # file[t]
      BY DEF Init
    <2> QED BY <1>2, <2>1, <2>2 DEF OneFilePerInode, Key
  <1>5. HoldersLock /\ PrunesTrack /\ ClearsTrack
    BY <1>2 DEF HoldersLock, Holds, PrunesTrack, Tracks, ClearsTrack, Clears, Prunes
  <1>6. EvictionCovers
    <2>1. Present(Response) = {}
      BY DEF Init, Present
    <2>2. Cardinality(Present(Response)) <= Cap
      BY <2>1, FS_EmptySet, ConstantsAssumption
    <2> QED BY <2>2 DEF EvictionCovers
  <1> QED BY <1>1, <1>3, <1>4, <1>5, <1>6 DEF IInv

\* Every step keeps it.
LEMMA NextIInv == IInv /\ [Next]_vars => IInv'
  <1> SUFFICES ASSUME IInv, [Next]_vars PROVE IInv'
    OBVIOUS
  <1>1. TypeOK'
    BY NextTypes DEF IInv
  <1> QED
    BY <1>1, NextInPlace, NextDistinct, NextHolders, NextTracks, NextCovers DEF IInv

\* Every state of the caches satisfies the invariant.
THEOREM Invariant == Spec => []IInv
  <1> QED BY InitIInv, NextIInv, PTL DEF Spec

\* The cache directories, their lock and what processes know of them stay well
\* typed, whatever dies or fails.
THEOREM TypeCorrect == Spec => []TypeOK
  <1>1. IInv => TypeOK
    BY DEF IInv
  <1> QED BY <1>1, Invariant, PTL

\* A prune spares what it has not judged: a fresh entry is about to be unlinked
\* only where the name changed after the second stat, or twice after the first,
\* and a response only when a clear has broken the lock.
THEOREM PruneSparesFreshHolds == Spec => []PruneSparesFresh
  <1>1. IInv => PruneSparesFresh
    <2> SUFFICES ASSUME IInv, NEW p \in Process, pc[p] = "unlink", file[key[p]] # None,
                        age[file[key[p]]] = "fresh"
                 PROVE  /\ late[p] \/ moved[p][key[p]] = 2
                        /\ key[p] \in Response => unlocked
      BY DEF PruneSparesFresh
    <2>1. TypeOK /\ NamesInPlace /\ Tracks(p)
      BY DEF IInv, PrunesTrack
    <2>2. key[p] \in Key
      BY <2>1 DEF NamesInPlace, Prunes
    <2>3. moved[p][key[p]] \in 0..2
      BY <2>1, <2>2 DEF TypeOK
    <2> QED BY <2>1, <2>3 DEF Tracks, Prunes
  <1> QED BY <1>1, Invariant, PTL

\* With no eviction under way or cut short, the responses fit the cap, however
\* many writers a clear has let in at once.
THEOREM CapHoldsAlways == Spec => []CapHolds
  <1>1. IInv => CapHolds
    BY DEF IInv, EvictionCovers, CapHolds
  <1> QED BY <1>1, Invariant, PTL

\* A clear whose unlinks all succeed leaves no entry that it listed.
THEOREM ClearIsCompleteHolds == Spec => []ClearIsComplete
  <1>1. IInv => ClearIsComplete
    BY DEF IInv, ClearsTrack, Clears, ClearIsComplete
  <1> QED BY <1>1, Invariant, PTL
=============================================================================
