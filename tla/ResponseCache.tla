---------------------------- MODULE ResponseCache ----------------------------
(***************************************************************************)
(* The two cache directories under the cache root: cache/, the responses,  *)
(* and tools/, the discovered MCP tools (lib/cache.ts, lib/tool-cache.ts,  *)
(* atomicReplaceFile of lib/config-store.ts).                              *)
(*                                                                         *)
(* Reads take no lock.  Response writes, with the eviction that follows    *)
(* each, and the response half of a prune hold cache-write.lock; tool      *)
(* writes and the tool half of a prune hold nothing; a clear holds nothing *)
(* either and unlinks every name it lists, the lock file and the staging   *)
(* files of running writers included.  All of them act by name on files    *)
(* another process may have replaced since, and a replaced file's inode    *)
(* number is free for a later one.                                         *)
(*                                                                         *)
(* Entries have one size.  Which entries an eviction picks is left open:   *)
(* the code goes by mtime, which reads touch.                              *)
(***************************************************************************)
EXTENDS Integers, FiniteSets

CONSTANTS
    Process,   \* slots in which the user's scoutline processes run
    Response,  \* the file names of cache/
    Tool,      \* the file names of tools/
    Ino,       \* inode numbers
    Cap,       \* the entries SCOUTLINE_CACHE_SIZE_MB has room for
    Low,       \* those that 0.8 of it has room for
    MaxRuns,   \* bound on the commands, which also numbers them
    MaxFaults, \* bound on the file operations that fail and the processes that die
    LockFile,  \* the name cache-write.lock
    None

Key == Response \cup Tool

ASSUME ConstantsAssumption ==
    /\ Response \cap Tool = {}
    /\ IsFiniteSet(Response)
    /\ Cap \in Nat /\ Low \in 0..Cap
    /\ MaxRuns \in Nat /\ MaxFaults \in Nat
    /\ LockFile \notin Key \cup Process \cup 1..MaxRuns
    /\ Key \cap 1..MaxRuns = {}
    /\ None \notin Key \cup Ino \cup Process

VARIABLES
    file,    \* per name: the inode of its file
    age,     \* per inode: what a judge of its entry finds
    lock,    \* whose cache-write.lock there is; LockFile for a dead process's
    pc,      \* where each process is
    run,     \* the number of its command, 0 without one
    key,     \* the name it writes or judges
    temp,    \* the inode of its staging file
    todo,    \* names it has still to unlink or to judge; numbers are staging files
    ino,     \* the inode its prune took from the first stat
    runs, faults,
    moved,   \* ghost: changes to each name since its clear's listing, its prune's first stat
    late,    \* ghost: the name it prunes changed after its second stat
    failed,  \* ghost: an unlink of its clear failed
    over,    \* ghost: an eviction was cut short, and none has listed since
    unlocked \* ghost: a clear has unlinked a held lock

local == <<run, key, temp, todo, ino, moved, late, failed>>
vars == <<file, age, lock, pc, local, runs, faults, over, unlocked>>

Prunes == {"read", "restat", "unlink"}
Location == Prunes \cup {"idle", "lock", "stage", "rename", "scan", "evict", "pruneLock", "list",
                         "judge", "listTool", "judgeTool", "clear", "drop"}

TypeOK ==
    /\ file \in [Key -> Ino \cup {None}]
    /\ age \in [Ino -> {"fresh", "old", "legacy"}]
    /\ lock \in Process \cup {None, LockFile}
    /\ pc \in [Process -> Location]
    /\ run \in [Process -> 0..MaxRuns]
    /\ key \in [Process -> Key \cup {None}]
    /\ temp \in [Process -> Ino \cup {None}]
    /\ todo \in [Process -> SUBSET (Key \cup {LockFile} \cup 1..MaxRuns)]
    /\ ino \in [Process -> Ino \cup {None}]
    /\ runs \in 0..MaxRuns
    /\ faults \in 0..MaxFaults
    /\ moved \in [Process -> [Key -> 0..2]]
    /\ late \in [Process -> BOOLEAN]
    /\ failed \in [Process -> BOOLEAN]
    /\ over \in BOOLEAN /\ unlocked \in BOOLEAN

\* tools/ may hold what an earlier release wrote.
Init ==
    /\ file \in {f \in [Key -> Ino \cup {None}] :
                    /\ \A k \in Response : f[k] = None
                    /\ \A s, t \in Tool : s # t /\ f[s] # None => f[s] # f[t]}
    /\ age = [i \in Ino |-> "legacy"]
    /\ lock = None
    /\ pc = [p \in Process |-> "idle"]
    /\ run = [p \in Process |-> 0]
    /\ key = [p \in Process |-> None]
    /\ temp = [p \in Process |-> None]
    /\ todo = [p \in Process |-> {}]
    /\ ino = [p \in Process |-> None]
    /\ runs = 0
    /\ faults = 0
    /\ moved = [p \in Process |-> [k \in Key |-> 0]]
    /\ late = [p \in Process |-> FALSE]
    /\ failed = [p \in Process |-> FALSE]
    /\ over = FALSE
    /\ unlocked = FALSE

-----------------------------------------------------------------------------
Present(names) == {k \in names : file[k] # None}
Used == {file[k] : k \in Key} \cup {temp[p] : p \in Process}
Goto(p, l) == pc' = [pc EXCEPT ![p] = l]
Fault == faults < MaxFaults /\ faults' = faults + 1

\* The ghosts' view of a change to the file of k.
Watching(p, k) == pc[p] = "clear" \/ (pc[p] \in Prunes /\ key[p] = k)
MovedWith(k) ==
    [p \in Process |-> IF Watching(p, k) /\ moved[p][k] < 2
                       THEN [moved[p] EXCEPT ![k] = @ + 1] ELSE moved[p]]
LateWith(k) == [p \in Process |-> late[p] \/ (pc[p] = "unlink" /\ key[p] = k)]

\* p's command ends, with the given ghosts of the others.
EndWith(p, m, l) ==
    /\ Goto(p, "idle")
    /\ run' = [run EXCEPT ![p] = 0]
    /\ key' = [key EXCEPT ![p] = None]
    /\ temp' = [temp EXCEPT ![p] = None]
    /\ todo' = [todo EXCEPT ![p] = {}]
    /\ ino' = [ino EXCEPT ![p] = None]
    /\ moved' = [m EXCEPT ![p] = [k \in Key |-> 0]]
    /\ late' = [l EXCEPT ![p] = FALSE]
    /\ failed' = [failed EXCEPT ![p] = FALSE]
End(p) == EndWith(p, moved, late)

\* withAsyncFileLock ends by unlinking the path, whoever's file is there now.
Release == lock' = None
ReleaseFor(k) == IF k \in Response THEN Release ELSE UNCHANGED lock

Begin(p) ==
    /\ pc[p] = "idle"
    /\ runs < MaxRuns
    /\ runs' = runs + 1
    /\ run' = [run EXCEPT ![p] = runs + 1]
    /\ UNCHANGED <<file, age, lock, temp, ino, faults, late, failed, over, unlocked>>

\* writeCache, writeToolCache.
StartWrite(p) ==
    /\ Begin(p)
    /\ \E k \in Key :
          /\ key' = [key EXCEPT ![p] = k]
          /\ Goto(p, IF k \in Response THEN "lock" ELSE "stage")
    /\ UNCHANGED <<todo, moved>>

\* readToolCache finds another version's envelope, which it will unlink.  A read
\* that finds anything else changes nothing but an mtime.
StartRead(p) ==
    /\ Begin(p)
    /\ \E k \in Present(Tool) :
          /\ age[file[k]] = "legacy"
          /\ key' = [key EXCEPT ![p] = k]
    /\ Goto(p, "drop")
    /\ UNCHANGED <<todo, moved>>

StartPrune(p) ==
    /\ Begin(p)
    /\ Goto(p, "pruneLock")
    /\ UNCHANGED <<key, todo, moved>>

\* Mutant: clearCache, the response half alone.
ListedResponses == Present(Response)
Listed == Present(Key)

\* clearAllCaches lists both directories.
StartClear(p) ==
    /\ Begin(p)
    /\ todo' = [todo EXCEPT ![p] =
                   Listed \cup (IF lock = None THEN {} ELSE {LockFile})
                          \cup {run[q] : q \in {r \in Process : temp[r] # None}}]
    /\ moved' = [moved EXCEPT ![p] = [k \in Key |-> 0]]
    /\ Goto(p, "clear")
    /\ UNCHANGED key

\* Time passes the ttl, or the age a prune was given.
GrowOld ==
    /\ \E i \in Used \ {None} :
          /\ age[i] = "fresh"
          /\ age' = [age EXCEPT ![i] = "old"]
    /\ UNCHANGED <<file, lock, pc, local, runs, faults, over, unlocked>>

-----------------------------------------------------------------------------
\* The lock.

TakeLock(p) ==
    /\ pc[p] \in {"lock", "pruneLock"}
    /\ lock = None
    /\ lock' = p
    /\ Goto(p, IF pc[p] = "lock" THEN "stage" ELSE "list")
    /\ UNCHANGED <<file, age, local, runs, faults, over, unlocked>>

\* A write forgets it; a prune fails with FILE_ERROR.
LockTimeout(p) ==
    /\ pc[p] \in {"lock", "pruneLock"}
    /\ lock # None
    /\ End(p)
    /\ UNCHANGED <<file, age, lock, runs, faults, over, unlocked>>

\* The file of a dead holder goes stale and a waiter breaks it.
BreakStale ==
    /\ lock = LockFile
    /\ \E p \in Process : pc[p] \in {"lock", "pruneLock"}
    /\ Release
    /\ UNCHANGED <<file, age, pc, local, runs, faults, over, unlocked>>

-----------------------------------------------------------------------------
\* A write: atomicReplaceFile, then for a response evictIfNeeded.

Stage(p) ==
    /\ pc[p] = "stage"
    /\ \E i \in Ino \ Used :
          /\ temp' = [temp EXCEPT ![p] = i]
          /\ age' = [age EXCEPT ![i] = "fresh"]
    /\ Goto(p, "rename")
    /\ UNCHANGED <<file, lock, run, key, todo, ino, moved, late, failed, runs, faults, over, unlocked>>

Rename(p) ==
    /\ pc[p] = "rename" /\ temp[p] # None
    /\ file' = [file EXCEPT ![key[p]] = temp[p]]
    /\ IF key[p] \in Response
       THEN /\ Goto(p, "scan")
            /\ temp' = [temp EXCEPT ![p] = None]
            /\ moved' = MovedWith(key[p]) /\ late' = LateWith(key[p])
            /\ UNCHANGED <<run, key, todo, ino, failed>>
       ELSE EndWith(p, MovedWith(key[p]), LateWith(key[p]))
    /\ UNCHANGED <<age, lock, runs, faults, over, unlocked>>

\* Nothing there to rename: a clear has taken the staging file.
RenameMisses(p) ==
    /\ pc[p] = "rename" /\ temp[p] = None
    /\ End(p)
    /\ ReleaseFor(key[p])
    /\ UNCHANGED <<file, age, runs, faults, over, unlocked>>

\* An error before the rename leaves the old file, one after it, of the
\* directory's sync, the new; neither gets to the eviction.
WriteFails(p) ==
    /\ pc[p] \in {"stage", "rename"}
    /\ Fault
    /\ \/ End(p) /\ UNCHANGED <<file, over>>
       \/ /\ pc[p] = "rename" /\ temp[p] # None
          /\ file' = [file EXCEPT ![key[p]] = temp[p]]
          /\ over' = (over \/ key[p] \in Response)
          /\ EndWith(p, MovedWith(key[p]), LateWith(key[p]))
    /\ ReleaseFor(key[p])
    /\ UNCHANGED <<age, runs, unlocked>>

\* Mutant: one entry over the cap is let be.
SurplusLate(n) == IF n > Cap + 1 THEN n - Low ELSE 0
Surplus(n) == IF n > Cap THEN n - Low ELSE 0

\* readdir and the stats.
Scan(p) ==
    /\ pc[p] = "scan"
    /\ \E victims \in SUBSET Present(Response) :
          /\ Cardinality(victims) = Surplus(Cardinality(Present(Response)))
          /\ todo' = [todo EXCEPT ![p] = victims]
    /\ Goto(p, "evict")
    /\ over' = FALSE
    /\ UNCHANGED <<file, age, lock, run, key, temp, ino, moved, late, failed, runs, faults, unlocked>>

ScanFails(p) ==
    /\ pc[p] = "scan"
    /\ Fault
    /\ over' = TRUE
    /\ End(p)
    /\ Release
    /\ UNCHANGED <<file, age, runs, unlocked>>

\* An unlink of a name that is gone counts as well.
Evict(p) ==
    /\ pc[p] = "evict"
    /\ \E k \in todo[p] :
          /\ file' = [file EXCEPT ![k] = None]
          /\ todo' = [todo EXCEPT ![p] = @ \ {k}]
          /\ IF file[k] # None THEN moved' = MovedWith(k) /\ late' = LateWith(k)
                               ELSE UNCHANGED <<moved, late>>
    /\ UNCHANGED <<age, lock, pc, run, key, temp, ino, failed, runs, faults, over, unlocked>>

EvictFails(p) ==
    /\ pc[p] = "evict"
    /\ Fault
    /\ \E k \in todo[p] : todo' = [todo EXCEPT ![p] = @ \ {k}]
    /\ over' = TRUE
    /\ UNCHANGED <<file, age, lock, pc, run, key, temp, ino, moved, late, failed, runs, unlocked>>

EvictEnds(p) ==
    /\ pc[p] = "evict" /\ todo[p] = {}
    /\ End(p)
    /\ Release
    /\ UNCHANGED <<file, age, runs, faults, over, unlocked>>

-----------------------------------------------------------------------------
\* pruneCaches: the responses under the lock, then the tools.

\* pruneSubdirByAge lists; a selector leaves some of the responses out.
List(p) ==
    /\ \/ /\ pc[p] = "list"
          /\ \E names \in SUBSET Present(Response) : todo' = [todo EXCEPT ![p] = names]
          /\ Goto(p, "judge")
       \/ /\ pc[p] = "listTool"
          /\ todo' = [todo EXCEPT ![p] = Present(Tool)]
          /\ Goto(p, "judgeTool")
    /\ UNCHANGED <<file, age, lock, run, key, temp, ino, moved, late, failed,
                   runs, faults, over, unlocked>>

Judges(p) == pc[p] \in {"judge", "judgeTool"}

\* The first stat.
Stat(p) ==
    /\ Judges(p)
    /\ \E k \in todo[p] :
          /\ todo' = [todo EXCEPT ![p] = @ \ {k}]
          /\ IF file[k] = None
             THEN UNCHANGED <<pc, key, ino, moved>>
             ELSE /\ key' = [key EXCEPT ![p] = k]
                  /\ ino' = [ino EXCEPT ![p] = file[k]]
                  /\ moved' = [moved EXCEPT ![p] = [j \in Key |-> 0]]
                  /\ Goto(p, "read")
    /\ UNCHANGED <<file, age, lock, run, temp, late, failed, runs, faults, over, unlocked>>

\* On to the next name.
Continue(p) ==
    /\ Goto(p, IF key[p] \in Response THEN "judge" ELSE "judgeTool")
    /\ key' = [key EXCEPT ![p] = None]
    /\ ino' = [ino EXCEPT ![p] = None]
    /\ UNCHANGED <<run, temp, todo, failed>>

Skip(p) ==
    /\ Continue(p)
    /\ moved' = [moved EXCEPT ![p] = [k \in Key |-> 0]]
    /\ late' = [late EXCEPT ![p] = FALSE]
    /\ UNCHANGED file

\* readFile and entryAgeMs; an earlier release's entry is of any age.
Read(p) ==
    /\ pc[p] = "read"
    /\ \/ /\ file[key[p]] # None /\ age[file[key[p]]] # "fresh"
          /\ Goto(p, "restat")
          /\ UNCHANGED <<file, local>>
       \/ /\ file[key[p]] # None => age[file[key[p]]] # "old"
          /\ Skip(p)
    /\ UNCHANGED <<age, lock, runs, faults, over, unlocked>>

\* Mutant: the second stat is not compared.
SameFileAlways(p) == file[key[p]] # None
SameFile(p) == file[key[p]] = ino[p]

Restat(p) ==
    /\ pc[p] = "restat"
    /\ IF SameFile(p) THEN Goto(p, "unlink") /\ UNCHANGED <<file, local>> ELSE Skip(p)
    /\ UNCHANGED <<age, lock, runs, faults, over, unlocked>>

Unlink(p) ==
    /\ pc[p] = "unlink"
    /\ Continue(p)
    /\ file' = [file EXCEPT ![key[p]] = None]
    /\ LET m == IF file[key[p]] # None THEN MovedWith(key[p]) ELSE moved
           l == IF file[key[p]] # None THEN LateWith(key[p]) ELSE late
       IN /\ moved' = [m EXCEPT ![p] = [k \in Key |-> 0]]
          /\ late' = [l EXCEPT ![p] = FALSE]
    /\ UNCHANGED <<age, lock, runs, faults, over, unlocked>>

\* An error at an entry passes it over.
EntryFails(p) ==
    /\ pc[p] \in Prunes
    /\ Fault
    /\ Skip(p)
    /\ UNCHANGED <<age, lock, runs, over, unlocked>>

PruneEnds(p) ==
    /\ Judges(p) /\ todo[p] = {}
    /\ IF pc[p] = "judge"
       THEN Goto(p, "listTool") /\ Release /\ UNCHANGED local
       ELSE End(p) /\ UNCHANGED lock
    /\ UNCHANGED <<file, age, runs, faults, over, unlocked>>

-----------------------------------------------------------------------------
\* clearSubdir on both directories at once, and readToolCache's unlink.

ClearName(p) ==
    /\ pc[p] = "clear"
    /\ \E k \in todo[p] \cap Key :
          /\ todo' = [todo EXCEPT ![p] = @ \ {k}]
          /\ file' = [file EXCEPT ![k] = None]
          /\ IF file[k] # None THEN moved' = MovedWith(k) /\ late' = LateWith(k)
                               ELSE UNCHANGED <<moved, late>>
    /\ UNCHANGED <<age, lock, pc, run, key, temp, ino, failed, runs, faults, over, unlocked>>

\* The lock file goes like any other name, and so do staging files.
ClearLock(p) ==
    /\ pc[p] = "clear" /\ LockFile \in todo[p]
    /\ todo' = [todo EXCEPT ![p] = @ \ {LockFile}]
    /\ Release
    /\ unlocked' = (unlocked \/ lock \in Process)
    /\ UNCHANGED <<file, age, pc, run, key, temp, ino, moved, late, failed, runs, faults, over>>

ClearStaged(p) ==
    /\ pc[p] = "clear"
    /\ \E n \in todo[p] \cap 1..MaxRuns :
          /\ todo' = [todo EXCEPT ![p] = @ \ {n}]
          /\ temp' = [q \in Process |-> IF run[q] = n THEN None ELSE temp[q]]
    /\ UNCHANGED <<file, age, lock, pc, run, key, ino, moved, late, failed,
                   runs, faults, over, unlocked>>

ClearFails(p) ==
    /\ pc[p] = "clear"
    /\ Fault
    /\ \E x \in todo[p] : todo' = [todo EXCEPT ![p] = @ \ {x}]
    /\ failed' = [failed EXCEPT ![p] = TRUE]
    /\ UNCHANGED <<file, age, lock, pc, run, key, temp, ino, moved, late, runs, over, unlocked>>

ClearEnds(p) ==
    /\ pc[p] = "clear" /\ todo[p] = {}
    /\ End(p)
    /\ UNCHANGED <<file, age, lock, runs, faults, over, unlocked>>

Drop(p) ==
    /\ pc[p] = "drop"
    /\ file' = [file EXCEPT ![key[p]] = None]
    /\ IF file[key[p]] # None THEN EndWith(p, MovedWith(key[p]), LateWith(key[p])) ELSE End(p)
    /\ UNCHANGED <<age, lock, runs, faults, over, unlocked>>

\* A process dies.  Its lock file stays; its staging file too, where nothing but
\* a clear will look at it.
Crash(p) ==
    /\ pc[p] # "idle"
    /\ Fault
    /\ End(p)
    /\ lock' = IF lock = p THEN LockFile ELSE lock
    /\ over' = (over \/ pc[p] \in {"scan", "evict"})
    /\ UNCHANGED <<file, age, runs, unlocked>>

Next ==
    \/ GrowOld \/ BreakStale
    \/ \E p \in Process :
          \/ StartWrite(p) \/ StartRead(p) \/ StartPrune(p) \/ StartClear(p)
          \/ TakeLock(p) \/ LockTimeout(p)
          \/ Stage(p) \/ Rename(p) \/ RenameMisses(p) \/ WriteFails(p)
          \/ Scan(p) \/ ScanFails(p) \/ Evict(p) \/ EvictFails(p) \/ EvictEnds(p)
          \/ List(p) \/ Stat(p) \/ Read(p) \/ Restat(p) \/ Unlink(p)
          \/ EntryFails(p) \/ PruneEnds(p)
          \/ ClearName(p) \/ ClearLock(p) \/ ClearStaged(p) \/ ClearFails(p) \/ ClearEnds(p)
          \/ Drop(p) \/ Crash(p)

Spec == Init /\ [][Next]_vars

-----------------------------------------------------------------------------
\* Properties.

\* A prune about to unlink a name finds there a fresh entry, which it never
\* judged, only in the two ways its second stat cannot close: the name changed
\* after that stat, or changed twice since the first and got the inode number
\* back.  Of a response only if, besides, a clear has broken the lock.
PruneSparesFresh ==
    \A p \in Process :
       (pc[p] = "unlink" /\ file[key[p]] # None /\ age[file[key[p]]] = "fresh")
          => /\ late[p] \/ moved[p][key[p]] = 2
             /\ key[p] \in Response => unlocked

\* With no eviction under way or cut short, the responses fit the cap, also when
\* a clear has let two writers in at once.
CapHolds ==
    (~over /\ \A p \in Process : pc[p] \notin {"scan", "evict"})
        => Cardinality(Present(Response)) <= Cap

\* A clear whose unlinks all succeed leaves no entry that was there when it
\* listed the directories.
ClearIsComplete ==
    \A p \in Process :
       (pc[p] = "clear" /\ todo[p] = {} /\ ~failed[p])
          => \A k \in Present(Key) : moved[p][k] > 0
=============================================================================
