----------------------------- MODULE JournalStore -----------------------------
(***************************************************************************)
(* The artifacts store: index.json, one log of saves and of the always-on  *)
(* research journal, and a master file per save (lib/artifacts.ts,         *)
(* lib/save-artifacts.ts, lib/journal.ts, the hooks of command-            *)
(* invocation.ts and index.ts), with `history note` and `history clear`.   *)
(*                                                                         *)
(* Every writer holds the artifacts-write lock from its read to its write: *)
(* the lock file AsyncFileLock specifies, for holders that are not         *)
(* displaced, whose holder follows from pc.  What is left to go wrong is   *)
(* what a writer knew before it waited, ids that two processes mint in the *)
(* same second, and writes that fail or processes that die under the lock. *)
(***************************************************************************)
EXTENDS Integers, Sequences, FiniteSets, SequencesExt

CONSTANTS
    Process,   \* slots in which the user's scoutline processes run
    Id,        \* request ids; two mints can give the same one
    Key,       \* response-cache keys
    MaxRuns,   \* bound on the commands, which also numbers them
    MaxFaults, \* bound on the reads and writes that fail and the processes that die
    None

ASSUME ConstantsAssumption ==
    /\ MaxRuns \in Nat /\ MaxFaults \in Nat
    /\ None \notin Id \cup Key /\ None \notin Nat

VARIABLES
    log,      \* the entries of index.json
    masters,  \* per id: the run whose report the master file holds
    pc,       \* where each process is
    run,      \* the number of its command, 0 without one
    key,      \* the cache key of what it was served; None for a note
    served,   \* "live" or "cache"
    saves,    \* it runs with --save
    journals, \* it journals
    all,      \* history clear --all
    sid, jid, \* the ids it minted for its save and its journal entry
    seen,     \* the log it has read under the lock
    left,     \* the files its sweep has still to delete
    failed,   \* an unlink of its sweep failed
    runs, faults,
    blind,    \* ghost: its read of the log failed, and looked empty
    swept     \* ghost: the ids of masters a clear deleted that did not get to its rewrite

command == <<run, key, served, saves, journals, all, sid, jid>>
local == <<command, seen, left, failed, blind>>
vars == <<log, masters, pc, local, runs, faults, swept>>

Run == 1..MaxRuns

\* kind save, a full journal entry, or a repeat marker, which has no id and
\* names the full entry it repeats.
Entry == [kind : {"save"}, id : Id, key : {None}, repeatOf : {None}, saveRef : {None},
          served : {"live", "cache"}, run : Run]
         \cup [kind : {"full"}, id : Id, key : Key \cup {None}, repeatOf : {None},
               saveRef : Id \cup {None}, served : {"live", "cache"}, run : Run]
         \cup [kind : {"marker"}, id : {None}, key : Key, repeatOf : Id,
               saveRef : Id \cup {None}, served : {"cache"}, run : Run]

SaveHolds == {"saveCheck", "saveMaster", "saveRead", "saveLog"}
JournalHolds == {"journalRead", "journalWrite"}
ClearHolds == {"clearRead", "sweep", "rewrite"}
Holds == SaveHolds \cup JournalHolds \cup ClearHolds
Location == Holds \cup {"idle", "saveLock", "journal", "journalLock", "clearLock"}

TypeOK ==
    /\ log \in Seq(Entry)
    /\ masters \in [Id -> Run \cup {None}]
    /\ pc \in [Process -> Location]
    /\ run \in [Process -> 0..MaxRuns]
    /\ key \in [Process -> Key \cup {None}]
    /\ served \in [Process -> {"live", "cache"}]
    /\ saves \in [Process -> BOOLEAN] /\ journals \in [Process -> BOOLEAN]
    /\ all \in [Process -> BOOLEAN]
    /\ sid \in [Process -> Id \cup {None}] /\ jid \in [Process -> Id \cup {None}]
    /\ seen \in [Process -> Seq(Entry)]
    /\ left \in [Process -> SUBSET Id]
    /\ failed \in [Process -> BOOLEAN] /\ blind \in [Process -> BOOLEAN]
    /\ runs \in 0..MaxRuns
    /\ faults \in 0..MaxFaults
    /\ swept \subseteq Id

Init ==
    /\ log = <<>>
    /\ masters = [i \in Id |-> None]
    /\ pc = [c \in Process |-> "idle"]
    /\ run = [c \in Process |-> 0]
    /\ key = [c \in Process |-> None]
    /\ served = [c \in Process |-> "live"]
    /\ saves = [c \in Process |-> FALSE]
    /\ journals = [c \in Process |-> FALSE]
    /\ all = [c \in Process |-> FALSE]
    /\ sid = [c \in Process |-> None]
    /\ jid = [c \in Process |-> None]
    /\ seen = [c \in Process |-> <<>>]
    /\ left = [c \in Process |-> {}]
    /\ failed = [c \in Process |-> FALSE]
    /\ runs = 0
    /\ faults = 0
    /\ blind = [c \in Process |-> FALSE]
    /\ swept = {}

-----------------------------------------------------------------------------
Goto(c, l) == pc' = [pc EXCEPT ![c] = l]
Fault == faults < MaxFaults /\ faults' = faults + 1

EndLocal(c) ==
    /\ Goto(c, "idle")
    /\ run' = [run EXCEPT ![c] = 0]
    /\ key' = [key EXCEPT ![c] = None]
    /\ served' = [served EXCEPT ![c] = "live"]
    /\ saves' = [saves EXCEPT ![c] = FALSE]
    /\ journals' = [journals EXCEPT ![c] = FALSE]
    /\ all' = [all EXCEPT ![c] = FALSE]
    /\ sid' = [sid EXCEPT ![c] = None]
    /\ jid' = [jid EXCEPT ![c] = None]
    /\ seen' = [seen EXCEPT ![c] = <<>>]
    /\ left' = [left EXCEPT ![c] = {}]
    /\ failed' = [failed EXCEPT ![c] = FALSE]
    /\ blind' = [blind EXCEPT ![c] = FALSE]

Begin(c) ==
    /\ pc[c] = "idle"
    /\ runs < MaxRuns
    /\ runs' = runs + 1
    /\ run' = [run EXCEPT ![c] = runs + 1]
    /\ UNCHANGED <<log, masters, sid, jid, seen, left, failed, faults, blind, swept>>

\* A command whose result was served, live or from the response cache, reaches
\* the hooks of invokeCommand: the save's, then the journal's.
StartRun(c) ==
    /\ Begin(c)
    /\ \E k \in Key, s \in {"live", "cache"}, save \in BOOLEAN, journal \in BOOLEAN :
          /\ save \/ journal
          /\ key' = [key EXCEPT ![c] = k]
          /\ served' = [served EXCEPT ![c] = s]
          /\ saves' = [saves EXCEPT ![c] = save]
          /\ journals' = [journals EXCEPT ![c] = journal]
          /\ Goto(c, IF save THEN "saveLock" ELSE "journal")
    /\ UNCHANGED all

\* history note: buildNoteEntry, under a cache key of its own.
StartNote(c) ==
    /\ Begin(c)
    /\ journals' = [journals EXCEPT ![c] = TRUE]
    /\ Goto(c, "journal")
    /\ UNCHANGED <<key, served, saves, all>>

\* history clear, and history clear --all.
StartClear(c) ==
    /\ Begin(c)
    /\ \E a \in BOOLEAN : all' = [all EXCEPT ![c] = a]
    /\ Goto(c, "clearLock")
    /\ UNCHANGED <<key, served, saves, journals>>

-----------------------------------------------------------------------------
\* The lock.

\* Mutant: the lock is not waited for.
LockFreeAlways == TRUE
LockFree == \A d \in Process : pc[d] \notin Holds

AfterLock(c) ==
    CASE pc[c] = "saveLock" -> "saveCheck"
      [] pc[c] = "journalLock" -> "journalRead"
      [] pc[c] = "clearLock" -> "clearRead"

TakeLock(c) ==
    /\ pc[c] \in {"saveLock", "journalLock", "clearLock"}
    /\ LockFree
    /\ Goto(c, AfterLock(c))
    \* the save hook has minted its id and stamped it into the capture by now
    /\ IF pc[c] = "saveLock" THEN \E i \in Id : sid' = [sid EXCEPT ![c] = i] ELSE UNCHANGED sid
    /\ UNCHANGED <<log, masters, run, key, served, saves, journals, all, jid,
                   seen, left, failed, blind, runs, faults, swept>>

\* A save that fails goes on to the journal; its error is thrown after that.
Fails(c) ==
    IF pc[c] \in SaveHolds \cup {"saveLock"} /\ journals[c]
    THEN /\ Goto(c, "journal")
         /\ seen' = [seen EXCEPT ![c] = <<>>]
         /\ blind' = [blind EXCEPT ![c] = FALSE]
         /\ UNCHANGED <<command, left, failed>>
    ELSE EndLocal(c)

LockTimeout(c) ==
    /\ pc[c] \in {"journalLock", "clearLock"}
    /\ ~LockFree
    /\ Fails(c)
    /\ UNCHANGED <<log, masters, runs, faults, swept>>

\* The save's timeout: its id is minted, and stays in the capture.
SaveLockTimeout(c) ==
    /\ pc[c] = "saveLock"
    /\ ~LockFree
    /\ IF journals[c]
       THEN /\ Goto(c, "journal")
            /\ \E i \in Id : sid' = [sid EXCEPT ![c] = i]
            /\ UNCHANGED <<run, key, served, saves, journals, all, jid, seen, left, failed, blind>>
       ELSE EndLocal(c)
    /\ UNCHANGED <<log, masters, runs, faults, swept>>

\* readLog, which is fail-open: an error is an empty log and a notice.
Reads(c, l) ==
    /\ \/ /\ seen' = [seen EXCEPT ![c] = log]
          /\ UNCHANGED <<blind, faults>>
       \/ /\ Fault
          /\ seen' = [seen EXCEPT ![c] = <<>>]
          /\ blind' = [blind EXCEPT ![c] = TRUE]
    /\ Goto(c, l)
    /\ UNCHANGED <<log, masters, command, left, failed, runs, swept>>

-----------------------------------------------------------------------------
\* writeArtifactWithLogEntry: one hold of the lock for the master and the entry.

\* Mutant: an existing master is overwritten.
FreeTargetAlways(i) == TRUE
FreeTarget(i) == masters[i] = None

SaveCheck(c) ==
    /\ pc[c] = "saveCheck"
    /\ IF FreeTarget(sid[c])
       THEN Goto(c, "saveMaster") /\ UNCHANGED local
       ELSE Fails(c)
    /\ UNCHANGED <<log, masters, runs, faults, swept>>

SaveMaster(c) ==
    /\ pc[c] = "saveMaster"
    /\ masters' = [masters EXCEPT ![sid[c]] = run[c]]
    /\ Goto(c, "saveRead")
    /\ UNCHANGED <<log, local, runs, faults, swept>>

SaveRead(c) == pc[c] = "saveRead" /\ Reads(c, "saveLog")

SaveEntry(c) ==
    [kind |-> "save", id |-> sid[c], key |-> None, repeatOf |-> None, saveRef |-> None,
     served |-> served[c], run |-> run[c]]

SaveLog(c) ==
    /\ pc[c] = "saveLog"
    /\ log' = Append(seen[c], SaveEntry(c))
    /\ IF journals[c]
       THEN /\ Goto(c, "journal")
            /\ seen' = [seen EXCEPT ![c] = <<>>]
            /\ blind' = [blind EXCEPT ![c] = FALSE]
            /\ UNCHANGED <<command, left, failed>>
       ELSE EndLocal(c)
    /\ UNCHANGED <<masters, runs, faults, swept>>

\* A write fails: before its rename, or after it when the directory cannot be
\* synced, and then the file is there.
SaveFails(c) ==
    /\ Fault
    /\ \/ /\ pc[c] = "saveMaster"
          /\ masters' \in {masters, [masters EXCEPT ![sid[c]] = run[c]]}
          /\ UNCHANGED log
       \/ /\ pc[c] = "saveLog"
          /\ log' \in {log, Append(seen[c], SaveEntry(c))}
          /\ UNCHANGED masters
    /\ Fails(c)
    /\ UNCHANGED <<runs, swept>>

-----------------------------------------------------------------------------
\* The journal hook: buildJournalEntry mints the id, the append decides under
\* the lock what is written.

MintJournalId(c) ==
    /\ pc[c] = "journal"
    /\ \E i \in Id : jid' = [jid EXCEPT ![c] = i]
    /\ Goto(c, "journalLock")
    /\ UNCHANGED <<log, masters, run, key, served, saves, journals, all, sid,
                   seen, left, failed, blind, runs, faults, swept>>

JournalRead(c) == pc[c] = "journalRead" /\ Reads(c, "journalWrite")

Taken(entries) == {e.id : e \in {f \in ToSet(entries) : f.kind # "marker"}}

\* remintJournalCollision: an id that is free in this log; when each of the
\* eight mints is taken too the append fails.
Minted(c) ==
    IF jid[c] \notin Taken(seen[c]) THEN {jid[c]} ELSE Id \ Taken(seen[c])

\* buildJournalCacheKeyMapFromLog: the latest full entry of a cache key.
FullAt(entries, k) == {n \in DOMAIN entries : entries[n].kind = "full" /\ entries[n].key = k}
Prior(entries, k) == entries[CHOOSE n \in FullAt(entries, k) : \A m \in FullAt(entries, k) : m <= n].id

\* Mutant: a cache hit is journalled as a live result is.
RepeatsNever(c) == FALSE
Repeats(c) == served[c] = "cache" /\ FullAt(seen[c], key[c]) # {}

FullEntry(c, i) ==
    [kind |-> "full", id |-> i, key |-> key[c], repeatOf |-> None, saveRef |-> sid[c],
     served |-> served[c], run |-> run[c]]

Marker(c) ==
    [kind |-> "marker", id |-> None, key |-> key[c], repeatOf |-> Prior(seen[c], key[c]),
     saveRef |-> sid[c], served |-> "cache", run |-> run[c]]

\* What the append can write: appendJournalEntry, appendJournalEntryMaybeRepeat.
Appended(c) == IF Repeats(c) THEN {Marker(c)} ELSE {FullEntry(c, i) : i \in Minted(c)}

JournalWrite(c) ==
    /\ pc[c] = "journalWrite"
    /\ \E entry \in Appended(c) : log' = Append(seen[c], entry)
    /\ EndLocal(c)
    /\ UNCHANGED <<masters, runs, faults, swept>>

\* No id was free after eight mints.
JournalGivesUp(c) ==
    /\ pc[c] = "journalWrite"
    /\ ~Repeats(c) /\ jid[c] \in Taken(seen[c])
    /\ EndLocal(c)
    /\ UNCHANGED <<log, masters, runs, faults, swept>>

JournalFails(c) ==
    /\ pc[c] = "journalWrite"
    /\ Fault
    /\ \/ UNCHANGED log
       \/ \E entry \in Appended(c) : log' = Append(seen[c], entry)
    /\ EndLocal(c)
    /\ UNCHANGED <<masters, runs, swept>>

-----------------------------------------------------------------------------
\* clearArtifactsLog: with --all the files go first, then the log is rewritten.

ClearRead(c) == pc[c] = "clearRead" /\ Reads(c, IF all[c] THEN "sweep" ELSE "rewrite")

StartSweep(c) ==
    /\ pc[c] = "sweep" /\ left[c] = {} /\ ~failed[c]
    /\ \E i \in Id : masters[i] # None
    /\ left' = [left EXCEPT ![c] = {i \in Id : masters[i] # None}]
    /\ UNCHANGED <<log, masters, pc, command, seen, failed, blind, runs, faults, swept>>

Unlink(c) ==
    /\ pc[c] = "sweep"
    /\ \E i \in left[c] :
          /\ masters' = [masters EXCEPT ![i] = None]
          /\ left' = [left EXCEPT ![c] = @ \ {i}]
          /\ swept' = swept \cup {i}
    /\ UNCHANGED <<log, pc, command, seen, failed, blind, runs, faults>>

UnlinkFails(c) ==
    /\ pc[c] = "sweep"
    /\ Fault
    /\ \E i \in left[c] : left' = [left EXCEPT ![c] = @ \ {i}]
    /\ failed' = [failed EXCEPT ![c] = TRUE]
    /\ UNCHANGED <<log, masters, pc, command, seen, blind, runs, swept>>

\* Files that would not go fail the command, with the log as it was.
SweepEnds(c) ==
    /\ pc[c] = "sweep" /\ left[c] = {}
    /\ IF failed[c]
       THEN EndLocal(c)
       ELSE /\ \A i \in Id : masters[i] = None
            /\ Goto(c, "rewrite")
            /\ UNCHANGED local
    /\ UNCHANGED <<log, masters, runs, faults, swept>>

\* The entries of some kinds, in order.
OfKinds(entries, kinds) ==
    LET upTo[n \in 0..Len(entries)] ==
          IF n = 0 THEN <<>>
          ELSE IF entries[n].kind \in kinds THEN Append(upTo[n - 1], entries[n])
          ELSE upTo[n - 1]
    IN  upTo[Len(entries)]

\* Mutant: a bare clear keeps the repeat markers.
KeptWithMarkers(c) == IF all[c] THEN <<>> ELSE OfKinds(seen[c], {"save", "marker"})
Kept(c) == IF all[c] THEN <<>> ELSE OfKinds(seen[c], {"save"})

Rewrite(c) ==
    /\ pc[c] = "rewrite"
    /\ log' = Kept(c)
    /\ swept' = IF all[c] THEN {} ELSE swept
    /\ EndLocal(c)
    /\ UNCHANGED <<masters, runs, faults>>

RewriteFails(c) ==
    /\ pc[c] = "rewrite"
    /\ Fault
    /\ \/ UNCHANGED <<log, swept>>
       \/ log' = Kept(c) /\ swept' = IF all[c] THEN {} ELSE swept
    /\ EndLocal(c)
    /\ UNCHANGED <<masters, runs>>

Crash(c) ==
    /\ pc[c] # "idle"
    /\ Fault
    /\ EndLocal(c)
    /\ UNCHANGED <<log, masters, runs, swept>>

Next ==
    \E c \in Process :
       \/ StartRun(c) \/ StartNote(c) \/ StartClear(c)
       \/ TakeLock(c) \/ LockTimeout(c) \/ SaveLockTimeout(c)
       \/ SaveCheck(c) \/ SaveMaster(c) \/ SaveRead(c) \/ SaveLog(c) \/ SaveFails(c)
       \/ MintJournalId(c) \/ JournalRead(c) \/ JournalWrite(c)
       \/ JournalGivesUp(c) \/ JournalFails(c)
       \/ ClearRead(c) \/ StartSweep(c) \/ Unlink(c) \/ UnlinkFails(c) \/ SweepEnds(c)
       \/ Rewrite(c) \/ RewriteFails(c) \/ Crash(c)

Spec == Init /\ [][Next]_vars

-----------------------------------------------------------------------------
\* Properties.

\* Every repeat marker has, further up in the log, the full entry it names, of
\* the same cache key: recall can give the question its later date, whatever
\* was cleared, lost or minted twice in between.
MarkersResolve ==
    \A n \in DOMAIN log : log[n].kind = "marker" =>
        \E m \in 1..(n - 1) :
           log[m].kind = "full" /\ log[m].id = log[n].repeatOf /\ log[m].key = log[n].key

\* Two cache hits of one key never both write a full entry: the second finds the
\* first's, because it looks under the lock.
CacheHitsWriteOneFull ==
    \A n \in DOMAIN log :
       (log[n].kind = "full" /\ log[n].served = "cache")
           => \A m \in 1..(n - 1) : ~(log[m].kind = "full" /\ log[m].key = log[n].key)

\* The report of every logged save is on disk, and is that run's own, unless a
\* clear --all deleted it and then failed or died before it rewrote the log.
SavesHaveMasters ==
    \A n \in DOMAIN log : log[n].kind = "save" =>
        \/ masters[log[n].id] = log[n].run
        \/ log[n].id \in swept

Lost == ToSet(log) \ ToSet(log')

\* An entry leaves the log only by a clear of its kind, or behind a read of the
\* log that failed: no append drops what another process appended.
NothingLost ==
    [][Lost # {} =>
          \E c \in Process :
             /\ pc'[c] # pc[c]
             /\ \/ blind[c]
                \/ pc[c] = "rewrite" /\ (all[c] \/ \A e \in Lost : e.kind # "save")]_vars
=============================================================================
