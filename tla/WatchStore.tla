------------------------------ MODULE WatchStore ------------------------------
(***************************************************************************)
(* The watch family: lib/watch-store.ts (registry, snapshot ring, change   *)
(* log) driven by commands/watch.ts (watch run, add and remove).  Cron     *)
(* runs ticks that overlap each other and a person's add and remove.       *)
(*                                                                         *)
(* A command is one tick of one target, one add or one remove.  The three  *)
(* locks (registry, tick of a target, append of a target) are lock files   *)
(* as AsyncFileLock specifies them for holders that are not displaced; who *)
(* holds one follows from pc.  A dead holder's lock is free again once it  *)
(* is stale, and a wait can time out, so a crash just frees the lock.      *)
(*                                                                         *)
(* A page's content stands for its bytes, its final URL and its type: two  *)
(* contents are equal when the diff of commands/watch.ts finds no change.  *)
(***************************************************************************)
EXTENDS Integers, Sequences, FiniteSets, FiniteSetsExt

CONSTANTS
    Command,   \* slots in which the user's processes run
    Id,        \* target ids
    Ticked,    \* bound: the targets that ticks are run for
    Label,     \* target names that are not ids; an id can be a name too
    Content,   \* what the watched pages can show
    Moved,     \* the contents that are served behind a permanent redirect
    Keep,      \* the size of a target's snapshot ring
    MaxGen,    \* bound on the generations of a target
    FileErrors,\* whether writes and unlinks can fail
    None

Torn == "torn"

ASSUME ConstantsAssumption ==
    /\ Keep \in Nat \ {0}
    /\ MaxGen \in Nat
    /\ Ticked \subseteq Id
    /\ Moved \subseteq Content
    /\ FileErrors \in BOOLEAN
    /\ {None, Torn} \cap Content = {}
    /\ None \notin Id \cup Label

VARIABLES
    registry,  \* targets.json: the name of each live target, the retired ids
    ring,      \* per target: the generations that have metadata
    bytes,     \* per target and generation: the captured bytes
    log,       \* per target: the entries of its change log, or a torn line
    pc, of,    \* where each command is, and the target it is about
    seen,      \* the registry an add or remove has read
    prior,     \* the newest content before a tick's own
    fetched,   \* the content a tick got
    gen,       \* the generation a tick writes; 0 before and without one
    left,      \* the generations a tick has still to prune
    captured,  \* ghost: per target, every content that became a generation
    unlogged,  \* ghost: per target, generations whose tick failed or died
    purge      \* ghost: how far the purge of a target has come

snapshots == <<ring, bytes, captured>>
evidence == <<snapshots, log, unlogged, purge>>
local == <<of, seen, prior, fetched, gen, left>>
vars == <<registry, evidence, pc, local>>

Gen == 1..MaxGen
Name == Id \cup Label
Registry == [named : [Id -> Name \cup {None}], retired : SUBSET Id]
Entry == [kind : {"baseline", "no-change", "change", "moved"}, gen : Gen]
         \cup [kind : {"error"}, gen : {0}]

\* A crash inside an append leaves a line that is no entry: readChangeLog fails
\* from then on, whatever is appended behind it.
Unreadable == [kind |-> "torn", gen |-> 0]

\* Where a command holds a lock: for the registry, for its target's tick, and
\* for appending to its target's evidence.
HoldsRegistry == {"addWrite", "removeWrite", "purgeTick", "purgeAppend", "purging"}
HoldsAppend == {"snapCheck", "write", "meta", "prune", "logCheck", "logWrite",
                "failCheck", "failWrite", "purging"}
HoldsTick == {"check", "fetch", "snapLock", "snapCheck", "write", "meta", "prune",
              "logLock", "logCheck", "logWrite", "purgeAppend", "purging"}
Location == {"idle", "tickLock", "failLock"} \cup HoldsRegistry \cup HoldsAppend \cup HoldsTick

Live(reg) == {id \in Id : reg.named[id] # None}

TypeOK ==
    /\ registry \in Registry
    /\ Live(registry) \cap registry.retired = {}
    /\ ring \in [Id -> SUBSET Gen]
    /\ bytes \in [Id -> [Gen -> Content \cup {None, Torn}]]
    /\ log \in [Id -> (SUBSET Entry) \cup {{Unreadable}}]
    /\ pc \in [Command -> Location]
    /\ of \in [Command -> Id \cup {None}]
    /\ seen \in [Command -> Registry \cup {None}]
    /\ prior \in [Command -> Content \cup {None}]
    /\ fetched \in [Command -> Content \cup {None}]
    /\ gen \in [Command -> 0..MaxGen]
    /\ left \in [Command -> SUBSET Gen]
    /\ captured \in [Id -> Seq(Content)]
    /\ \A id \in Id : Len(captured[id]) <= MaxGen
    /\ unlogged \in [Id -> SUBSET Gen]
    /\ purge \in [Id -> {"no", "begun", "done"}]

Init ==
    /\ registry = [named |-> [id \in Id |-> None], retired |-> {}]
    /\ ring = [id \in Id |-> {}]
    /\ bytes = [id \in Id |-> [g \in Gen |-> None]]
    /\ log = [id \in Id |-> {}]
    /\ pc = [c \in Command |-> "idle"]
    /\ of = [c \in Command |-> None]
    /\ seen = [c \in Command |-> None]
    /\ prior = [c \in Command |-> None]
    /\ fetched = [c \in Command |-> None]
    /\ gen = [c \in Command |-> 0]
    /\ left = [c \in Command |-> {}]
    /\ captured = [id \in Id |-> <<>>]
    /\ unlogged = [id \in Id |-> {}]
    /\ purge = [id \in Id |-> "no"]

-----------------------------------------------------------------------------
\* Steps of a command.

Goto(c, l) == pc' = [pc EXCEPT ![c] = l]

End(c) ==
    /\ Goto(c, "idle")
    /\ of' = [of EXCEPT ![c] = None]
    /\ seen' = [seen EXCEPT ![c] = None]
    /\ prior' = [prior EXCEPT ![c] = None]
    /\ fetched' = [fetched EXCEPT ![c] = None]
    /\ gen' = [gen EXCEPT ![c] = 0]
    /\ left' = [left EXCEPT ![c] = {}]

\* The tick has made its generation durable, and not yet logged it.
Unlogged(c) == gen[c] # 0 /\ pc[c] \in {"prune", "logLock", "logCheck", "logWrite"}

GivesUpOn(c) ==
    unlogged' = IF Unlogged(c) THEN [unlogged EXCEPT ![of[c]] = @ \cup {gen[c]}] ELSE unlogged

\* The tick throws: its locks are released and tickFailureReport appends an
\* error entry, outside of the tick lock; what that throws is swallowed.
Fail(c) ==
    /\ IF pc[c] \in {"failLock", "failCheck", "failWrite"}
       THEN End(c)
       ELSE /\ Goto(c, "failLock")
            /\ gen' = [gen EXCEPT ![c] = 0]
            /\ left' = [left EXCEPT ![c] = {}]
            /\ prior' = [prior EXCEPT ![c] = None]
            /\ fetched' = [fetched EXCEPT ![c] = None]
            /\ UNCHANGED <<of, seen>>
    /\ GivesUpOn(c)
    /\ UNCHANGED <<registry, snapshots, log, purge>>

\* Mutant: also a name that equals the id.
StillRegisteredByName(id) ==
    registry.named[id] # None \/ \E j \in Id : registry.named[j] = id

\* findTargetById, requireTarget: the exact id is in the registry file.
StillRegistered(id) == registry.named[id] # None

\* Mutant: the tick lock serializes nothing.
TickFreeAlways(id) == TRUE

TickFree(id) == \A d \in Command : ~(of[d] = id /\ pc[d] \in HoldsTick)

AppendFree(id) == \A d \in Command : ~(of[d] = id /\ pc[d] \in HoldsAppend)

RegistryFree == \A d \in Command : pc[d] \notin HoldsRegistry

TakeTickLock(c) ==
    /\ pc[c] \in {"tickLock", "purgeTick"}
    /\ TickFree(of[c])
    /\ Goto(c, IF pc[c] = "tickLock" THEN "check" ELSE "purgeAppend")
    /\ UNCHANGED <<registry, evidence, local>>

AfterAppendLock == [snapLock |-> "snapCheck", logLock |-> "logCheck",
                    failLock |-> "failCheck", purgeAppend |-> "purging"]

TakeAppendLock(c) ==
    /\ pc[c] \in DOMAIN AfterAppendLock
    /\ AppendFree(of[c])
    /\ Goto(c, AfterAppendLock[pc[c]])
    /\ UNCHANGED <<registry, evidence, local>>

\* A wait for a lock times out: a tick reports an error; a purge
\* ends in one, with its target's row already gone.
LockTimeout(c) ==
    \/ pc[c] \in {"tickLock", "snapLock", "logLock", "failLock"} /\ Fail(c)
    \/ /\ pc[c] \in {"purgeTick", "purgeAppend"}
       /\ End(c)
       /\ UNCHANGED <<registry, evidence>>

-----------------------------------------------------------------------------
\* One tick.

StartTick(c, id) ==
    /\ pc[c] = "idle"
    /\ StillRegistered(id)
    /\ of' = [of EXCEPT ![c] = id]
    /\ Goto(c, "tickLock")
    /\ UNCHANGED <<registry, evidence, seen, prior, fetched, gen, left>>

Newest(id) == Max(ring[id] \cup {0})

\* Registered still?  Then read the newest snapshot, if there is one.
Check(c) ==
    /\ pc[c] = "check"
    /\ LET id == of[c]
           newest == Newest(id)
       IN IF StillRegistered(id) /\ (newest = 0 \/ bytes[id][newest] # None)
          THEN /\ prior' = [prior EXCEPT ![c] = IF newest = 0 THEN None ELSE bytes[id][newest]]
               /\ Goto(c, "fetch")
               /\ UNCHANGED <<registry, evidence, of, seen, fetched, gen, left>>
          ELSE Fail(c)

\* The page is fetched.  A failed fetch is logged and never captured.
Fetch(c) ==
    /\ pc[c] = "fetch"
    /\ \/ Goto(c, "logLock") /\ UNCHANGED <<registry, evidence, local>>
       \/ \E content \in Content :
            /\ StillRegistered(of[c])
            /\ Newest(of[c]) < MaxGen
            /\ fetched' = [fetched EXCEPT ![c] = content]
            /\ Goto(c, "snapLock")
            /\ UNCHANGED <<registry, evidence, of, seen, prior, gen, left>>
       \/ ~StillRegistered(of[c]) /\ Fail(c)

\* Mutant: the next generation is one more than the surviving ones.
NextGenByCount(id) == Cardinality(ring[id]) + 1

NextGen(id) == Newest(id) + 1

\* Mutant: the generation is listed before its bytes are written.
OpenBytesListed(c) ==
    /\ pc[c] = "snapCheck"
    /\ StillRegistered(of[c])
    /\ gen' = [gen EXCEPT ![c] = NextGen(of[c])]
    /\ bytes' = [bytes EXCEPT ![of[c]][gen'[c]] = Torn]
    /\ ring' = [ring EXCEPT ![of[c]] = @ \cup {gen'[c]}]
    /\ Goto(c, "write")
    /\ UNCHANGED <<registry, captured, log, unlogged, purge, of, seen, prior, fetched, left>>

\* appendSnapshot under its lock: the bytes file is opened and truncated,
OpenBytes(c) ==
    /\ pc[c] = "snapCheck"
    /\ \/ /\ StillRegistered(of[c])
          /\ gen' = [gen EXCEPT ![c] = NextGen(of[c])]
          /\ bytes' = [bytes EXCEPT ![of[c]][gen'[c]] = Torn]
          /\ Goto(c, "write")
          /\ UNCHANGED <<registry, ring, captured, log, unlogged, purge,
                         of, seen, prior, fetched, left>>
       \/ (FileErrors \/ ~StillRegistered(of[c])) /\ Fail(c)

\* written,
WriteBytes(c) ==
    /\ pc[c] = "write"
    /\ \/ /\ bytes' = [bytes EXCEPT ![of[c]][gen[c]] = fetched[c]]
          /\ Goto(c, "meta")
          /\ UNCHANGED <<registry, ring, captured, log, unlogged, purge, local>>
       \/ FileErrors /\ Fail(c)

\* What to prune: all but the newest Keep of the listing, and bytes that no
\* listed generation owns.
Excess(listing, present) ==
    {g \in listing : Cardinality({h \in listing : h > g}) >= Keep} \cup (present \ listing)

\* and its metadata atomically put in place.  The generation exists now.
WriteMeta(c) ==
    /\ pc[c] = "meta"
    /\ \/ LET id == of[c]
              listing == ring[id] \cup {gen[c]}
          IN /\ ring' = [ring EXCEPT ![id] = listing]
             /\ captured' = [captured EXCEPT ![id] = Append(@, fetched[c])]
             /\ left' = [left EXCEPT ![c] = Excess(listing, {g \in Gen : bytes[id][g] # None})]
             /\ Goto(c, "prune")
             /\ UNCHANGED <<registry, bytes, log, unlogged, purge,
                            of, seen, prior, fetched, gen>>
       \/ FileErrors /\ Fail(c)

\* Old generations go one unlink at a time, metadata first; an unlink that
\* fails, other than on a missing file, fails the tick.
Prune(c) ==
    /\ pc[c] = "prune"
    /\ \/ \E g \in left[c] :
            IF g \in ring[of[c]]
            THEN /\ ring' = [ring EXCEPT ![of[c]] = @ \ {g}]
                 /\ UNCHANGED <<bytes, left>>
            ELSE /\ bytes' = [bytes EXCEPT ![of[c]][g] = None]
                 /\ left' = [left EXCEPT ![c] = @ \ {g}]
                 /\ UNCHANGED ring
       \/ left[c] = {} /\ UNCHANGED <<ring, bytes, left>>
    /\ Goto(c, IF left[c] = {} THEN "logLock" ELSE "prune")
    /\ UNCHANGED <<registry, captured, log, unlogged, purge, of, seen, prior, fetched, gen>>

PruneFails(c) == FileErrors /\ pc[c] = "prune" /\ left[c] # {} /\ Fail(c)

\* appendChangeLog under its lock: registered still?
LogCheck(c) ==
    /\ pc[c] \in {"logCheck", "failCheck"}
    /\ \/ /\ StillRegistered(of[c])
          /\ Goto(c, IF pc[c] = "logCheck" THEN "logWrite" ELSE "failWrite")
          /\ UNCHANGED <<registry, evidence, local>>
       \/ (FileErrors \/ ~StillRegistered(of[c])) /\ Fail(c)

\* The verdict on what was fetched, against the newest content before it.
Verdict(before, content) ==
    IF before = None THEN "baseline"
    ELSE IF content \in Moved THEN "moved"
    ELSE IF before = content THEN "no-change" ELSE "change"

LogEntry(c) ==
    IF gen[c] = 0 THEN [kind |-> "error", gen |-> 0]
    ELSE [kind |-> Verdict(prior[c], fetched[c]), gen |-> gen[c]]

LogWrite(c) ==
    /\ pc[c] \in {"logWrite", "failWrite"}
    /\ \/ /\ log' = [log EXCEPT ![of[c]] =
                 IF Unreadable \in @ THEN @ ELSE @ \cup {LogEntry(c)}]
          /\ End(c)
          /\ UNCHANGED <<registry, snapshots, unlogged, purge>>
       \/ FileErrors /\ Fail(c)

-----------------------------------------------------------------------------
\* watch add, watch remove.

\* The command has waited for the registry lock (one that gave up waiting has
\* done nothing), and reads the registry.
ReadRegistry(c) ==
    /\ pc[c] = "idle"
    /\ RegistryFree
    /\ seen' = [seen EXCEPT ![c] = registry]
    /\ Goto(c, "addWrite") \/ Goto(c, "removeWrite")
    /\ UNCHANGED <<registry, evidence, of, prior, fetched, gen, left>>

WithTarget(reg, id, name) ==
    [named |-> [reg.named EXCEPT ![id] = name], retired |-> reg.retired]

\* addTarget: a name nobody has, and an id nobody has or had.
AddWrite(c) ==
    /\ pc[c] = "addWrite"
    /\ \E name \in Name :
         \/ /\ \A id \in Id : seen[c].named[id] # name
            /\ \E id \in Id \ (Live(seen[c]) \cup seen[c].retired) :
                 registry' = WithTarget(seen[c], id, name)
         \/ /\ FileErrors \/ \E id \in Id : seen[c].named[id] = name
            /\ UNCHANGED registry
    /\ End(c)
    /\ UNCHANGED evidence

WithoutTarget(reg, id) ==
    [named |-> [reg.named EXCEPT ![id] = None], retired |-> reg.retired \cup {id}]

\* removeTarget: the row goes; with --purge the evidence too, still under the
\* registry lock, and under both locks of the target.
RemoveWrite(c) ==
    /\ pc[c] = "removeWrite"
    /\ \/ \E id \in Live(seen[c]) :
            /\ registry' = WithoutTarget(seen[c], id)
            /\ \/ End(c)
               \/ /\ Goto(c, "purgeTick")
                  /\ of' = [of EXCEPT ![c] = id]
                  /\ UNCHANGED <<seen, prior, fetched, gen, left>>
       \/ (FileErrors \/ Live(seen[c]) = {}) /\ End(c) /\ UNCHANGED registry
    /\ UNCHANGED evidence

\* The directory's entries are removed in parallel, locks apart; the directory
\* itself follows once the locks are released.
PurgeEntry(c) ==
    /\ pc[c] = "purging"
    /\ LET id == of[c] IN
       \/ /\ log[id] # {}
          /\ log' = [log EXCEPT ![id] = {}]
          /\ UNCHANGED <<ring, bytes>>
       \/ /\ \E g \in Gen : bytes[id][g] # None
          /\ ring' = [ring EXCEPT ![id] = {}]
          /\ bytes' = [bytes EXCEPT ![id] = [g \in Gen |-> None]]
          /\ UNCHANGED log
    /\ purge' = [purge EXCEPT ![of[c]] = "begun"]
    /\ UNCHANGED <<registry, captured, unlogged, pc, local>>

PurgeEnds(c) ==
    /\ pc[c] = "purging"
    /\ log[of[c]] = {} /\ \A g \in Gen : bytes[of[c]][g] = None
    /\ purge' = [purge EXCEPT ![of[c]] = "done"]
    /\ captured' = [captured EXCEPT ![of[c]] = <<>>]
    /\ unlogged' = [unlogged EXCEPT ![of[c]] = {}]
    /\ End(c)
    /\ UNCHANGED <<registry, ring, bytes, log>>

\* The process dies.  A log line that is being written may be torn.
Crash(c) ==
    /\ pc[c] # "idle"
    /\ \/ UNCHANGED log
       \/ /\ pc[c] \in {"logWrite", "failWrite"}
          /\ log' = [log EXCEPT ![of[c]] = {Unreadable}]
    /\ GivesUpOn(c)
    /\ End(c)
    /\ UNCHANGED <<registry, snapshots, purge>>

Next == \E c \in Command :
    \/ \E id \in Ticked : StartTick(c, id)
    \/ TakeTickLock(c) \/ TakeAppendLock(c) \/ LockTimeout(c)
    \/ Check(c) \/ Fetch(c) \/ OpenBytes(c) \/ WriteBytes(c) \/ WriteMeta(c)
    \/ Prune(c) \/ PruneFails(c) \/ LogCheck(c) \/ LogWrite(c)
    \/ ReadRegistry(c) \/ AddWrite(c) \/ RemoveWrite(c)
    \/ PurgeEntry(c) \/ PurgeEnds(c) \/ Crash(c)

Spec == Init /\ [][Next]_vars

-----------------------------------------------------------------------------
NotPurged == {id \in Id : purge[id] = "no"}

TrueEntry(id, g) ==
    [kind |-> Verdict(IF g = 1 THEN None ELSE captured[id][g - 1], captured[id][g]), gen |-> g]

\* Every generation's verdict gets into the change log, with ticks that overlap
\* and die, targets that are removed and names reused: but for a tick that died
\* or failed after its generation was durable.
EveryChangeLogged ==
    \A id \in NotPurged : Unreadable \in log[id] \/ \A g \in DOMAIN captured[id] :
        \/ TrueEntry(id, g) \in log[id]
        \/ g \in unlogged[id]
        \/ \E c \in Command : of[c] = id /\ gen[c] = g /\ Unlogged(c)

\* What the change log says of a generation is the difference between it and
\* the generation before: no tick judges against another prior.
EntriesAreTrue ==
    \A id \in NotPurged : \A e \in log[id] :
        e.gen # 0 => e.gen \in DOMAIN captured[id] /\ e = TrueEntry(id, e.gen)

\* The newest listed generation is the last one captured, under its number, and
\* its bytes are whole, whatever died in between: the next tick can read it.
NewestReads ==
    \A id \in NotPurged :
        ring[id] # {} => /\ Newest(id) = Len(captured[id])
                         /\ bytes[id][Newest(id)] = captured[id][Newest(id)]

\* A purged target's evidence is never recreated, by ticks that were under way
\* or had to wait, or by a target that has the id as its name.
PurgedStaysGone ==
    \A id \in Id : purge[id] = "done" =>
        ring[id] = {} /\ log[id] = {} /\ \A g \in Gen : bytes[id][g] = None
=============================================================================
