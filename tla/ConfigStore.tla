------------------------------ MODULE ConfigStore ------------------------------
(***************************************************************************)
(* config.json and its .bak: lib/config-store.ts, with the commands that   *)
(* write it.  `config set` and `config unset` hold the config-write lock   *)
(* from their read to their write.  The onboarding wizard (commands/       *)
(* init.ts), doctor's promotion of a verified key and the one-time hint    *)
(* write without the lock, from a copy they read before: seconds before,   *)
(* or minutes, while a person answers the wizard's prompts.                *)
(*                                                                         *)
(* A config is a function on its slots.  fallback stands for the other     *)
(* top-level switches (journal, fanout, fusion) too, and a setting is set  *)
(* or not.  The lock is the one AsyncFileLock specifies, for holders that  *)
(* are not displaced; its holder follows from pc.                          *)
(***************************************************************************)
EXTENDS Integers, FiniteSets

CONSTANTS
    Process,      \* slots in which the user's scoutline processes run
    Provider,     \* providers that can be configured
    Key,          \* API keys
    Set,          \* the value of a setting that is set
    MaxCommands,  \* bound on the commands, a wizard's menu actions included
    MaxFaults,    \* bound on the writes that fail and the processes that die
    Absent,       \* there is no file
    Corrupt,      \* a file from which no config parses
    None

Setting == {"routing", "fallback"}
Slot == Provider \cup Setting \cup {"agents", "hint"}

ASSUME ConstantsAssumption ==
    /\ Provider \cap {"routing", "fallback", "agents", "hint"} = {}
    /\ MaxCommands \in Nat /\ MaxFaults \in Nat
    /\ Set # None /\ Absent # Corrupt

VARIABLES
    live,      \* config.json
    bak,       \* config.json.bak
    pc,        \* where each process is
    kind,      \* the command it runs
    slot,      \* the slot the command is about
    next,      \* the config it is going to write
    copy,      \* the wizard menu's own copy of the config
    old,       \* the bytes it read for the backup
    onboarded, \* the wizard found providers, and goes on to its menu
    empties,   \* the write may leave no providers (allowEmpty)
    commands, faults,
    raced,     \* ghost: since which of its reads another process has written
    unsaved    \* ghost: the backup of the config under replacement failed

local == <<kind, slot, next, copy, old, onboarded, empties>>
vars == <<live, bak, pc, local, commands, faults, raced, unsaved>>

Seat == [key : Key, verified : BOOLEAN]
Config == {c \in [Slot -> Seat \cup {Set, None}] :
              \A s \in Slot : c[s] \in {None} \cup (IF s \in Provider THEN Seat ELSE {Set})}
Empty == [s \in Slot |-> None]

File == Config \cup {Absent, Corrupt}

Kind == {"set", "unset", "promote", "hint", "agents", "fresh", "menu"}
Writing == {"backup", "rotate", "replace"}
Location == {"idle", "lock", "inspect", "load", "menu", "guard", "mirror"} \cup Writing

Locked(c) == kind[c] \in {"set", "unset"} /\ pc[c] \in Writing \cup {"guard"}

TypeOK ==
    /\ live \in File
    /\ bak \in File
    /\ pc \in [Process -> Location]
    /\ kind \in [Process -> Kind \cup {None}]
    /\ slot \in [Process -> Slot \cup {None}]
    /\ next \in [Process -> Config \cup {None}]
    /\ copy \in [Process -> Config \cup {None}]
    /\ old \in [Process -> File \cup {None}]
    /\ onboarded \in [Process -> BOOLEAN]
    /\ empties \in [Process -> BOOLEAN]
    /\ commands \in 0..MaxCommands
    /\ faults \in 0..MaxFaults
    /\ raced \in [Process -> SUBSET {"read", "guard", "backup"}]
    /\ unsaved \in [Process -> BOOLEAN]

Seated(config) == {p \in Provider : config[p] # None}
Populated(file) == file \in Config /\ Seated(file) # {}

Init ==
    /\ live \in {Absent, Corrupt}
                \cup {[Empty EXCEPT ![p] = [key |-> k, verified |-> FALSE], !["routing"] = Set] :
                         p \in Provider, k \in Key}
    /\ bak = Absent
    /\ pc = [c \in Process |-> "idle"]
    /\ kind = [c \in Process |-> None]
    /\ slot = [c \in Process |-> None]
    /\ next = [c \in Process |-> None]
    /\ copy = [c \in Process |-> None]
    /\ old = [c \in Process |-> None]
    /\ onboarded = [c \in Process |-> FALSE]
    /\ empties = [c \in Process |-> FALSE]
    /\ commands = 0
    /\ faults = 0
    /\ raced = [c \in Process |-> {}]
    /\ unsaved = [c \in Process |-> FALSE]

-----------------------------------------------------------------------------
Goto(c, l) == pc' = [pc EXCEPT ![c] = l]
Fresh(c) == raced' = [raced EXCEPT ![c] = {}]
files == <<live, bak>>
counts == <<commands, faults>>

EndLocal(c) ==
    /\ Goto(c, "idle")
    /\ kind' = [kind EXCEPT ![c] = None]
    /\ slot' = [slot EXCEPT ![c] = None]
    /\ next' = [next EXCEPT ![c] = None]
    /\ copy' = [copy EXCEPT ![c] = None]
    /\ old' = [old EXCEPT ![c] = None]
    /\ onboarded' = [onboarded EXCEPT ![c] = FALSE]
    /\ empties' = [empties EXCEPT ![c] = FALSE]
    /\ unsaved' = [unsaved EXCEPT ![c] = FALSE]

Fault == faults < MaxFaults /\ faults' = faults + 1 /\ UNCHANGED commands

End(c) == EndLocal(c) /\ Fresh(c) /\ UNCHANGED <<files, counts>>

Began(c, k, s) ==
    /\ pc[c] = "idle"
    /\ commands < MaxCommands
    /\ commands' = commands + 1
    /\ kind' = [kind EXCEPT ![c] = k]
    /\ slot' = [slot EXCEPT ![c] = s]
    /\ UNCHANGED <<files, next, copy, old, empties, faults, raced, unsaved>>

\* config set, config unset: setConfigValue and unsetConfigValue.
StartSetting(c) ==
    /\ \E k \in {"set", "unset"}, s \in Setting : Began(c, k, s)
    /\ Goto(c, "lock")
    /\ UNCHANGED onboarded

\* doctor reads the config, and its probe of the key it found succeeds.
StartPromotion(c) ==
    /\ live \in Config
    /\ \E p \in Seated(live) : Began(c, "promote", p)
    /\ Goto(c, "inspect")
    /\ UNCHANGED onboarded

\* main: credentials from the environment only, and no hint shown yet.
StartHint(c) ==
    /\ live # Corrupt
    /\ ~Populated(live)
    /\ live \in Config => live["hint"] = None
    /\ Began(c, "hint", "hint")
    /\ Goto(c, "inspect")
    /\ UNCHANGED onboarded

\* runFreshOnboarding: to the menu when there are providers, after the agent step.
StartInit(c) ==
    /\ live # Corrupt
    /\ Began(c, "agents", "agents")
    /\ onboarded' = [onboarded EXCEPT ![c] = Populated(live)]
    /\ Goto(c, "inspect")

\* repairCorruptConfig: the store has no hook that sets the corrupt file aside, so
\* the user has agreed to go on without; the file stays where it is until the
\* first write, and the fresh flow goes on as for an absent one.
StartRepair(c) ==
    /\ live = Corrupt
    /\ Began(c, "agents", "agents")
    /\ Goto(c, "inspect")
    /\ UNCHANGED onboarded

-----------------------------------------------------------------------------
\* What a command writes, given the file it has read.

OrEmpty(file) == IF file \in Config THEN file ELSE Empty

\* setConfigValue; an unset of what is not set fails.
WithSetting(file, k, s) == [OrEmpty(file) EXCEPT ![s] = IF k = "set" THEN Set ELSE None]

\* Mutant: the lock is not waited for.
LockFreeAlways == TRUE
LockFree == \A d \in Process : ~Locked(d)

LockAndRead(c) ==
    /\ pc[c] = "lock"
    /\ LockFree
    /\ IF live = Corrupt \/ (kind[c] = "unset" /\ OrEmpty(live)[slot[c]] = None)
       THEN End(c)
       ELSE /\ next' = [next EXCEPT ![c] = WithSetting(live, kind[c], slot[c])]
            /\ Goto(c, "guard")
            /\ Fresh(c)
            /\ UNCHANGED <<files, counts, kind, slot, copy, old, onboarded, empties, unsaved>>

LockTimeout(c) ==
    /\ pc[c] = "lock"
    /\ ~LockFree
    /\ End(c)

\* createDefaultVerificationPromoter, createDefaultHintShownStore.
Wants(c) ==
    IF kind[c] = "promote"
    THEN live \in Config /\ live[slot[c]] # None /\ ~live[slot[c]].verified
    ELSE live = Absent \/ (live \in Config /\ live["hint"] = None)

Promoted(config, p) == [config EXCEPT ![p].verified = TRUE]

WithHint(file) == [OrEmpty(file) EXCEPT !["hint"] = Set]

InspectMarker(c) ==
    /\ pc[c] = "inspect" /\ kind[c] \in {"promote", "hint"}
    /\ IF ~Wants(c)
       THEN End(c)
       ELSE /\ next' = [next EXCEPT ![c] = IF kind[c] = "promote" THEN Promoted(live, slot[c])
                                           ELSE WithHint(live)]
            /\ Goto(c, "guard")
            /\ Fresh(c)
            /\ UNCHANGED <<files, counts, kind, slot, copy, old, onboarded, empties, unsaved>>

\* runAgentRegistrationStep: the choices go under what the config holds, and
\* fallback is switched on where it has no value.
WithAgents(file) ==
    [OrEmpty(file) EXCEPT !["agents"] = Set, !["fallback"] = Set]

AfterAgents(c) == IF onboarded[c] THEN "load" ELSE "inspect"

\* The step ends without a write when no tool is left to ask about.
SkipAgents(c) ==
    /\ pc[c] = "inspect" /\ kind[c] = "agents"
    /\ kind' = [kind EXCEPT ![c] = IF onboarded[c] THEN "menu" ELSE "fresh"]
    /\ slot' = [slot EXCEPT ![c] = None]
    /\ Goto(c, AfterAgents(c))
    /\ UNCHANGED <<files, counts, next, copy, old, onboarded, empties, raced, unsaved>>

InspectAgents(c) ==
    /\ pc[c] = "inspect" /\ kind[c] = "agents"
    /\ next' = [next EXCEPT ![c] = WithAgents(live)]
    /\ Goto(c, "guard")
    /\ Fresh(c)
    /\ UNCHANGED <<files, counts, kind, slot, copy, old, onboarded, empties, unsaved>>

\* runFreshFlow after its prompts: buildConfig, and the agents' choices that
\* are on file by then.  Routing and the hint are not carried over.
FreshConfigs(file) ==
    {[s \in Slot |-> IF s \in Provider THEN seats[s]
                     ELSE IF s = "fallback" THEN Set
                     ELSE IF s = "agents" THEN OrEmpty(file)["agents"]
                     ELSE None] : seats \in [Provider -> Seat \cup {None}]}

InspectFresh(c) ==
    /\ pc[c] = "inspect" /\ kind[c] = "fresh"
    /\ \E config \in FreshConfigs(live) :
          /\ next' = [next EXCEPT ![c] = config]
          /\ empties' = [empties EXCEPT ![c] = @ /\ Seated(config) = {}]
    /\ Goto(c, "guard")
    /\ Fresh(c)
    /\ UNCHANGED <<files, counts, kind, slot, copy, old, onboarded, unsaved>>

\* runFreshOnboarding hands the menu the config it finds after the agent step.
\* (When the file is gone or corrupt by then, it hands on the one it found at
\* its start, which this model does not keep: the wizard ends.)
LoadMenu(c) ==
    /\ pc[c] = "load"
    /\ IF live \in Config
       THEN /\ copy' = [copy EXCEPT ![c] = live]
            /\ Goto(c, "menu")
            /\ Fresh(c)
            /\ UNCHANGED <<files, counts, kind, slot, next, old, onboarded, empties, unsaved>>
       ELSE End(c)

\* One action of runReconfigMenu, written from the menu's copy.
MenuWrites(c, s, value, asked) ==
    /\ pc[c] = "menu"
    /\ commands < MaxCommands
    /\ commands' = commands + 1
    /\ slot' = [slot EXCEPT ![c] = s]
    /\ next' = [next EXCEPT ![c] = [copy[c] EXCEPT ![s] = value]]
    /\ empties' = [empties EXCEPT ![c] = asked]
    /\ Goto(c, "guard")
    /\ UNCHANGED <<files, faults, kind, copy, old, onboarded, raced, unsaved>>

\* addProvider, editProviderKey: verified when the wizard's probe says so.
MenuSeat(c) ==
    \E p \in Provider, seat \in Seat : MenuWrites(c, p, seat, FALSE)

MenuRemove(c) ==
    /\ pc[c] = "menu"
    /\ \E p \in Seated(copy[c]) : MenuWrites(c, p, None, Seated(copy[c]) = {p})

\* editRouting, changeFallback, changeJournal.
MenuSetting(c) ==
    /\ \/ \E value \in {Set, None} : MenuWrites(c, "routing", value, FALSE)
       \/ MenuWrites(c, "fallback", Set, FALSE)

MenuRerun(c) ==
    /\ pc[c] = "menu"
    /\ kind' = [kind EXCEPT ![c] = "agents"]
    /\ slot' = [slot EXCEPT ![c] = "agents"]
    /\ copy' = [copy EXCEPT ![c] = None]
    /\ onboarded' = [onboarded EXCEPT ![c] = FALSE]
    /\ empties' = [empties EXCEPT ![c] = TRUE]
    /\ Goto(c, "inspect")
    /\ UNCHANGED <<files, counts, next, old, raced, unsaved>>

MenuCancel(c) == pc[c] = "menu" /\ End(c)

\* After a write: Object.assign(config, fresh.config) gives the copy every key
\* that is on file, and leaves it the keys that are not.
Mirrored(config, file) == [s \in Slot |-> IF s \in Provider \/ file[s] # None THEN file[s] ELSE config[s]]

Mirror(c) ==
    /\ pc[c] = "mirror"
    /\ copy' = [copy EXCEPT ![c] = IF live \in Config THEN Mirrored(@, live) ELSE @]
    /\ slot' = [slot EXCEPT ![c] = None]
    /\ Goto(c, "menu")
    /\ Fresh(c)
    /\ UNCHANGED <<files, counts, kind, next, old, onboarded, empties, unsaved>>

-----------------------------------------------------------------------------
\* writeConfig.

\* Mutant: an empty config is written over a populated one.
RefusesNever(c) == FALSE
Refuses(c) == Seated(next[c]) = {} /\ ~(empties[c] /\ kind[c] # "agents") /\ Populated(live)

Guard(c) ==
    /\ pc[c] = "guard"
    /\ IF Refuses(c)
       THEN End(c)
       ELSE /\ Goto(c, "backup")
            /\ raced' = [raced EXCEPT ![c] = @ \ {"guard"}]
            /\ UNCHANGED <<files, counts, local, unsaved>>

\* Nothing is backed up when there is no file yet, or it cannot be read.
ReadBackup(c) ==
    /\ pc[c] = "backup"
    /\ raced' = [raced EXCEPT ![c] = @ \ {"backup"}]
    /\ IF live = Absent
       THEN Goto(c, "replace") /\ UNCHANGED old
       ELSE Goto(c, "rotate") /\ old' = [old EXCEPT ![c] = live]
    /\ UNCHANGED <<files, counts, kind, slot, next, copy, onboarded, empties, unsaved>>

\* Mutant: the backup is of the config being written.
BytesNext(c) == next[c]
Bytes(c) == old[c]

Rotated(c) ==
    [d \in Process |-> IF d # c /\ pc[d] = "replace" THEN raced[d] \cup {"backup"} ELSE raced[d]]

Rotate(c) ==
    /\ pc[c] = "rotate"
    /\ bak' = Bytes(c)
    /\ old' = [old EXCEPT ![c] = None]
    /\ Goto(c, "replace")
    /\ raced' = Rotated(c)
    /\ UNCHANGED <<live, counts, kind, slot, next, copy, onboarded, empties, unsaved>>

\* An error of atomicReplaceFile: before the rename, or after it when the
\* directory cannot be synced.
RotateFails(c) ==
    /\ pc[c] = "rotate"
    /\ Fault
    /\ bak' \in {bak, Bytes(c)}
    /\ old' = [old EXCEPT ![c] = None]
    /\ Goto(c, "replace")
    /\ unsaved' = [unsaved EXCEPT ![c] = TRUE]
    /\ raced' = Rotated(c)
    /\ UNCHANGED <<live, kind, slot, next, copy, onboarded, empties>>

\* Whose copy of the config c's replacement makes stale; between two holders
\* of the lock there is none.
Notes(c, d) ==
    (IF pc[d] \in Writing \cup {"menu", "guard"} /\ ~(Locked(c) /\ Locked(d)) THEN {"read"} ELSE {})
    \cup (IF pc[d] \in Writing /\ Seated(next[c]) # {} THEN {"guard"} ELSE {})
    \cup (IF pc[d] \in {"rotate", "replace"} THEN {"backup"} ELSE {})

Replaced(c) == [d \in Process |-> IF d = c THEN {} ELSE raced[d] \cup Notes(c, d)]

AfterWrite(c) ==
    IF kind[c] = "menu" THEN "mirror" ELSE AfterAgents(c)

Replace(c) ==
    /\ pc[c] = "replace"
    /\ live' = next[c]
    /\ raced' = Replaced(c)
    /\ IF kind[c] \in {"menu", "agents"}
       THEN /\ Goto(c, AfterWrite(c))
            /\ kind' = [kind EXCEPT ![c] = IF @ = "agents" /\ ~onboarded[c] THEN "fresh" ELSE "menu"]
            /\ slot' = [slot EXCEPT ![c] = None]
            /\ next' = [next EXCEPT ![c] = None]
            /\ empties' = [empties EXCEPT ![c] = @ /\ kind[c] = "agents"]
            /\ unsaved' = [unsaved EXCEPT ![c] = FALSE]
            /\ UNCHANGED <<copy, old, onboarded>>
       ELSE EndLocal(c)
    /\ UNCHANGED <<bak, counts>>

\* The command fails, with the file replaced or not; the wizard exits.
ReplaceFails(c) ==
    /\ pc[c] = "replace"
    /\ Fault
    /\ \/ live' = live /\ Fresh(c)
       \/ live' = next[c] /\ raced' = Replaced(c)
    /\ EndLocal(c)
    /\ UNCHANGED <<bak>>

Crash(c) ==
    /\ pc[c] # "idle"
    /\ Fault
    /\ EndLocal(c)
    /\ Fresh(c)
    /\ UNCHANGED <<files>>

Next ==
    \E c \in Process :
       \/ StartSetting(c) \/ StartPromotion(c) \/ StartHint(c) \/ StartInit(c) \/ StartRepair(c)
       \/ LockAndRead(c) \/ LockTimeout(c)
       \/ InspectMarker(c) \/ SkipAgents(c) \/ InspectAgents(c) \/ InspectFresh(c)
       \/ LoadMenu(c) \/ MenuSeat(c) \/ MenuRemove(c) \/ MenuSetting(c)
       \/ MenuRerun(c) \/ MenuCancel(c) \/ Mirror(c)
       \/ Guard(c) \/ ReadBackup(c) \/ Rotate(c) \/ RotateFails(c)
       \/ Replace(c) \/ ReplaceFails(c) \/ Crash(c)

Spec == Init /\ [][Next]_vars

-----------------------------------------------------------------------------
\* Properties.

Replaces(c) == pc[c] = "replace" /\ pc'[c] # "replace" /\ live' # live

Changed == {s \in Slot : OrEmpty(live)[s] # live'[s]}

\* What a command is about: an agent step also sets fallback when it has no
\* value, and a fresh onboarding discards all but the agents' choices.
Own(c) ==
    IF kind[c] = "fresh" THEN Slot \ {"agents"}
    ELSE IF kind[c] = "agents" THEN {"agents", "fallback"}
    ELSE {slot[c]}

\* The settings the menu's stale copy can bring back.
Resurrected == {s \in Slot \ Provider : OrEmpty(live)[s] = None}

\* A replacement of config.json undoes no change of anybody else's, unless that
\* change came between the command's own read and its write: set and unset undo
\* nothing of each other's at all, the hint and doctor's promotion touch their
\* own field, a fresh onboarding keeps the agents' choices, and the menu's
\* second and later actions bring back at most what was removed.
WritesOnlyItsChange ==
    [][\A c \in Process :
          (Replaces(c) /\ "read" \notin raced[c])
              => Changed \subseteq Own(c) \cup (IF kind[c] = "menu" THEN Resurrected ELSE {})]_vars

\* A config that has providers is replaced by one without only where the user
\* asked for that (the last one removed, a rerun that picks none), or where the
\* providers came after writeConfig had looked for them.
PopulatedStaysPopulated ==
    [][\A c \in Process :
          (Replaces(c) /\ Populated(live) /\ ~Populated(live'))
              => (empties[c] \/ "guard" \in raced[c])]_vars

\* Every replacement leaves the config it replaced in config.json.bak, so that
\* a bad write is one rename from recovery: unless the backup failed, or another
\* process wrote either file between the two.
BackupIsWhatWasReplaced ==
    [][\A c \in Process :
          (Replaces(c) /\ live # Absent /\ ~unsaved[c] /\ "backup" \notin raced[c])
              => bak = live]_vars

=============================================================================
