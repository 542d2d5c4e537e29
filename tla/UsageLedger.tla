----------------------------- MODULE UsageLedger -----------------------------
(***************************************************************************)
(* usage.json, the count of billable calls by UTC day (usage-ledger.ts,    *)
(* with the report of commands/usage.ts).  Every attempt of a provider     *)
(* operation is recorded before the provider is called: the event gets its *)
(* day, waits for the lock, and is merged into what the file holds, which  *)
(* is replaced as a whole.  The first event of a new day drops the days    *)
(* that are out of the retention window.  A file that cannot be read is    *)
(* taken for an empty ledger; an event that cannot be written is dropped   *)
(* with a warning, and the call goes on either way.                        *)
(*                                                                         *)
(* The ledger is shown for one provider and capability: the number of      *)
(* attempts of each day, 0 where the day has no entry.  The lock is the    *)
(* one AsyncFileLock specifies, for holders that are not displaced.        *)
(***************************************************************************)
EXTENDS Naturals, FiniteSets

CONSTANTS
    Call,       \* operations under way, of one process or of several
    Retention,  \* days that are kept: 90
    MaxLate,    \* days between an event's stamp and its write, at most: the lock
                \* wait is bounded by seconds
    LastDay,    \* bound on the clock
    MaxEvents   \* bound on the events of one day

Nobody == "nobody"
Orphan == "orphan"

ASSUME LedgerAssumption ==
    /\ IsFiniteSet(Call) /\ Nobody \notin Call /\ Orphan \notin Call
    /\ Retention \in Nat /\ MaxLate \in Nat /\ MaxLate < Retention
    /\ LastDay \in Nat /\ MaxEvents \in Nat

VARIABLES
    today,   \* the UTC day
    at,      \* where each call is in record()
    day,     \* the day each event is stamped with
    held,    \* the ledger each holder of the lock has read
    lock,    \* nobody, the holder, or "orphan" after the holder died
    ledger,  \* the file: how many attempts each day has
    begun,   \* ghost: events of each day
    told,    \* ghost: events recorded without a warning
    wiped    \* ghost: the history was replaced after a read that failed

ledgerVars == <<today, at, day, held, lock, ledger, begun, told, wiped>>

Day == 0..LastDay
NoUsage == [d \in Day |-> 0]

LedgerTypeOK ==
    /\ today \in Day
    /\ at \in [Call -> {"idle", "lock", "read", "write", "blind", "release"}]
    /\ day \in [Call -> Day]
    /\ held \in [Call -> [Day -> Nat]]
    /\ lock \in Call \cup {Nobody, Orphan}
    /\ ledger \in [Day -> Nat]
    /\ begun \in [Day -> Nat] /\ told \in [Day -> Nat]
    /\ wiped \in BOOLEAN

LedgerInit ==
    /\ today = 0
    /\ at = [c \in Call |-> "idle"]
    /\ day = [c \in Call |-> 0]
    /\ held = [c \in Call |-> NoUsage]
    /\ lock = Nobody
    /\ ledger = NoUsage
    /\ begun = NoUsage /\ told = NoUsage
    /\ wiped = FALSE

-----------------------------------------------------------------------------
\* Mutant: one day more is kept.
PrunedLate(l, d) == [e \in Day |-> IF e + Retention >= d THEN l[e] ELSE 0]

\* pruneExpiredDays: the reference day and the Retention - 1 before it are kept.
Pruned(l, d) == [e \in Day |-> IF e + Retention > d THEN l[e] ELSE 0]

\* mergeEventIntoLedger: only the first event of a day prunes.
Merged(l, d) ==
    LET base == IF l[d] = 0 THEN Pruned(l, d) ELSE l
    IN [base EXCEPT ![d] = @ + 1]

Move(c, l) == at' = [at EXCEPT ![c] = l]

\* The lock is given up, in the finally of withAsyncFileLock.
Leave(c) ==
    /\ Move(c, "idle")
    /\ held' = [held EXCEPT ![c] = NoUsage]
    /\ lock' = Nobody

\* emitConsumption: the event is stamped before anything is waited for.
Record(c) ==
    /\ at[c] = "idle"
    /\ begun[today] < MaxEvents
    /\ Move(c, "lock")
    /\ day' = [day EXCEPT ![c] = today]
    /\ begun' = [begun EXCEPT ![today] = @ + 1]
    /\ UNCHANGED <<today, held, lock, ledger, told, wiped>>

\* Mutant: the ledger is read and replaced without waiting for the others.
FreeAlways == TRUE

Free == lock = Nobody

AcquireLock(c) ==
    /\ at[c] = "lock"
    /\ Free
    /\ lock' = c
    /\ Move(c, "read")
    /\ UNCHANGED <<today, day, held, ledger, begun, told, wiped>>

\* LockTimeoutError: the warning, and the call goes on uncounted.
LockTimeout(c) ==
    /\ at[c] = "lock"
    /\ Move(c, "idle")
    /\ UNCHANGED <<today, day, held, lock, ledger, begun, told, wiped>>

\* A lock left by a dead holder is broken once it is stale.
BreakStaleLock ==
    /\ lock = Orphan
    /\ lock' = Nobody
    /\ UNCHANGED <<today, at, day, held, ledger, begun, told, wiped>>

\* readUsageLedger.
ReadLedger(c) ==
    /\ at[c] = "read"
    /\ held' = [held EXCEPT ![c] = ledger]
    /\ Move(c, "write")
    /\ UNCHANGED <<today, day, lock, ledger, begun, told, wiped>>

\* It cannot be read, or does not parse: a warning, and the history is ignored.
ReadFails(c) ==
    /\ at[c] = "read"
    /\ ledger # NoUsage
    /\ Move(c, "blind")
    /\ UNCHANGED <<today, day, held, lock, ledger, begun, told, wiped>>

\* The rename of atomicReplaceFile.
WriteLedger(c) ==
    /\ at[c] \in {"write", "blind"}
    /\ ledger' = Merged(held[c], day[c])
    /\ wiped' = (wiped \/ at[c] = "blind")
    /\ Move(c, "release")
    /\ UNCHANGED <<today, day, held, lock, begun, told>>

\* An error before the rename leaves the file, one after it (the directory
\* cannot be synced) does not; the warning says the call was not counted.
WriteFails(c) ==
    /\ at[c] \in {"write", "blind", "release"}
    /\ Leave(c)
    /\ UNCHANGED <<today, day, ledger, begun, told, wiped>>

\* record() resolves, and the provider is called.
Recorded(c) ==
    /\ at[c] = "release"
    /\ Leave(c)
    /\ told' = [told EXCEPT ![day[c]] = @ + 1]
    /\ UNCHANGED <<today, day, ledger, begun, wiped>>

\* The process dies.
Die(c) ==
    /\ at[c] # "idle"
    /\ Move(c, "idle")
    /\ held' = [held EXCEPT ![c] = NoUsage]
    /\ lock' = IF lock = c THEN Orphan ELSE lock
    /\ UNCHANGED <<today, day, ledger, begun, told, wiped>>

Midnight ==
    /\ today < LastDay
    /\ \A c \in Call : at[c] # "idle" => today < day[c] + MaxLate
    /\ today' = today + 1
    /\ UNCHANGED <<at, day, held, lock, ledger, begun, told, wiped>>

RecordStep(c) ==
    \/ Record(c) \/ AcquireLock(c) \/ LockTimeout(c) \/ ReadLedger(c) \/ ReadFails(c)
    \/ WriteLedger(c) \/ WriteFails(c) \/ Recorded(c) \/ Die(c)

LedgerNext == BreakStaleLock \/ Midnight \/ \E c \in Call : RecordStep(c)

LedgerSpec == LedgerInit /\ [][LedgerNext]_ledgerVars

-----------------------------------------------------------------------------
\* The days a report over the last n days adds up (buildUsageReport): there is
\* no upper end, so a day ahead of the clock is among them.
Window(n) == {d \in Day : d + n > today}

\* A call of the retention window that was recorded without a warning is in the
\* ledger, and so in every report that reaches back to its day, whatever other
\* calls, deaths, failing writes and changes of day come in between (unless the
\* history could not be read and was replaced), and none is there twice.
RecentCallsAreCounted ==
    /\ ~wiped => \A d \in Window(Retention) : told[d] <= ledger[d]
    /\ \A d \in Day : ledger[d] <= begun[d]

\* The file never spans more days than are kept, although only the first event
\* of a day prunes it and events of yesterday may come after it.
SpanIsBounded ==
    \A d, e \in Day : ledger[d] > 0 /\ ledger[e] > 0 => e < d + Retention
=============================================================================
