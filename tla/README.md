# Scoutline in TLA+

Scoutline is a command-line tool that puts one interface over a dozen web
research providers (search, reading, crawling, deep research, vision, ...).
Every invocation is a short-lived process. There is no server: what
invocations share is the file system under the cache, state and config
directories, and the providers' accounts they spend money on. So the behaviour
that is hard to get right is not inside one command but between commands: two
processes that want the same paid job, a process that dies between a POST and
the write that records it, a lock whose holder stopped, a timeout that fires
while a provider call is in flight.

All paths below are relative to `src/packages/scoutline/src/`.

## Inventory

| component | state it keeps | operations | what must hold |
|---|---|---|---|
| lock files, `lib/async-file-lock.ts` | one `<hash>.lock` file per critical section: inode, mtime | acquire (wx create, stat, break stale, back off), refresh, release | two holders only after a displacement; a running holder looks stale only after its refreshes failed; no waiter waits for ever |
| job state, `lib/async-job-state.ts` | one JSON file per paid job identity | read (unlinks garbage), wx write, remove | the record of a running paid task survives |
| paid jobs, `providers/{tavily,linkup,parallel,exa,firecrawl}/adapter.ts` | task id in memory, job state file, the provider's job | resume, create under lock, poll, recreate after 404, clean up | one running task per request; bounded recreations |
| provider fallback, `lib/provider-fallback.ts` | candidate plan, last errors | preflight, attempt, switch, exhaust | right result, right error, every skip told |
| operation executor, `lib/execution.ts` | retry counter, abort signal | validate, cache, consume, invoke, back off | bounded calls; no new call for a caller that is gone |
| research command, `commands/research.ts` | abort controller, timer | race attempt against timeout | a timed-out attempt starts no new call |
| quota store, `lib/quota-store.ts` | `state.json`: snapshot and pending decrements per provider | observe, consume, refresh | nothing counted twice; under-counted by no more than what calls of unknown amount cost; no update lost in one process |
| consumption sinks, `lib/consumption.ts`, `lib/usage-ledger.ts` | `usage.json`: attempts per UTC day, provider and capability | record (read, merge, prune on the day-roll, replace), report | a recorded call stays in the reports of its window; the file stays bounded; never fails a command |
| watch, `lib/watch-store.ts`, `commands/watch.ts` | target registry, snapshots, change log | add, remove, tick, read | every change reported once; a removed target is gone |
| journal, artifacts, `lib/journal.ts`, `lib/artifacts.ts`, `lib/save-artifacts.ts` | one log of saves and journal entries, a master file per save | save, journal, note, clear | no save entry without its master; a repeat marker resolves; no append drops another's entry |
| response cache, `lib/cache.ts`, `lib/tool-cache.ts` | one file per key in two directories, lock file | write and evict, prune, clear, read | a prune spares what it did not judge; the size stays bounded; a clear is complete |
| batch runner, `lib/batch-runner.ts` | the pool's shared index, the record of each operation | claim, run, write output, drain, summarise | no operation twice; the summary tells what happened; an output file or an error |
| config store, init, `lib/config-store.ts`, `commands/init.ts` | `config.json` and its `.bak`, the wizard's copy | set, unset, wizard, promotion, hint | no setting lost; providers never wiped unasked; the backup is what was replaced |
| agent registration, `lib/agent-registration/` | skill directories, rules files, pointers in users' files, one stamp, `agentRules` | refresh, register, unregister | a fresh stamp is true; unregister leaves the user's text and nothing of ours |
| search, `commands/search.ts`, the capture and hooks of `index.ts` | the serving capture shared by concurrent operations | fan out, fall back, merge, journal | the journal says who served, and a repeat is a complete repeat; the fused list accounts for every hit |
| science, `commands/science.ts` | nothing of its own; the response cache and the journal across commands | fan out, walk, cancel, join, journal | a cancelled caller gets nothing stale; failures are named; what was shown is in the journal |
| capability adapters, transports, MCP client, `providers/`, `lib/mcp-client.ts` | connections | call, normalise, close | pure mapping and network I/O |
| commands, output, parsing, `commands/`, `index.ts` | none | parse, render | formatting |

Interactions: a command asks the fallback for a result; the fallback runs one
executor operation per candidate; the executor reads and writes the cache and
emits a consumption event (quota store and usage ledger) before each provider
call; a research or crawl operation runs the paid-job protocol, which uses a
job state file and a lock file; watch, journal, artifacts and cache all write
under lock files of the same implementation.

## Modules

| module | models |
|---|---|
| `LeasedMutex` | what a lock file can promise: exclusion as long as a lease is valid |
| `AsyncFileLock` | `withAsyncFileLock` and `breakStaleLock`, one step per awaited call |
| `PaidJob` | what a paid job can promise: a new task is paid for only when every running one was lost |
| `AsyncJob`, `MCAsyncJob` | the paid-job protocol of the five adapters over the lock's promise |
| `AsyncJobProofs` | the theorems about `AsyncJob` |
| `ProviderFallback`, `MCProviderFallback` | one command: fallback loop, executor, timeout race |
| `QuotaStore` | `state.json`: decrements, harvests and the refresh, in one or several processes |
| `UsageLedger` | `usage.json`: the count of billable calls by day |
| `ConsumptionProofs` | the theorems about `QuotaStore` and `UsageLedger` |
| `MCConsumption` | the two files the composite sink writes, side by side for one run |
| `WatchStore`, `MCWatchStore` | the watch registry, snapshot rings and change logs under add, remove, purge and ticks |
| `WatchStoreProofs` | the theorems about `WatchStore` |
| `BatchRunner` | the worker pool of one batch |
| `CommandProofs` | the theorems about `ProviderFallback`, `BatchRunner` and `AgentRegistration` |
| `ConfigStore`, `MCConfigStore` | `config.json` and its backup under everything that writes it |
| `LockAndConfigProofs` | the theorems about `AsyncFileLock` and `ConfigStore` |
| `JournalStore`, `MCJournalStore` | the artifacts log and its masters under saves, the journal, notes and clears |
| `JournalStoreProofs` | the theorems about `JournalStore` |
| `ResponseCache`, `MCResponseCache` | the two cache directories under writes, evictions, prunes and clears |
| `ResponseCacheProofs` | the theorems about `ResponseCache` |
| `AgentRegistration`, `MCAgentRegistration` | the files and the stamp of agent registration |
| `ManagedRegion` | the text engines that put our region into a user's file and take it out |
| `MCAgents` | both of these side by side, for one run |
| `Lists` | the filter that plans are made with, in a form that can be reasoned about |
| `ResultFusion` | the pure merge of several providers' result lists |
| `SearchCommand` | one search command over `ResultFusion`: fan-out, fallback, capture, journal hook |
| `ScienceCommand` | successive science commands: fan-out, walks, Ctrl-C, cache, journal, history clears |
| `SearchProofs` | the theorems about `SearchCommand` and `ScienceCommand` |
| `MCSearchCommand` | the search and the science commands side by side, for one run |

`LeasedMutex` is the abstract specification of the lock, and `AsyncFileLock`
implements it. `PaidJob` is that of a paid job, and `AsyncJob` implements it for
the two adapters that create and clean up under the lock. `AsyncJob`, `WatchStore`, `ConfigStore` and
`JournalStore` use the lock as that promise: one holder at a time, freed when the holder dies. They leave out the displaced
holders that `AsyncFileLock` allows; what happens then is a matter of the lock.

### AsyncFileLock

A process is one call of `withAsyncFileLock` on one lock path. `place` is the
await it is at: `open` (wx create), `stat`, `restat` and `unlink` (the two
halves of `breakStaleLock`), `sleep` (the 500 ms after a break), `backoff`,
`body` (running `fn`) and `release` (the finally block). The lock file is its
inode number, its mtime and, for the properties only, its live creator. Inode
numbers are reused, because the code defends against it. Time is a clock in
units of the refresh cadence. A process that is not suspended never lets the
clock pass its refresh timer; a suspended one takes no step while the clock
goes on. Crashes, aborts, I/O errors, failing unlinks and failing refreshes can
happen at any await. The refresh's `fs.utimes`, which nobody awaits, is taken to
land or fail when the timer fires.

`Exclusion` is deliberately conditional: with a lock file and unlink-by-name,
unconditional mutual exclusion does not hold, and the ghost variable `lost`
says who was displaced. `DisplacedOnlyThroughAWindow` then lists the only ways
a holder can be displaced, and `RunningHolderNeverStale` shows that being slow
is not one of them: as long as a holder runs and its refreshes succeed, its file is
not stale. The code swallows a failed refresh (265) and arms the next one, so the
ghost `missed` counts the failures in a row, and the property holds until so many
have failed that the next one is due after the stale window. With the cadence the
code has, half the window, one failure leaves no margin and two in a row are too
many.

### AsyncJob

Clients ask for the same thing with the same key, so they share one identity
hash: one state file, one lock. The five adapters have the same shape and
differ in what they lock, guard and re-read; the operators of the section "What
the adapters differ in" are that difference, and one run covers all five. The
state file is created and filled in two steps, because `fs.writeFile` with `wx`
does so; a read that cannot parse it unlinks it in a later step. The server
charges for a POST whether or not the answer arrives. The lock is taken as
`AsyncFileLock` specifies it for holders that are not displaced. The ghost
`unrecorded` collects the tasks whose id was lost to a crash, an error or a
reader, so that the properties can say what must hold when none was.

### ProviderFallback

The loop of `executeWithFallback` and the operation of each provider are
separate actors, because `Promise.race` in `commands/research.ts` lets an
aborted operation go on beside the next candidate. Errors are reduced to the
classes the code tells apart: which are retried, which continue with the next
provider and which end the command.

### QuotaStore

A task is one read-merge-write of `state.json`: `consumeWrite` before a billable
call (`lib/execution.ts` emits the event first), or `observeWrite` after a
harvest (a usage call of the refresh, or Brave's rate-limit headers). Tasks of
one process are serialised by the store's promise chain (`Serialized`); tasks of
two processes are not, and the later write replaces the file. A provider's
snapshot is one category with a count. A search, read, map or repository call
costs one unit and is decremented as such; a research, crawl or vision call costs
any of `VariableCost`, and its event carries an unknown amount
(`defaultAmountForCapability`), which the store registers and does not
decrement. The limit and percentages follow from the count and are left out. The provider's charge
(`Bill`) and the report of it on its usage endpoint (`Report`) are separate
steps, so a harvest can lag behind the calls.

The ghosts make the accounting properties precise. `disturbed` has the providers
that lost an update to another process, to a read error taken for an empty file,
or to two counts written in the opposite order; `NeverUndercounts` speaks of the
others. `scaffolded` counts the decrements from before a provider's first
harvest, which the code keeps through it, and `latest` is the newest count
written. `unmeasured` is what calls of unknown amount may have charged unseen, in
this window: the estimate can fall below the charge by that, and by no more. A
reset does not always clear it: the count that told of an unknown charge may have
absorbed the decrement of a call that is charged only after the reset.
`excess` is what those calls cost beyond one unit, which a harvest brings into the
estimate.

### UsageLedger

A call is one event: stamped with its day (`Record`), then read, merged and
written under the lock of `usage.json`. `ledger` is the file, the attempts of
each day of one provider and capability, and a day without attempts has no entry.
The two clocks of the code are kept apart: the prune goes by the day of the
event, the report by the day it is asked for (`Window`). Midnights come while
events wait, at most `MaxLate` of them per event, since the lock wait is bounded
by seconds. A read that fails is taken for an empty ledger (`ReadFails`), which
`wiped` remembers; an error after the rename leaves a file that counts the call
(`WriteFails` at `release`). `told` counts the events recorded without a warning,
`begun` all of them.

### WatchStore

A command is one tick, add or remove. Its `pc` is the await it is at, and the
lock it holds follows from `pc` (`HoldsRegistry`, `HoldsTick`, `HoldsAppend`). A
crash or a lock timeout therefore frees its locks, which is what staleness does
in time. A content stands for what a page shows; two contents are equal when the
tick's diff finds no change, and the contents in `Moved` are served behind a
permanent redirect. A capture writes the bytes of a generation and then its
metadata, and prunes file by file, so deaths leave orphans. A death inside an
append leaves a torn log line. The removal of an emptied target directory is
left out, as nothing reads the directory afterwards.

### BatchRunner

What lies between two awaits of `runBatch` is one step; the first claims of all
workers happen before anything is awaited and are part of `Init`. A handler ends
with output, silently, or in failure (a throw is turned into one). The three
calls of `writeCapturedOutput` are steps that can fail. The manifest parser
refuses two operations with one output path (`lib/batch-manifest.ts:719-724`),
so a declared file belongs to one operation.

### ConfigStore

A process runs one command. `config set` and `unset` read under the lock
(`LockAndRead`); doctor's promotion, the env-only hint, the wizard's agent step
and its fresh flow read without it (`InspectMarker`, `InspectAgents`,
`InspectFresh`), and the menu writes its own copy, which `Mirror` merges with
the file after each write. All of them then go through `writeConfig`: the guard
against an empty config, the read of the backup, its rotation and the
replacement are four steps, each of which looks at the file as it then is. A
config is a function on slots: one per provider, and one per kind of setting.
`raced` is a ghost: since which of a process's own reads another one has
written. The properties use it to say what is promised without a lock.

### JournalStore

Every writer holds one lock from its read to its write, and its `pc` says where
under it it is. A run may save, journal, or both; what it journals was served
live or from the cache, and whether that becomes a full entry or a marker is
decided from the log it reads under the lock. Ids are minted from a small set,
so that they collide as ids of the same second can. A failed read looks like an
empty log (`readLog` fails open), which `blind` remembers. A clear sweeps the
master files in any order and then rewrites the log.

### ResponseCache

A file is a name and an inode; a replaced or unlinked inode's number may be used
again. A write stages and renames, then scans and evicts one name at a time; a
prune is stat, read, stat and unlink per name; a clear lists both directories
and unlinks every name it listed, which includes the lock file and the staging
files of running writers. The lock is part of this model, as a clear removes it
under its holder. Entries have one size, and which ones an eviction picks is
left open, because the mtime it goes by is touched by reads.

### AgentRegistration and ManagedRegion

`AgentRegistration` is about files: each command starts with the check of
`index.ts`, which redeploys every stamped tool when another release is
installed; a wizard registers the tools it was told to and stamps the union;
unregister removes. `work` holds the file operations still to do; `Before` is the
code's order among them, `Now` the one that is next, and each is a step that can
fail. Tools are numbered by their place in the registry. A release is a number,
and some bring another rule text. `mishaps` is a ghost that says which way out of
the ordinary has been taken, so that the properties can say what holds without it:
commands at once, a stamp carried over a refresh that was due, a command cut short
half way, and an unregister that has left a block, of which a later unregister
knows nothing.

`ManagedRegion` is about the text of one shared file, as tokens: markers, line
breaks, our pointer, rule text of a release, the user's words. `LineInsert`,
`BlockInsert` and `Strip` are the engines; `user` is the file as it would be had
scoutline never touched it, and the strip must give exactly that back.

### ResultFusion, SearchCommand and ScienceCommand

`mergeResults` is a function of the grid of answers: union by canonical URL,
near-duplicate clusters by union-find, ranking by reciprocal-rank score (the
weights over a common multiple `Scale` of their denominators, so that the sums
are exact; the code adds floats). Its loops are recursive functions over the
rows, and what the clusters should be (`Connected`) is said without them: the
least sets of canonical URLs that no near-duplicate title leads out of. `SearchCommand` runs one operation per provider
and sub-query, which look in the cache, call, retry and store at their own pace,
after their candidate was given up too, and write the one serving capture in
passing. The journal hook reads it when the command has its result.

`ScienceCommand` is a sequence of commands of one user with the same request.
`Start` picks the next one: a fan-out, a pinned search that may walk on, or a
get, with or without the cache and the journal. Each supplier's attempt
is an actor of its own (`Hit`, `Miss`, `Answer`, `CallFails`, `Wake`, `Store`),
and `Cancel` comes at any await. Science keeps its own record of what came from
the cache, instead of the capture. What stays between commands is `cached`, from
which `Start` may drop answers that expired, and `log`, the full entries of the
journal; markers are left out, as they hold no works. `ClearHistory` empties the
log at any time, also under a command that runs, and leaves the cache: it stands
for `history clear` and for an append that finds the log unreadable and starts
afresh. The ghost `unjournaled` has the cached answers that no entry is owed for:
those of commands that opted out or died, and those from before a clear, until a
full entry takes them up. An attempt that fails remembers
why, because a cancel is not told to the user as the supplier's failure. The
model is loose in one place: a cancel may come between the last arm's end and the
join, which the code's event loop allows only before the last arm ends.

## Runs

| run | what it asks | bounds |
|---|---|---|
| `lock` | displacement, freshness, progress and the refinement of `LeasedMutex` | three callers (a breaker, a successor and a third racing both), one may be suspended; two inode numbers; the clock reaches 3, past the stale window of 2, so a lock goes stale, is broken by two at once, and a displaced holder comes back to its successor's file |
| `jobs` | paid-job properties for all five adapters, with crashes and read errors | two clients, three tasks: a first one, its recreation and a duplicate |
| `fallback` | outcome, error, overlap and termination of a command | three providers (effective, middle, last) in every preflight state; one retry, as the default policy has |
| `quota` | no undercount and no double count of undisturbed providers; recorded calls stay in the reports of their window, and the file's span | `state.json`: two tasks, in one process or in two, one provider, two calls: a call charged and one still to be absorbed by a lagging answer; a call of unknown amount costs two, so that it is more than a decrement and absorbs one. `usage.json`: two callers, a retention of two days, three midnights, so that a day is pruned and the pruning day is itself pruned; an event up to one day late; two events a day, so that a day rolls and is added to |
| `watch` | what log, ring and purge say of each other | two commands, so that each pair of operations meets at every step; two targets, of which one is ticked and the other can bear its id as its name; a ring of one, so that every capture prunes; three generations, so that a generation has a successor and a predecessor |
| `batch` | the summary, the files, the drain, and the end | two workers, four operations: a failure, one in flight beside it, and a tail that does not run |
| `config` | what a replacement may undo, when providers may vanish, what the backup holds | two processes, so that every pair of commands meets at every step; three commands, so that a menu writes twice around another's write; one provider with one key; one failed write or death |
| `journal` | markers, masters, ids and losses | two processes, three commands (a full entry, its repeat, a clear); two ids, so that ids collide and remint; one key; one failure or death |
| `cache` | what a prune may delete, the cap, and a clear | two processes, four commands; two responses over a cap of one; one tool; three inode numbers, fewer than there are files and staging files over a behaviour, so that numbers are used again; one failure or death |
| `agents` | when a fresh stamp is true, what unregister leaves, what the strip gives back | two processes, two tools (one with a line pointer, one with a block), two releases with different rule texts, three commands, one failure or death; and all shared files of up to four tokens, with one edit |
| `agents_stamp` | a comment's claim that a failed refresh stays due; refuted | the same with one process |
| `search` | who is said to have served, what is a repeat, and the fused list; how a science command ends and what it leaves in the journal | three providers and two sub-queries, at most four operations planned; lists of up to three hits with two spellings of a URL and a chain of near titles; one retry; for science, three suppliers and four arms planned over all commands, so that a fan-out of three meets what one arm left, and two fan-outs of two meet each other; and two suppliers with five arms, as many as a fan-out, a clear, a pinned repeat and the fan-out again take, the case in which a marker stands for works no entry has |

All runs disable TLC's deadlock check: the clock, the task ids and the command
are finite, so every behaviour may stop.

Fairness: in `AsyncFileLock` a running process takes its next step and time
passes (strong fairness, because a holder's due timer disables the clock now
and then); no fairness makes `fn` end, a caller call, or a suspended process
resume. In `ProviderFallback` the event loop runs what is ready and an armed
timeout fires; nothing makes a provider call end, since firecrawl's poll loop
(`providers/firecrawl/adapter.ts:1114-1164`) is bounded by nothing and
`commands/crawl.ts:218-223` gives it neither a signal nor a timeout. So
`CommandEnds` says of research, which has the timeout, that it ends; of a command
without one, that it ends or its awaited call stays open for ever. In
`BatchRunner` the event loop runs what is ready and a handler ends. That is an
assumption: it holds of a command whose calls end (`CommandEnds`). The other
modules
have safety properties only: what their processes promise to do in the end
depends on somebody running the next command.

Symmetry is used where the processes (clients, commands, tasks, slots) are
interchangeable and all properties are safety properties: `MCAsyncJob`,
`MCConsumption`, `MCWatchStore`, `MCConfigStore`, `MCJournalStore`,
`MCResponseCache` and `MCAgents`.

## Proofs

### AsyncFileLock

`LockAndConfigProofs` proves, for any set of callers and inodes and any time
constants with 0 < refresh cadence < stale window:

- `LockTypeCorrect`, `ExclusionHolds`, `RunningHolderNeverStaleHolds` (for any
  number of failed refreshes), `DisplacedOnlyThroughAWindowHolds`: the safety
  properties of the lock;
  `Exclusion` is what the refinement rests on;
- `ImplementsLease`: the refinement of `LeasedMutex`.

The inductive invariant `LockInv` strengthens the type invariant with: a holder
that was not displaced owns the file at the path (`HolderOwnsFile`), and the
owner of a file is a holder (`OwnerHolds`), which give exclusion; no mtime is
in the future (`MtimeInThePast`) and a running holder's file was refreshed
within one cadence before its timer is due, and one more for each failure since
(`RefreshedInTime`, `Allowance`), which give freshness; and a caller about to unlink whose look is not outdated looks at a
stale file (`BreakerSawStale`), which gives the list of windows. Each action
preserves it; the refinement needs only the invariant and one step per action.

### BatchRunner

`CommandProofs` proves, for any number of operations and any pool size of at
least one: `BatchTypeCorrect`, `EachOperationOnceHolds`, `SummaryTellsTheRunHolds`,
`OutputOrErrorHolds`, their conjunction `EveryOperationAccountedHolds`, and
`FailFastDrainsHolds`, with all safety properties of the run `batch`. The only
assumption is `BatchAssumption`: `NotYet` is no outcome, record or summary.

None of these is inductive. What a worker does next depends on the shared index,
on what it carries and on the records, and `BatchInv` says how the three agree:
the handlers called are exactly those below the index (`StartedBelowIndex`); an
operation below the index has a record that tells its end, or some worker still
has it (`RecordsTellEnds`, `CarriesOutcome`); the scheduling is stopped exactly
when a failure is recorded under `--fail-fast`, and a worker ends only then or
when the manifest is done (`StopsForFailure`); a file is untouched until its
worker has written it or given up (`FilesTellEnds`). When all workers have ended,
no worker has an operation, so what has no record was never called; since a
worker ended before the manifest was done, the scheduling was stopped, and the
recorded failure lies below the index and so before the tail.

### AsyncJob

`AsyncJobProofs` proves `TypeCorrect`, `OnePaidTaskHolds`, `OneActiveCrawlHolds`,
`AtMostOneRecreationHolds` and `RunningTaskKeepsItsRecordHolds`, all properties of
the run `jobs`, for any sets of clients and tasks and any choice of adapters. The
assumption is that `None` is neither a client, a task nor a record, and that no
client is called "orphan".

The argument follows the state file. Tavily and firecrawl create under the lock
only (`Exclusive`, `Paths`). A tavily client that is about to create has found no
record, or one that could not be kept, and nobody else can write one meanwhile
(`ClearForCreate`). So a running task whose id was not lost is the one on file or
the one in the creator's hand (`Kept`), and never both. The record is removed by
clients whose own task has ended (`DoneWithJob`), or with content missing, which
has a writer or a cause (`TornHasCause`). For firecrawl, the list under the lock
shows that nothing is active (`NoneWhenCreating`), and an ended or aged job does
not become active again. `Paid` ties an invocation's POSTs to its recreation flag
at each place it can be.

`ClientsImplementPaidJob` proves that `AsyncJob` implements `PaidJob` for tavily
and firecrawl, step by step: a step of a client or of the server pays for a task,
finishes one, loses one, or changes none of these. The mapping (`Job`) takes what
counts as running: for tavily the tasks that run, of which those in `unrecorded`
are lost; for firecrawl the active crawls not older than a day, of which none is
lost, as the list under the lock finds them again. That only a task that was paid
for can be lost needs `Given` beside the inductive invariant: every id in the
state file, in a client's hands or in `unrecorded` was given out by the server.
`OneIsKept`, proved of `PaidJob` as `PaidJobKeepsOne`, is what `OnePaidTask` and
`OneActiveCrawl` say of these adapters. Linkup, parallel and exa remove a record
or create a task outside the lock, and implement no such thing. TLC agrees with
the refinement and with `Given` on the bounds of the run `jobs` with these two
adapters; the run itself checks the properties for all five.

### QuotaStore

`ConsumptionProofs` proves `TypeCorrect`, `NoDoubleCountHolds` and
`NeverUndercountsHolds` for any providers, finite set of tasks, processes and
number of calls of known and unknown amount, with and without file errors. The
assumptions are
`ConstantsAssumption` and `NoneAssumption` (None is no snapshot).

For `NoDoubleCount` a bound on the file alone is not inductive, because a task
may write back a copy it read long ago. `IInv` bounds every copy, on disk or in
a task's hands, by the emissions behind it (`CopiesCovered`): each task that has
emitted for a provider and not yet written holds back one count of it, so that
the write itself may add one; and a provider's count, charged or on its way in
an answer, never exceeds the emissions already called for (`CountsCovered`).

For `NeverUndercounts`, `UInv` follows the undisturbed providers: one task of a
process writes at a time (`OneWriter`), so that a task nobody overtook holds what
the file holds (`ReadsAreCurrent`); a count in hand is at most what was charged
unless its window was reset (`CountsAreCharged`); and what was charged or is
about to be is in the estimate, with what no count has told yet still pending, but
for `unmeasured` (`Counted`). That the unmeasured part may shrink to the number
of known calls under way (`Calls`) when a window is reset is where `Counted` needs
those calls: the count that absorbed their decrements is gone with the window. The
theorems hold for every set `VariableCost` of positive amounts.

### UsageLedger

`ConsumptionProofs` proves `RecentCallsAreCountedHolds` and `SpanIsBoundedHolds`
for any finite set of callers, any number of days, and any retention longer than
an event can be late (`LedgerAssumption`). `Sound` says that only the holder of
the lock is between read and write (`Locked`), that what it read is still what
the file holds (`SeenIsTrue`), and that stamps are neither ahead of the clock nor
later than `MaxLate` days (`InTime`, `NothingAhead`). The lower bound on a count
adds the holder that has written and not yet returned (`AtLeastTold`), the upper
one the callers still to write (`AtMostBegun`), and the span follows by cases on
whether a merge was the first of its day.

### ProviderFallback

`CommandProofs` proves `TypeCorrect`, `EndsAsPlannedHolds` and
`OverlapOnlyAfterTimeoutHolds`, the safety properties of the run `fallback`, for
any number of providers and any retry policy. `ConstantsAssumption` says that the
registry lists every provider once, `NoneAssumption` that `None` is no error.

`PlanIsSound` says that a plan starts with the effective provider and has nobody
twice. `Kinds` sorts the steps of an operation by what they do to the loop: it goes
on, its outcome is dropped, it wins, or it fails the entry; all but the types are
proved by kind. `WalksThePlan` says that every entry before the loop's was skipped or
failed with an error that goes on, and that none behind it was touched;
`AwaitsTheAttempt` and `RunsAwaited` tie the awaited operation to the current
entry and every other one that runs to a timeout; `Remembers` says what the
remembered errors are. Which error exhaustion throws
(`ExhaustionErrorIsRight`) follows from the three.

### WatchStore

`WatchStoreProofs` proves `TypeCorrect`, `EveryChangeLoggedHolds`,
`EntriesAreTrueHolds`, `NewestReadsHolds` and `PurgedStaysGoneHolds`, all properties
of the run `watch`, for any sets of commands, targets, names and contents, any
ring size, any number of generations, with and without file errors. The
assumption is `ConstantsAssumption`.

Every step of a command leaves the locals of the others alone (`Framed`), goes one
of few ways (`Paths`) and does one of few deeds to the snapshots (`Deeds`), the
registry and the purges (`Effects`) and the change log (`NotesTaken`). With these
five lemmas the three locks have one holder each (`Exclusive`), and the other
invariants are proved by deed instead of by action. `RingIsTrue` says that the
listed generations are captured ones and that the last one captured is listed
and whole, so that the number `appendSnapshot` takes from its listing is the next
one. `JudgesTruly` ties a tick's prior and generation to the ring for as long as
it holds its lock; a line it logs is true because of that. `PurgedIsRetired` says
that whoever may still write evidence of a target holds off its purge, and that a
purged target is retired, so that a tick that waited finds it unregistered.
`PurgesRing` says that a ring not yet cleared still has bytes, so that an empty
directory has an empty ring.

### JournalStore

`JournalStoreProofs` proves `TypeCorrect`, `MarkersResolveHolds`,
`CacheHitsWriteOneFullHolds`, `SavesHaveMastersHolds` and `NothingLostHolds`, all
properties of the run `journal`, for any processes, ids and cache keys and any
number of commands and faults. `ConstantsAssumption` says that `None` is no id,
key or number.

`Sane` types the state and says what a command knows of itself. `Locked` adds
what it knows of the files: one process is under the lock (`Exclusive`), what it
read is still the log unless its read failed (`SeenIsTrue`), and a save that has
written its master still has it there (`MasterOfSave`). Each action has the shape
of one of four predicates: it leaves the others' locals alone (`Apart`), is true
to its own (`OwnTrue`), and says what it does to the log (`Writes`) and to the
masters (`Files`); the invariants of the log are then proved by shape. What a
clear keeps is a filter (`OfKinds`), and that a journal entry's prior is the last of
its key needs that a set of positions has a last member: both by induction.

### SearchCommand and ScienceCommand

`SearchProofs` proves the five properties of the run `search`, for any
providers, sub-queries, answers and suppliers, any number of science commands and history
clears and any retry policy. The assumptions are `ConstantsAssumption`;
`SupplierAssumption`: the arm order lists every supplier once; and
`FusionAssumption`: `Near` has pairs of URLs, `Canonical` maps URLs to URLs, and
`Scale` is a multiple of every denominator up to `MaxRank`.

Of science it proves `ACancelIsHonouredHolds`, `FailuresAreDisclosedHolds`, both
together as `EndsHonestlyHolds`, and `WhatWasShownIsJournaledHolds`.
`ServesInOrder` says that nobody has served while a walk runs, and that the arms of
a fan-out are in its plan; `AtHooks` that the result names exactly those that
served. What is in the cache is then in a full entry, owed none, or fetched by
the command that runs (`CachedIsCovered`); so a hit is covered
(`HitsAreCovered`), and a repeat, which has only hits, shows nothing new. A live
arm keeps `FromCache` from holding, so that its command gets a full entry. A clear
takes everything out of the entries at once, so `HitsAreCovered` also says that a
hit is still in the cache, whose answers are owed none from then on. For the
disclosure, `WalkIsAtPlace` says that a walk has one attempt under way, and
`WalkNames` that those before it failed of their own and are named, a pin only when
another supplier serves. That a plan has a supplier rests on `AmongFacts`.

Of a search it proves `RepeatsAreRepeatsHolds` and `TheServerIsNamedHolds`.
`CellIsTrue` ties an arm's cell to its operations: it says "cache" only while none
was answered or has failed, but for those that validation refused. For one
candidate after another, `FromIsTrue` says that a live answer of the current one is
in the capture; who served is known only where no earlier candidate has
sub-queries under way (`Alone`), where `OthersRest` and `StampIsTrue` say that the
capture is the current candidate's. Each operation's step is one of four `Kinds`.

`ListAccountsForTheGridHolds` says of the fused list that its rows are
exactly the connected sets of canonical URLs, each once, with the number of their
hits and each of their providers once. It is a fact about `mergeResults`
(`MergeAccounts`, for every grid), proved loop by loop, and about the command
only in that `GridInv` types the grid it merges. What is printed can differ: one
candidate's single sub-query is printed unmerged (`commands/search.ts:700-702`), and
`--count` slices the fused list (1134-1138). Each loop is a recursive
function; that the function exists is proved first (`Recursion` for those with a
known range), then its invariant, by `Induction`:

- the tally (`TalliedFacts`): after n hits there is one row for each canonical
  URL, spelled as its first hit, with the count and the providers of those n
  (`RowIsTrue`);
- the union-find (`RootsFacts`): near rows have one root, since the scan meets
  every pair and a union never separates rows (`StayTogether`); and rows of one
  root lie in the same sets closed under nearness (`RootsAreTrue`), so that no
  union joins too much. So the roots are the connected sets (`RootsConnect`);
- the cluster (`MergeClusterFacts`): the members of a root have different keys,
  so that their counts add up to that of their hits;
- the sort (`RankedFacts`): merit, then position, gives every row a place of its
  own (`PlaceFacts`, by counting), so that the list is a permutation of the
  clusters, and no row is better than one before it (`MergeIsSorted`).

### ConfigStore

`LockAndConfigProofs` proves `TypeCorrect`, `OneHolderAlways`,
`WritesOnlyItsChangeHolds`, `PopulatedStaysPopulatedHolds` and
`BackupIsWhatWasReplacedHolds`, all properties of the run `config`, for any
processes, providers and keys and any number of commands and faults.
`ConstantsAssumption` says that no provider is called like a setting, that `Set`
is not `None`, and that an absent file is not a corrupt one.

The three properties speak of the step that replaces the file, so `IInv` has to
say what a command carries to it. `InPlace` says that what it is about to write
is a config. `CopyAgrees` says that as long as nobody wrote since its read, this
config and the file differ in the command's own slots only, and for the menu
also in settings the file no longer has. For `config set` and `unset` that needs
`OneHolder`: nobody else under the lock can write between the two, and the ghost
notes every other writer. `EmptyIsMeant` carries the guard's verdict, and
`BackupIsTrue` the bytes read for the backup, to the replacement. A step is seen
from two sides: `Shape` says the few things it can do to the files and to the
ghosts of the others, from which the parts are kept for every process that does
not step; the lemmas `...Good` keep them for the one that does, from what each
command's config is (`WithSettingIs`, `MarkersAre`, `WizardsAre`, `MirroredIs`).

### ResponseCache

`ResponseCacheProofs` proves `TypeCorrect`, `PruneSparesFreshHolds`,
`CapHoldsAlways` and `ClearIsCompleteHolds`, all properties of the run `cache`,
for any processes, names, inode numbers and cap, and any number of commands and
faults. `ConstantsAssumption` says that the two directories and the lock file
have different names, and that there are finitely many names of responses.

Files change under every process, so `IInv` says what each still knows of them.
`Tracks` is what a prune's looks are worth: at a name that was not replaced since
the first stat there is the inode it saw, and it is not fresh; at one replaced
once there is another one, which the second stat would tell apart. That needs
`OneFilePerInode`: an inode number is used again only when no name and no staging
file has it. `HoldersLock` says that before any clear has broken the lock, who
evicts or prunes responses holds it, so that nothing fresh is put in a prune's
way. `EvictionCovers` is the reason for the cap: entries above it are there only
while some writer is about to list the directory, or an eviction has enough of
them among its victims; an eviction that lists later covers what an earlier one
may leave. `ClearsTrack` says that what a clear has listed is still to be
unlinked or was replaced since.

### AgentRegistration

`CommandProofs` proves `RegistrationTypeCorrect`, `FreshStampHolds` and
`NothingLeftHolds`, for any tools, numbers of skill files and releases, any history
of the rule text and any number of processes, commands and faults.
`RegistrationAssumption` says that the first release has a rule text; `TextFacts`
then shows, by induction over the releases, that every one has.

The inductive invariant is `RegistrationInv`. Part of it holds whatever the
processes do: the steps a command still has fit what it is doing (`WorkFits`), and
nothing comes from a release that was never installed (`InThePast`). The rest
(`SerialInv`) is about commands that follow one another. What is on disk is of the
running command's release or of an earlier one (`Behind`), so that a refresh that is
due is never one back to an older text; a tool's directory is removed, made and
copied to in this order (`DirectoryMade`); and for each tool that is being deployed,
what is not still to be copied or rewritten is of the command's release (`Copied`,
`Rewritten`), and what is not still to be removed is gone (`Cleaned`).
`SkillsAreTrue` and `TextsAreTrue` follow the stamp: what they say of its tools
survives an upgrade, because the stamp is then not fresh (or the text the same),
and is what the last step of a refresh or a wizard puts on file; `UnionIsTrue` says
it of the stamp a wizard is about to write. They hold unless a stamp was carried
over a due refresh or a command was cut short half way.

That an unregister misses a block only for a cause needs the other direction,
`Known`: a block of a tool that has not opted out is named by the stamp with the
text the stamp has, or is about to be. It fails after a fault, and after an
unregister that has left a block: the stamp is gone then, the choices are cleared,
and the tool may be asked for again. A first form of `UnregisterLeavesNothing`
without that case held in the run's three commands and was false beyond them; the
invariant did not close, and a longer run has shown why.

### Model-checked only

The liveness properties (`WaiterEnds`, `CommandEnds`, `BatchEnds`), which are
beyond the prover, and `StripLeavesTheUsers`: the engines of `ManagedRegion` are
recursive operators over the text of a file. Every other property of the
passing runs is a theorem. The prover cannot apply the library's induction
theorems, which take an operator as a parameter; it can use that a set of
naturals without a least member is empty (`WFMin`), and the lemma `Induction`
says so of a set. With it the recursive functions of `JournalStore`, `Lists` and
`ResultFusion` are reasoned about.

## Divergences found

With a run:

- `agents_stamp`: a comment of `lib/agent-registration/deploy.ts` (246-248) says
  a refresh that failed for a tool is retried by the next run; the wizard of the
  same command stamps that tool as fresh.

Without a run of their own; the models have the behaviour unless it says
otherwise, and the properties are stated so that they leave it out:

- Lock: a comment says a live holder is never displaced
  (`lib/async-file-lock.ts:142-144`); a break's unlink by name (133) can displace
  one that was never suspended, and so can the break itself when the holder's
  refreshes keep failing, which the code swallows (265).
- Jobs: comments say concurrent identical requests never pay twice
  (`lib/async-file-lock.ts:8-10`, `providers/linkup/adapter.ts:793-794`,
  `providers/firecrawl/adapter.ts:961-963`). They can: a resume read that meets
  the state file between its creation and its content unlinks it
  (`lib/async-job-state.ts:240`); linkup's cleanup removes another client's newer
  record (836); a second crawl that waited for the lock does not look at the
  state file and finds the first's completed job not active (1003).
- Fallback: the comment of `preflightDescriptor`
  (`lib/provider-fallback.ts:233-238`) says a throwing constructor counts as
  unconfigured, and the code (264-268) lets it end the command.
- Quota: a comment (`lib/quota-store.ts:765-767`) says the refresh never exceeds
  one call per provider in ten minutes; two commands that end together both
  call. A usage answer held across a window reset and written after a newer one
  can bring the estimate below what was charged. So do research, crawl and vision
  calls until a harvest, as no amount is decremented for them (220).
- Usage ledger: the warning of a failed recording says the call was not counted
  (`lib/usage-ledger.ts:486`); when the replacement fails after its rename, it was.
- Watch: `docs/architecture.md:624-626` says a failed tick leaves the ring
  untouched; a tick that fails after its capture has advanced it, and the change
  it held is never reported.
- Config: the menu means to see its own writes (`commands/init.ts:1226-1227`);
  its `Object.assign` (1228) keeps keys the file no longer has, so that its second
  action brings back a routing table the first one removed. Doctor's promotion
  (`lib/config-store.ts:1300-1304`) marks whatever key is on file by then as
  verified, also one that the wizard has just stored unverified. The
  troubleshooting guide and a message of the wizard say a corrupt file is set
  aside; the production store has no such hook.
- Journal: a save that a clear deletes leaves journal entries whose `saveRef`
  names nothing, against `docs/architecture.md:884-887`; a log that cannot be
  read is rewritten from empty by the next append.
- Cache: comments (`lib/cache.ts:626` and that of `pruneCaches`) keep the lock
  file from eviction and prune; `clearSubdir` unlinks it under its holder, and
  its staging file. A dead writer's staging file is never counted, evicted or
  pruned.
- Agents: an unregister that fails midway leaves a fresh stamp over removed
  files; a rule block of an older release that a refresh missed is taken for
  foreign and left, against ADR-0010's byte-identical reversal; a file that was
  there empty before registration is deleted; a user's edit between our read and
  our replacement is lost.
- Search: with a fallback, an operation of a candidate given up that answers
  late stamps itself as the server (the comment at `index.ts:5488-5495` says it
  cannot matter); a fan-out arm of which one sub-query was refused by validation
  still counts as served from the cache, so that an incomplete result is
  journalled as a repeat; and the marker's key is that of the last sub-query, so
  that it can point at an entry of another search.
- Commands: a crawl whose job never ends and never fails does not end either:
  firecrawl's poll loop (`providers/firecrawl/adapter.ts:1114-1164`) has no bound
  of its own and gets no signal (`commands/crawl.ts:218-223`).
- Science: a warm fan-out is journaled as a marker under the key of its first
  surviving arm (`commands/science.ts:1344-1354`). The full entry it points at
  may be of a run with fewer arms, and after `--no-journal` runs the works of the
  others are in no entry, though the README (377) promises one where there is no
  prior entry. The same happens after `history clear`, which leaves the cache warm:
  a fan-out over two suppliers, a clear, a pinned repeat (a full entry of its one
  arm), and the fan-out again (a marker under that arm's key).

## Not modelled, and the plan

What could come next: the engines of `ManagedRegion` as recursive functions, so
that `StripLeavesTheUsers` can be proved; and an abstract specification of the
journal that `JournalStore` implements.

Not modelled: the wire mapping and normalisation of the providers and their
transports, which are pure functions over payloads or network I/O; the MCP
client, of which production makes one per operation and closes it after, so that
concurrent uses of one client do not occur; the reading commands (fetch, read,
investigate, repository), which compose executor operations in sequence; PDF
and archive parsing; the union of duplicate science works; argument parsing, output and redaction. Most of the
repository's lines are of these kinds. The components' notes in `PROJECT.json`
say what is left out of those that are modelled in part.
