# dealerboard: a TLA+ verification of the session board

dealerboard shows what every coding-agent session on a machine is doing. Short
hook helpers record lifecycle events in one SQLite table, a daemon keeps that
table honest and publishes a snapshot file, and a strip application draws the
snapshot and sends the user's gestures back as commands. This directory holds
TLA+ models of that pipeline, the TLC instances that check them and the proofs
TLAPS checks. All paths below are relative to the repository.

Contents: [the system](#1-the-system), [modules](#2-modules-and-the-code),
[abstractions](#3-abstractions), [runs](#4-what-the-runs-check),
[disagreements found](#5-where-code-and-documentation-disagree),
[proofs](#6-what-is-proved), [not modelled](#7-what-is-not-modelled),
[plan](#8-plan), [how to run](#9-running-the-checks).

## 1. The system

### 1.1 Components

| component | source | state it keeps | operations |
|---|---|---|---|
| session registry | `src/core/registry.ts`, `schema.ts` | table `active_sessions` (SQLite, WAL): parent, slot, status, background flag, origin, the ledgers `unread_since`, `done_since`, `acked_at`, `viewed_since`, `ended_at`, and label columns | hook events, view, acknowledge, clear, clear-all, prune, expiry sweep, Paseo overlay pass, Evener reconciliation, label updates |
| hook decoding | `src/core/providers.ts`, `origin.ts` | none | one hook payload of ten providers to a list of registry events |
| command line | `src/core/cli.ts`, `paths.ts` | none | `event`, `sessions ...`, `daemon`, wiring of the collectors |
| board projection | `src/core/projection.ts` | none | rows to cards: link resolution, status carry, ledger roll-up, visibility, validation |
| daemon | `src/core/daemon.ts`, `snapshot.ts` | `DaemonState`, connection, in-flight flags, pending sweeps, snapshot file | poll every 250 ms, maintenance, publication, heartbeat, watchdog |
| Evener collector | `src/core/evener.ts` | socket, refresh generation, thread indices | connect, refresh, subscribe, incremental updates, reconnect |
| Paseo loader, session facts, Codex children | `paseo.ts`, `titles.ts`, `codex-subagents.ts` | (mtime, size) caches, read offsets | resolve records and labels from provider files |
| quota and token usage | `quota*.ts`, `codexbar-*.ts`, `claude-swap-quota.ts`, `token-usage.ts` | last good snapshot, account retention, day curves | polls with timeouts, own snapshot files |
| board application | `app/src/*.ts`, `app/src-tauri/src/main.rs` | ingest claims, dismissals, wake grace, sheets, pages | read and push of the snapshot, gestures, drawing |
| extensions and scripts | `extensions/`, `scripts/` | none | call the hook helper; installation |

### 1.2 How they interact

Every writer is its own process or connection. A hook helper or a `sessions`
command opens the database, takes its instant (`observedAt`), waits for
`BEGIN IMMEDIATE` (busy timeout 250 ms, one retry, then the event is dropped)
and commits one transaction. The daemon's maintenance writes through the
connection it also reads with; the Evener collector, in the same process, opens
another. The daemon notices foreign commits by `PRAGMA data_version` and its own
by a flag. The application reads the snapshot file, treats an old file as a dead
daemon, and turns presses and dismissals into `sessions view` and
`sessions ack` commands that carry the stamp the user saw as a watermark.

### 1.3 What is hard, and what correctness means

* **Registry.** Helpers commit in an order that differs from the order of their
  instants; four paths land a result and as many release one; Paseo's records are of
  any age; lineage comes from files several sessions rewrite. Correct means: the
  schema's constraints survive every history, the native rows stay a forest, a
  result the user has not seen is never lost, never expires, never comes back
  once dealt with, and a prune or a gesture takes exactly the tree it should.
* **Projection.** One throw blanks the whole board. Correct means: no reachable
  table makes it throw, every result is on exactly one card, the status of a
  card is the worst of its subtree, and a gesture on a card reaches what the
  card shows.
* **Daemon.** Commits land between any two steps, each step may throw, sweeps
  settle when they please, the process may be restarted over an old file.
  Correct means: the file always shows one committed state or a failure, never
  goes back, catches up with every commit, and stays young while the daemon lives.
* **Evener collector.** A refresh reads the hub over many awaits while
  notifications change what it is about to replace, a read of one thread may
  answer late, connections and requests fail, and the registry loses rows the
  collector believes in. Correct means: an accepted refresh leaves the rows the
  hub's threads call for, at rest no thread is unknown or wrong, and it always
  refreshes again.
* **Migrations.** A registry of any of seventeen versions, in shapes that more
  than one branch left behind, is rebuilt five times on its way to the latest,
  in transactions between which the process may die. Correct means: whatever
  interrupted it, the next start finishes, every column is there and no row lost
  what it held.
* **Codex children.** Hooks get lost, so a sweep reads the children's rollouts; it
  reads one after another, is applied at a later poll, and hooks commit in
  between. Correct means: it brings back no child a hook has removed, and every
  child leaves once its turns have ended.
* **Token usage.** A total asked for before midnight is answered after it, clocks
  are set back, totals corrected, writes fail, restarts begin from the file.
  Correct means: the reader accepts what is published, yesterday is the day
  before today, and what the file lacks is written again.
* **Quota.** The sources of accounts name some of them, name one twice, answer
  from memory, in error, late or not at all, and the write may fail. Correct
  means: the reader accepts what is published, and an account that is still there
  keeps its row, its label and its latest measurement.
* **Application, ingest.** Reads race pushes, gestures and the wake of the host.
  Correct means: what no gesture defers is ingested, a read never takes the board
  back, a dismissal hides and consumes nothing the user had not seen and never
  hides for good, and a silent daemon ends in OFFLINE.
* **Application, hands.** Strokes, holds, platform menus, trailing clicks, scroll
  bursts and the answers of sheet actions arrive in any order. Correct means: a
  click settles its own press, a drag that defers the board ends, and nothing
  meant for one sheet reaches another.

`PROJECT.json` lists each concrete hazard at the line where it bites.

## 2. Modules and the code

| module | role | code |
|---|---|---|
| `RegistryTable` | every mutation as a function from table to table; no variables | `registry.ts`, constraints of `schema.ts` |
| `Registry` | the writers: one action per hook kind, gesture, maintenance pass, overlay step, Evener update | `registry.ts`, `providers.ts`, `cli.ts`, `daemon.ts` (maintenance) |
| `Projection` | table to cards, and where it throws | `projection.ts` |
| `RegistryBoard` | `Registry` seen through `Projection` | both |
| `Feed` | abstract specification: what the snapshot file promises | `daemon.ts` header |
| `Daemon` | the poll loop, step by step; implements `Feed` | `daemon.ts`, `snapshot.ts` |
| `EvenerCollector` | the collector between an external hub and the registry's rows | `evener.ts`, `registry.ts` through `RegistryTable` |
| `BoardView` | from the snapshot file to the screen and back | `app/src/main.ts`, `ingest-gate.ts`, `snapshot-view.ts`, `wake.ts`, `dismissals.ts`, `paging.ts` (the latch), `app/src-tauri/src/main.rs` (the watch) |
| `Touch` | strokes, presses, clicks, paging, the action sheet | `app/src/gestures.ts`, `paging.ts`, `action-sheet.ts`, `main.ts` |
| `Migrations` | the upgrade pipeline under interrupted inits | `schema.ts` |
| `CodexChildren` | the rollout sweep, its guard, and the hooks it races | `codex-subagents.ts`, `registry.ts` (`syncCodexSubagents`), `daemon.ts` |
| `TokenUsage` | the collector, its day curves and its file | `token-usage.ts`, `token-usage-snapshot.ts` (the reader's checks) |
| `Quota` | the accounts of the quota snapshot, and what their sources answer | `quota.ts`, `quota-accounts.ts`, `codexbar-accounts.ts`, `claude-swap-quota.ts`, `quota-snapshot.ts` (the reader's checks) |
| `MCRegistry`, `MCLineage`, `MCDaemon`, `MCEvener`, `MCBoard`, `MCParts` | instances for TLC | |
| `NaturalSetTheorems` | least and largest elements, values of bounded recursions; no code | |
| `RegistryTableProofs`, `RegistryProofs` | lemmas per operation; theorems of `Registry!Spec` about the table and the ledgers | |
| `LineageProofs` | theorems of `Registry!Spec` about trees, agents, the projection and gestures (`RegistryBoard`) | |
| `DaemonProofs`, `BoardViewProofs`, `EvenerProofs` | theorems of the module each extends | |
| `PartsProofs` | theorems of `Migrations`, `CodexChildren`, `TokenUsage`, `Quota` and `Touch` | |

### 2.1 RegistryTable and Registry

`rows` maps the identities that have a row to records. An identity stands for a
`(provider, session_id)` pair, so `ProviderOf` is a constant function. The record
has the columns that some guard reads; `Null` is SQL NULL; instants are naturals.

An action of `Registry` is a whole handler: `PromptHook`, for instance, is what
`decodeNativeHook` yields for `UserPromptSubmit`, a `SessionObserved`, an
`Activity` and, for Claude's task notification, a `BackgroundWorkCleared`, applied
in order in one transaction. Each hook or gesture carries an instant `t` from
`HookInstants`, the last `HookLag` instants: the helper takes its time before it
waits for the lock, so two of them may commit in the opposite order.

One transaction is one step, with one exception. A Paseo overlay pass applies
many records inside one transaction; it is `BeginPaseoSync`, a `SyncRecord` for
each record, then `CommitPaseoSync` or `RollBackPaseoSync`. `txn` holds what is
left to do, the whole pass (an archived record deletes a subtree found with hints
from all of it) and the table to roll back to. Other writers are locked out
while it is open, and properties about what others see use `Committed`.

The upward pointer walks of the code (ancestor check, Paseo chain, keep closure)
all carry a visited set. `Ancestry(edge, s)` is what they compute: the least set
that holds `s` and is closed under `edge`. Writing it as an intersection of
closed sets, with no recursion, is what makes the operators provable.

Initial states are an empty table and a table upgraded from a version that
retained ended sessions (`LegacyRow`).

### 2.2 Projection

`ValidTopology` and `ValidGraph` are the conditions under which
`projectSnapshotRows` does not throw. `EffectiveStatus` keeps the code's order:
roots in slot order, each raising its ancestors, in one pass (`Carry`, a recursive
function of the slots); that one pass is enough in every order is a property, not
an assumption. `RolledUp` is the
aggregation of hidden Paseo subagents by the nearest ancestor that does not hand
on.

### 2.3 Daemon and Feed

`pc` walks through a poll: open, apply facts, apply overlay, start sweeps, prune,
read version, project, publish, finish (heartbeat and watchdog). An
`ExternalCommit` may fall between any two steps. A sweep's promise settles only
between polls (`pc = "rest"`), because the poll is synchronous on the event loop.
Each step that can throw has a failing twin that costs a fault from a budget;
`Crash` empties all memory and keeps the file. After a reopen the version number
starts anywhere, as SQLite's does.

`Feed` has three variables: the history of committed contents, the file, and how
far into the history the file has brought the board. It may show any committed
content not older than that, or a failure. `Daemon` takes it as

    Promise == INSTANCE Feed WITH history <- [the contents of Daemon's history]

with `file` and `seen` as they are, and `FeedKept == Promise!FeedSpec`: a poll's
ten steps implement one `Show` or `Fail`, or stutter.

### 2.4 EvenerCollector

The hub is not in the repository. It is modelled from what `evener.ts` expects of
it: threads open, work, end a turn, close with everything they started, and are
archived; each change is told once and in order over one connection; a request
of a refresh may be answered with a state taken well before the answer is sent
(`TakeAnswer`, `SendAnswer`), which is what makes the generation check necessary.
The hub may also have no place for a root in its navigation (`RefusePlace`, a fault).
A change of a thread's place in the navigation is told by
`evener/navigation/invalidated`, on which the collector relies for archived roots
(`docs/superpowers/specs/2026-08-27-board-card-retention/decisions.md:316`): when a
root is archived, and when a turn brings one back.

A step of the collector is one turn of its event loop: `Deliver` takes the first
message off the wire, runs its handler and whatever continuation it resumes up to
the next await; `FireRefreshTimer` and `Connect` start a refresh. The handlers are
functions from a state of the collector to the next (`HandleStarted`,
`HandleClosed`, `RefreshStep`, ...), composed the way the code calls them, and
`Enter` assigns the result. The updates they emit are applied to `rows` with the
operators of `RegistryTable`, in the same turn, because the code applies them
synchronously.

The tree of threads is a constant, of any size and depth. `EvenerAssumption` says that
every set of threads has one whose parent is not in it, so nobody is above himself: a
thread is started by one that exists.

`index` stands for `statesBySessionId`, `rooted` for the keys of the ancestry it
remembers, `live` for the reads of `subscribeLive` under way. Such a read
holds on to the state object it began with; when the index gets new objects, `own`
keeps what the old one last said. `refresh` holds the candidate, what is left to
read, and `stale`, the outcome of comparing generations. `timer` is what the next
refresh waits for: nothing (`"now"`), the interval after an accepted refresh, or the same
interval after a rejected candidate (`"retry"`), which leaves the index as old as it was.
A refresh that ends otherwise is one of three: stale, and repeated at once; rejected (a
root without a place, a child without its parent), and retried in an interval; or a
read that failed, which costs the connection.

### 2.5 BoardView

A payload is the number of the publication it is a copy of, 0 for a failed read;
`pubs` says of each what it shows of one card (the number of its unviewed
result) and whether it is healthy, `ages` how old it is. With that, "older" and
"newer" are comparisons of numbers, which the code itself never has.

The native host reads the file once per event of a burst and emits a generation
once (`WatchEvent`); what it has read travels as a push, so a push may arrive
after newer reads. A read of the webview is three steps: the claim (`ClaimRead`,
by the expiry check, the re-read after a hold, or the slow pass), the host's
answer (`ServeRead`), and the continuation after the await (`SettleRead`), which
`ingestGate` lets through only if nothing has claimed since. Everything accepted goes
through `Submit`, the latch of `createDeferredLatest`: while a drag owns the
board (`busy`) it is stashed, otherwise `IngestNow` computes the view, or
holds it when `ShouldHold` blames a sleep. `late` is the time between waking and the
watchdog's first tick, when the code knows of the sleep from the clock alone.

A press captures its watermark on the way down, a flick sends it as an
acknowledgement and hides the card when its slide ends (`SlideEnds`, which also
reduces the newest payload again). `AckArrives` is `acknowledgeSession` for one
card; `AckLost` is a command that failed. Any number of acknowledgements may be under
way, and they arrive in any order.

### 2.6 Touch

The recogniser's state is what its next decision reads: moved past the slop,
held, dragging, locked to the vertical. Coordinates and times become the choice
among the verdicts the code could reach (`Up`). An action is one DOM event with
its capture-phase bookkeeping first and the recogniser's intents after it, in the
order the listeners run. `click` is the trailing click the browser may still
deliver for a stroke; it may come, come late over a sheet, or never come. The
sheet is `SheetActionState` with its generation, and `flights` are the promises of
actions that have not settled.

### 2.7 Migrations

The table is the set of its columns. Each transaction of `initializeDatabase` is an
action with its own guard: an `Alter` loop fails on a column that is there
already, a `Rebuild` copies an explicit column list and fails if one of it is
missing (or a row refers to a parent that does not exist), a `Repair` looks at
the shape first. All compare with the version read once at the start of the init,
as the code does. `Found(v)` lists the shapes that builds have left under stamp
`v`. `Crash` ends an init between any two transactions; the next one starts over
from the stamp it finds.

### 2.8 CodexChildren

A rollout is its latest turn: when it started, its last record, whether it is
still working. A sweep lists the threads of the registered parents, reads the rollouts one at a
time (a file being written may yield nothing) and is applied when all are
read. `sweep.version` is what became of the data version read at its start: still the
same, moved by another connection's commit, or incomparable since the daemon
reopened its connection. `SyncChild` is the body of the loop of
`syncCodexSubagents` and `Removed` its leaf-first deletion. Children of any depth
are allowed; a thread's parent is a constant, so the branch for a row found under
another parent never applies.

### 2.9 TokenUsage

An instant is a number, and its day and half hour are quotients.
`InOrder` puts the members of a set of numbers in order, the sort of
`recoverActiveDayCurve` and the order in which a filter keeps what it keeps.
`AppendDayCurvePoint`, `RecoverActiveDayCurve`, `ReconcileSeeded` and `RetainLatest` are the functions
of the same names; `Accepted` is the part of `parseTokenUsageSnapshot` that a snapshot
of this shape can fail. A poll is one step, since nothing else touches the state
while the helper runs; the day it asked for was read before the run, and may be
the day before the answer's.

### 2.10 Quota

A behaviour is about one of the two inventories, Claude's (`source = "claude"`) or
Codex's: they share the pass and its write, and no state. `rows` is
`states.get(provider).quota.accounts`, `onFile` the same in the file. A pass is one
step, since `polling` keeps a second one out and nothing else touches the rows:
`CodexPass` enumerates what `codexbar --all-accounts` may print
(`parseCodexbarAccounts`: an account left out, read, in error, unreadable or named
twice, an exit code, records without a name), `ClaudePass` what `cswap list` may
(`parseClaudeSwapAccounts`: a reading or the last good one of each account, one
of them active), `UnansweredPass` no binary, a timeout or rubbish.
`InventoryAfter` is `reconcileQuotaAccounts` with `reconcileInventory` around it, and
`Collect` the end of `pollNow`: rows and file move together or, when the write
fails, not at all. `QuotaRestart` is the seed; a file its reader does not accept,
or that could not be read, seeds nothing.

### 2.11 MCParts

`Touch`, `Migrations`, `CodexChildren`, `TokenUsage` and `Quota` run in different
processes, or at different times of one, and share no state. `MCParts` checks
them side by side: `part` says which of them a behaviour is of, the others rest
in an initial state. Their state spaces add up and do not multiply.

## 3. Abstractions

* Label columns (title, project, model, activity line, transcript path, terminal
  binding, `opened_at`) are left out of a row: no guard of a modelled mutation
  reads them. An event that writes only those is the identity.
* `HookLag` bounds how late a helper commits. The code bounds it by the busy
  timeout and the length of a transaction. 1 is enough for two commits to swap.
* `SweepDue` and `PruneDue` may happen at any instant of `Registry`: the 60 s
  cadence only restricts when. `Daemon` leaves that cadence open for the same reason.
* In `Daemon` the registry is one of a few contents (`a`, `b`, and `bad`, whose
  projection throws). A history entry remembers whether the daemon wrote it.
* The log records `clock_jump` and `tick_stall` are left out; nothing reads them.
* Ages in `Daemon` are counted in poll intervals and saturate at `Stall`.
  Heartbeat 2 and Stall 3 keep the order of 5 s and 10 s; `PollStart(Stall)` is a
  poll after the host slept.
* The order of cards, and fields a row passes through, are left out of `Projection`, and
  of `ValidTopology` the throws over a Ghostty terminal bound to a child or to another
  provider's session, and over a row whose columns do not parse: the schema's CHECKs admit
  no such row (`src/core/schema.ts`), and no model writes those columns.
* In `EvenerCollector` a thread is closed, idle or active. Labels, turn ids,
  questions and escalations, system errors, delegate projections that contradict
  each other, page limits, the phases of the handshake and `stop()` are left out,
  and lineage is fixed, acyclic and unambiguous. All registry writes carry one
  instant: the collector writes in the order of its instants. The list of threads
  closed during a refresh is left out because it never decides: a close also
  changes the generation, which is compared first.
* In `BoardView` there is one card; what two cards share is the latch and the
  gate, which do not look at cards. `MCBoard` splits the budget of faults: either
  the card gets results and nothing fails, or the card is empty and reads,
  emits and publications fail and the machine sleeps. So a failed read while
  a dismissal is out is not covered. A card without a result to consume (viewed, or still
  working) is not flicked: its acknowledgement has no watermark and takes nothing. One
  slide of the card runs at a time. Ages saturate just past `Stale`; `Burst`,
  `Stale`, `Grace` and `Hide` are one instant each, so each runs out.
* A press, a drag and the slide of a card are separate in `BoardView`; which of them a
  stroke turns into is `Touch`, where in turn a snapshot is any new set of cards.
* `Touch` follows the primary pointer only, as the code does. The geometry of the
  fling is left out: a release pages to a neighbour or snaps back. It is assumed of the
  browser that a click belongs to the stroke before it and no longer comes once the
  next pointer is down. `SheetTap` lets the sheet's Open and its two
  actions end in a dismissal, which is also what a tap on a button that was
  disabled meanwhile does (`app/src/src/main.ts:680`).
* `Migrations` has one initialiser at a time (section 5), takes the atomicity of a
  transaction from SQLite, and follows of the rows only whether a column still
  holds what it held. The copied values of a rebuild are the columns themselves.
* `CodexChildren` leaves out titles, models and paths; the incremental reader's
  buffering and its byte budget are an answer or none.
* `TokenUsage` leaves out the bound of 96 points per curve (a day of 25 hours has
  50 half hours), the day, total and instant of the last answer, which the file
  carries and nothing reads, and a clock set back while the helper runs.

* `Quota` keeps of a measurement its instant and of an identity its place among the
  digests. Percentages, reset times, extra windows, the kind of an issue, the
  `unavailable` display, history, the providers' own readings and the widget
  snapshot are left out. It is assumed that a source's readings are not older than
  those it gave before, that a run which exits without an error names every
  account, and that what a source calls its last good reading may be of any age.

Bounds, all in guards or in the configurations: `MaxClock`, `HookLag`,
`MaxHistory`, `MaxFaults`, `MaxChanges` (what happens at the hub after the
collector starts), `MaxPubs`, `MaxResult`, `MaxReads`, `MaxGestures`,
`MaxStrokes`, `MaxSheets`, `MaxCrashes`, `MaxTick`, `MaxCommits`, `MaxReopens`,
`MaxInstant`, `MaxTotal`, `MaxMishaps`, `MaxReading`, `MaxUpsets`, and the finite sets `Session`, `Agent`,
`PaseoPasses`, `Faults`, `Card`, `Kid`, `Account`.

## 4. What the runs check

The slices of `MCRegistry` and `MCLineage` use the actions of `Registry` and
restrict which of them, and with which parameters, so every behaviour of a slice
is a behaviour of `Spec` (for lineage: from tables that a few hooks and one pass
produce).

**registry_tree** (2 805 distinct states). Four sessions of two providers, three
of them Evener threads under symmetry; every start, late join, re-parenting,
stop, end, clear and reconciliation, at one instant.
`SchemaConstraints`: no write violates the unique slot index, the root/child
check or the foreign key. `NativeForest`: no order of re-parentings ties a cycle.
`SlotsReused`: churn never pushes a card beyond the number of sessions. Three
threads are the smallest number that allows a cycle through a grandchild.

**registry_ledger** (864 059). One session, four instants, hooks and gestures up
to one instant late, watermarks of every kind and age, Paseo records with any
stamps, sweep and prunes. `UnreadStopsClock`: an unviewed result never has a
running expiry clock. `ClockFollowsResult`: the clock that will retire a done
card started after that result. `NothingStaleResurfaces`: what the user has dealt
with does not come back from an old Paseo record. `LedgersClearOnlyByRelease`:
only a view, a dismissal, a new start or the sweep empties a ledger, and the
sweep takes only viewed ones. In particular a compaction, whose SessionStart looks like a new
start but is none, empties nothing (`CompactionReleasesNothing`), and a gesture
leaves a result alone that is newer than the stamp it was made with, or that it has no
stamp for (`NewerResultsSurvive`). The two have a mutant each. `SettleWithinHookLag`: a repaired turn end is never
older than the turn by more than a hook's lag. One session suffices because no
ledger column of one row is read by a write to another; what crosses rows
(subtrees) is the lineage run's, and `LedgersClearOnlyByRelease` is proved of any table. Lease, expiry and grace are one instant, so
each expires, and with four instants a result can land, be viewed, expire and
land again.

**lineage** (312 480). Three rows, six overlay passes: nesting, take-over, double
claim, cycle, flag with settlement, archive; turn ends, a failure in a native
helper, gestures, sweep and prune. `ProjectionNeverThrows`; `NewsOnExactlyOneCard`;
`CarriedStatusIsSubtreeMax`; `GesturesCoverTheCard`: a press leaves the card nothing
unviewed, a dismissal releases every result the card shows and takes it off the
board, unless something is there that no dismissal may touch: a row below it
that runs, a failed native helper, or a result newer than the card showed
(`MayNotBeDismissed`); `PruneSparesUnviewed`: a prune takes whole trees and none
that holds an unviewed result; `RotationLeavesOneClaimant`: after a provider
session was rotated, the agent's ref has one carrier again. Three rows are the
least that give a chain of two links, an ambiguous claim with a third party, and
native next to Paseo lineage.

**daemon** (430 655). Three commits, foreign or own, one fault of any of eight
kinds. `FeedKept` is the refinement of `Feed`. `ExternalCommitsReachTheBoard`
(liveness): each foreign commit is shown, or something newer is.
`FreshAfterGoodPoll`: whatever path a poll takes, if its writes worked the file
is younger than the heartbeat. `StallAloneNeverReports`: the overdue record
needs a failed write in that poll. `NoResultOverwritten`: a sweep is never in
flight over an unapplied result. `PaseoSweepKeepsRunning` (liveness).
One fault is enough for each step to fail once at every place; faults in pairs
are only needed where a failing publication follows a failure, and those are
not covered by this bound.

**evener** (679 720). A root and its child, the hub in any state when the
collector starts, two changes at the hub, one lost connection, expired read or refused
place.
`IndexIsCurrent`: at rest the index knows every thread of the board, and none as
open that is not. `RefreshPutsRight`: when a refresh is accepted with no
notification on its way, the rows are the hub's, except for children that were
`Missed` before: working threads whose row a cascade took, or the row of one above
them, while the collector still believes it registered (section 5). `RowsCatchUp`
(liveness): once the hub is at rest the rows agree with it for good, with the same
exception. At this bound nothing is ever missed; the exception is there because the
statement is proved for every tree and any number of changes. Two changes are what it takes
to change a thread after its answer was taken and once more while the repeated
refresh runs; the safety properties also hold with three changes and no fault
(3 134 102 states). What is claimed of rows stops where the code does: a refresh
removes children and archived roots, but never a root that closed while the
collector was away, and a late answer of `subscribeLive` may put an archived
thread back until the next refresh. So `IndexIsCurrent` says nothing of archived
threads, and the claim about rows is made when a refresh is accepted, and in the
end.

**board** (438 563). Two publications, two results, two reads in flight, two
gestures, one fault. `NewestIsIngested`: when no gesture owns the board, what was
last submitted has been ingested and the latch is empty. `ReadsNeverRegress`: only
a push replaces a payload by an older one. `NothingUnseenHidden`: a card is
hidden only while it shows what the user had pressed. `NothingUnseenConsumed`: no
acknowledgement empties a result that was not on the screen when the finger went
down. `BoardGoesOffline` (liveness): once publications stop the view ends
degraded. `HiddenCardsReturn` (liveness): no hide is for good. Two publications
and two reads are what it takes for an older answer to overtake a newer one; two
results, for one to land between press and flick.

**parts** (399 642), the sum of five. *Touch* (35 764: two pages, two strokes, one
card, three sheets): `ClickSettlesItsOwnStroke`, a pointer's click settles the
press of its own clean stroke and no other; `DragHasItsStroke`, a drag that defers
the board has a live stroke to end it; `SheetsKeepApart`, a late answer neither
closes nor reopens another sheet, and Clear goes out on the second of two taps
on one sheet. *Migrations* (every version, every shape, two crashes):
`UpgradeKeepsTheRows`, at the latest version every column is there, and nothing
that was there at first was dropped or cleared on the way but activity lines;
`InitConverges` (liveness), no interruption bricks a registry. *CodexChildren* (a
child and its child, three instants, one hook besides the root's start, one
reopening): `StoppedStaysGone`, a sweep registers no child whose row a hook
deleted while it was out; `EndedChildrenLeave` (liveness), with every stop hook lost
the children leave all the same. *TokenUsage* (172 853: two and a half days of two half
hours, two samples, totals 0 and 1, two mishaps): `CurvesReadable`, what would be published
is accepted by its reader and yesterday is the day before today;
`GuardKnowsTheFile`, what the collector takes to be in the file is there. *Quota*
(20 695: three accounts of which two may be kept, two instants, three upsets):
`QuotaReadable`, the accounts published are accepted by their reader, whatever
labels were given to accounts that came, went and returned; `KnownAccountsStay`, an
account the source still has keeps its row, its label and its latest measurement
through every partial, ambiguous or missing answer. Three accounts against a limit of two
let an inventory overflow, and a label be free below one that is taken. Two
strokes are the least for a press of one to meet the click of another; one hook is
enough to fall between a sweep's reading and its application. The same properties
hold on larger instances: *Touch* with two cards (374 904), *CodexChildren*
with three hooks (904 000), *TokenUsage* with other totals and instants
(2.6 million).

*Fairness.* `WF(PollStep)`: `setInterval` keeps firing and a poll is a finite
synchronous function. `WF` of settling each promise: the sweeps are file reads
that end; the loader has no unbounded wait. No fairness is assumed of foreign
processes, of commits, or of faults not happening; faults are bounded by number,
which is what "eventually" needs. In `EvenerCollector` it is assumed that the hub
answers, that what is on the wire comes off it (delivered, or lost with the
connection), that timers fire and that a reconnect is attempted (`connect` is
rescheduled after every disconnect). A request that is never answered is the
timeout, a fault. In `BoardView` time passes, the watchdog, the timers and the
slow pass fire, calls across the bridge return, pushes on their way arrive and
animations end; nothing makes the daemon publish, the watcher deliver or the user
act, so `BoardGoesOffline` rests on the board's own timers. In `Migrations` an init that
started runs and one that failed is started again (the `init` command is the only
way to a registry that opens). In `CodexChildren` the daemon keeps sweeping; nothing makes a turn move
or a hook run.

Five runs find a counterexample, see the next section.

Every property of a passing run has a mutant of the code's definition under
which TLC finds it violated; they are defined next to what they change and
listed in `PROJECT.json`.

## 5. Where code and documentation disagree

* **settle_race**: the settle repair of a Paseo record can end a turn that
  started after the record was written. It compares the record's stamp with
  `updated_at`, which a late hook moves back. The comment at
  `src/core/registry.ts:1196` excludes this. `SettleWithinHookLag`, which holds,
  bounds the damage.
* **unseen_error_expires**: an error that arrives as a repaired status inherits
  the view clock of an earlier look at the working card and is retired unseen. In
  TLC's trace a reconnect finds the session working, its card is pressed, the next
  reconnect finds it in error, and the sweep is due for it.
  The header at `src/core/registry.ts:46` says a fresh result clears the clock.
  The invariant `UnreadStopsClock` does not catch it, since the repair sets no
  `unread_since`.
* **own_commit_lost**: after maintenance has committed and the snapshot write
  has failed, nothing makes the next poll publish. `src/core/daemon.ts:223` says
  the next poll retries. The liveness property that does hold is about
  commits of other processes.
* **facts_sweep_stops**: a read that throws between `factsInFlight = true` and
  the sweep's promise leaves the flag up for the life of the process.
  `PaseoSweepKeepsRunning` holds for the other sweep, whose start cannot throw
  before the promise exists.

* **nested_child_lost**: a child's turn ends and its row is deleted; the rows of
  its own children go with it, by the foreign key, while `registered` stays up
  for them in the collector. When the child works again, the still working
  grandchild gets status updates for a row that does not exist, and every later
  refresh repeats that. A grandchild is not needed once a connection is lost: a child
  closes while nobody listens, then its root is unloaded by a status of its own.
  `handleStatusNotification` (`src/core/evener.ts:1438`) takes the root alone out of the
  indices, the end of the session cascades to the child's row, and the child's flag
  stays up; reopened and working, it stays off the board. That takes four changes
  and a fault, more than **evener** has, and came out of the proof of
  `RefreshRights` (section 6.5). Line 60 of
  `docs/superpowers/specs/2026-08-31-evener-delegate-tracking-design.md` promises
  a non-terminal child run a place under its active parent. The run checks
  `RefreshIsAuthoritative`, which is `RefreshPutsRight` without the exception.

Seen while modelling, without a run of their own:

* A push is what the watcher read when an event fired, and may reach the webview
  after a read that saw a newer file. The comment at `app/src/src/main.ts:436` calls a push
  freshest by construction. It regresses the view until the next event or read;
  `ReadsNeverRegress` makes its claim of reads only.
* A slide of a flicked card that ends while a drag defers snapshots hides the
  card only in the flush: the card is back on the screen until the drag settles.
* A click without a pointer (keyboard, assistive technology) on a band settles
  whatever press is still waiting for its click. `ClickSettlesItsOwnStroke` is about
  pointers.
* `initializeDatabase` reads the version once, before its transactions
  (`src/core/schema.ts:732`). Of two `init` commands at once, one that read 7 may come
  to `migrateToV8` after the other has finished: its stamp takes a complete table
  back to 8, and the `ALTER` of version 9 then fails in this and every later init,
  the hazard the comment at line 769 keeps away from a single one. `Migrations`
  has one initialiser at a time.
* After the daemon reopens its connection an old sweep may compare equal and
  register a stopped child once more. `StoppedStaysGone` excepts that case;
  `EndedChildrenLeave` says the child leaves again.
* A hook of a child that is stamped later than the recorded end of its turn keeps the
  row: the sweep sees a row newer than its evidence. If no stop hook follows it
  stays until the prune. Hooks of `CodexChildren` run while the turn works.
* `titles.ts` keeps a failed read as "nothing" under the file's stat, so a label
  that could not be read once stays away until the file changes.

## 6. What is proved

### 6.1 The registry's table

`RegistryProofs` proves, for every finite set of sessions, every provider
assignment, every set of overlay passes and every value of the bounds:

| theorem | statement |
|---|---|
| `TypeCorrect` | `Spec => []TypeOK` |
| `SchemaRespected` | `Spec => []SchemaConstraints` |
| `ForestKept` | `Spec => []NativeForest` |
| `UnreadNeverExpires` | `Spec => []UnreadStopsClock` |

All four follow from `Safety == Spec => []IInv`. The inductive invariant says
that the table is *sound*,

    Sound(tbl) == IsTable /\ SlotsValid /\ ParentsValid /\ Forest /\ ClocksStopped

and that during an overlay transaction the saved table `txn.before` is sound too.
Without that second half a rollback could restore anything; without
`ParentsValid` and `Forest` together a deletion could leave a child behind, and
without `SlotsValid` and finiteness the lowest free slot need not exist.

`RegistryTableProofs` has one lemma per mutation (`SessionStartSound`,
`SubagentStartSound`, `SyncPaseoRecordSound`, ...): a sound table in, a sound
table out. They rest on three shapes of change. `RewriteSound`: a rewrite of rows
that keeps parent, slot and the clock rule is sound; the `...Keeps` lemmas show
each row operation is such a rewrite. `DeleteRowsSound`: deleting rows with their
native descendants leaves no orphan. `InsertRootSound`, `InsertChildSound` and
`ReparentSound`: a new root takes a free slot (`FreeSlot`, from a counting
argument), a new child hangs below a row of its provider, and moving a child
below a row that is not its descendant keeps the forest. In the last one, a set
without a root in the new tree would, closed upwards, be one in the old tree or
contain the child among the ancestors of its new parent.

### 6.2 The registry's ledgers

The second half of `RegistryProofs`:

| theorem | statement |
|---|---|
| `SlotsBounded` | `Spec => []SlotsReused` |
| `ClocksFollowResults` | `Spec => []ClockFollowsResult` |
| `StaleStaysAway` | `Spec => []NothingStaleResurfaces` |
| `ResultsReleasedOnly` | `Spec => LedgersClearOnlyByRelease` |
| `SettleLagBounded` | `Spec => SettleWithinHookLag` |

They follow from `LedgerInv`, which adds to `IInv` that each row is *sane* at the
present instant (`Sane(row, clock)`): no stamp of a result, a dismissal or a turn
lies in the future; a view is at most `HookLag` older than the result it covers
and an unviewed result at most `HookLag` older than the last dismissal; while a
session is active, `updated` is at most `HookLag` behind the start of its turn
(what the settle repair relies on); and no slot exceeds the number of sessions,
because the lowest free slot never does (`FreeSlot`). The first line is what makes
the others inductive: a hook is at most `HookLag` late, so whatever it stamps can
be compared with any stamp that is not in the future. `ViewedSane` and its
like say it of one row operation, `SessionStartSane` and its like of a mutation.

While an overlay transaction is open the invariant also speaks about what the
transaction has done so far (`PendingSane`): the saved table is sane, no record
applied until now took a result out of it, and the records still to apply date
from the past. A commit shows the user all the records at once; without the second
part it could hide a lost result behind several steps.

`ResultsReleasedOnly` has three parts. What empties a ledger is found by going through
the operations of `Next` (`ReleasedOnly`). A compaction is a `SessionObserved`, which at most
adds a row and retains the ledgers of the others (`CompactionKeeps`). A gesture's stamp is compared with each row
of the subtree it reaches and not only with the pressed one (`GestureSparesNewer`,
`NewerSurvive`), so the statement holds at any depth of Paseo lineage.

### 6.3 Lineage, the projection and gestures

`LineageProofs` proves of the same specification, for every table it can reach:

| theorem | statement |
|---|---|
| `PruneTakesWholeTrees` | `Spec => PruneSparesUnviewed` |
| `RotationResolves` | `Spec => RotationLeavesOneClaimant` |
| `CarryIsSubtreeMax` | `Spec => []CarriedStatusIsSubtreeMax` |
| `ProjectionTotal` | `Spec => []ProjectionNeverThrows` |
| `NewsOnOneCard` | `Spec => []NewsOnExactlyOneCard` |
| `GesturesCover` | `Spec => []GesturesCoverTheCard` |

* *Prune.* What is kept is an intersection of sets closed along both kinds of
  links, hence closed itself (`KeptClosed`). The rest is deleted by its roots, and
  the cascade takes exactly the rest: a row not kept has a root above it
  (`RootAbove`, from the forest) and nothing kept between (`CascadeOfRoots`).
* *Rotation.* The property is about a commit, the work is done record by record:
  `RotationInv` says that the records applied are the first `k` of the pass and that
  each of them left its agent one claimant. A later record of the same agent is of
  the same session, and one of another agent adds no carrier (`SyncCarriers`).
* *Chains.* The Paseo links that survive `PaseoLinks` never lead back
  (`LinkChains`). Of such links: what a session reaches is a line (`AncestryLinear`)
  with an end (`ChainEnds`: the one that reaches fewest would otherwise have a
  successor that reaches fewer), and every property that holds at the end has a
  first place where it holds (`FirstAbove`).
* *Carry.* `CarriedFrom(tbl, status, walked)`: each root shows the native status of
  some root below it, and ranks no lower than any root in `walked` below it. It
  holds with nobody walked, and a walk adds the walker (`CarryWalks`): every
  ancestor meets either the walker's status or a higher one that some root between
  them already had. So after the last slot all roots count, in any slot order.
  `Carry` is a recursive function, and that its defining equations have a solution
  is itself a lemma (`FoldExists`, by the least prefix without one).
* *Cards.* `ProjectionTotal` needs two facts: the schema's constraints are what
  `ValidTopology` asks (`TopologyHolds`), and whoever is published below another
  has it published, since status is carried all the way up (`GraphHolds`). A result
  is on the card of the first root from its own upwards that is not idle or names
  nobody (`ResultHasOneCard`).
* *Gestures.* What a gesture on a card reaches are the roots whose links lead to it,
  which contain what the card rolls up (`GestureReach`); the card's stamp is the latest
  of theirs, so it covers each (`StampCovers`). A gesture changes no link
  (`SameLinks`), and a card that stays although nothing under it may resist
  dismissal would show a status that no row below it has. The theorem could not be proved
  of the property as it was first stated, and TLC then found why: a failed native
  helper below a card keeps it on the board through a dismissal, because
  `acknowledgeSession` settles roots only. `MayNotBeDismissed` now says so.

Assumptions used in 6.1 to 6.3: `SessionAssumption` (finitely many identities, a
provider for each), `NullAssumption` (markers differ from values), `ClockAssumption`
(bounds are naturals; passes are sequences of shapes). TLC evaluates them on every
run.

### 6.4 The other components

Each of the following modules proves theorems of the components it extends, for
every value of its constants:

| theorem | module | statement |
|---|---|---|
| `DaemonImplementsFeed` | `DaemonProofs` | `Spec => FeedKept` |
| `FreshBetweenPolls`, `ResultsKept` | `DaemonProofs` | `Spec => []FreshAfterGoodPoll`, `=> []NoResultOverwritten` |
| `OverdueNeedsFailure`, `DaemonTypeCorrect` | `DaemonProofs` | `Spec => StallAloneNeverReports`, `=> []TypeOK` |
| `NewestAlwaysIngested`, `HiddenWasSeen` | `BoardViewProofs` | `Spec => []NewestIsIngested`, `=> []NothingUnseenHidden` |
| `ReadsNeverTakeBack`, `OnlySeenConsumed`, `BoardTypeCorrect` | `BoardViewProofs` | `Spec => ReadsNeverRegress`, `=> NothingUnseenConsumed`, `=> []TypeOK` |
| `MigrationsTypeCorrect`, `UpgradesKeepTheRows` | `PartsProofs` | `MigrationsSpec => []MigrationsTypeOK`, `=> []UpgradeKeepsTheRows` |
| `DragNeverStranded` | `PartsProofs` | `TouchSpec => []DragHasItsStroke` |
| `ClicksSettleTheirOwn`, `SheetsApart` | `PartsProofs` | `TouchSpec => ClickSettlesItsOwnStroke`, `=> SheetsKeepApart` |
| `StoppedChildrenStayGone` | `PartsProofs` | `ChildrenSpec => StoppedStaysGone` |
| `WriteGuardKnowsTheFile`, `YesterdayNeverMislabelled` | `PartsProofs` | `TokenSpec => []GuardKnowsTheFile`, `=> []YesterdayIsTheDayBefore` |
| `CurvesStayReadable`, `TokenTypeCorrect` | `PartsProofs` | `TokenSpec => []CurvesReadable`, `=> []TokenTypeOK` |
| `IndexStaysCurrent` | `EvenerProofs` | `Spec => []IndexIsCurrent` |
| `RefreshRights`, `RowsFollowLineage` | `EvenerProofs` | `Spec => RefreshPutsRight`, `=> []OfThreads(rows)` |
| `AccountsKept`, `InventoryReadable` | `PartsProofs` | `QuotaSpec => KnownAccountsStay`, `=> []QuotaReadable` |

* *EvenerCollector.* Section 6.5.
* *Daemon.* The safety invariant is `PollInv /\ SweepInv`. `FileInv` says that a
  remembered snapshot is the one in the file, that the board has been brought to
  some committed entry, and that a projection on its way out is of an entry not
  before that one. So a publication is a `Show` of `Feed`, a failure a `Fail` (also
  where nothing is written, since the file then holds that failure already), a
  commit a `Commit`, and a heartbeat stutters: it rewrites what is there. `WriteInv`
  is what makes the heartbeat argument work on every path: a poll that reaches its
  end without a snapshot has failed to write one, and a healthy daemon has one.
  `SweepInv` follows the poll through the maintenance: once it is past the place
  where a result is applied, that result is gone until the sweep starts, and
  promises settle between polls only. Most actions change none of this; `Quiet`
  says so once for all of them.
* *BoardView.* `LatchInv` says where the newest evidence is (ingested, or in the
  latch of a gesture in progress); `ClaimInv` that at most one read holds its
  claim, and nothing newer than its answer was submitted since it was made, which
  is what the order of the answers rests on; `SeenInv` that every watermark out
  (captured, in the slide, in the hide, on its way to the registry) is one the user
  pressed; `ShownInv` covers the time before the first payload.
* *Migrations.* `UpgradeKeepsTheRows` says something of the last version only and is
  not inductive. The invariant adds `Shaped` (the columns are those of the stamp,
  give or take what branch builds left at 7, 14 and 16) and `Placed` (at each
  step of an init the stamp is the version it read or the version the steps
  before have reached, whichever is higher). Together they give every `Rebuild`
  exactly the table whose columns it copies: no column is dropped.
* *Touch.* `DragHasItsStroke` is inductive only together with the typing of the
  recogniser and with `~stroke.long` (a held stroke whose release is reported as a
  hold would not release the drag): each way a stroke ends (up, cancel, loss of the capture,
  the sheet taking the pointer) either was not a drag or passes the release
  on.
  `ClickInv` ties a captured press to the live stroke and a press that waits for a
  click to the stroke that click trails, unless the click will be swallowed; so
  every path that leaves a press behind either drops it or arms the suppression.
  `SheetInv` ties an answer of the current generation to the open sheet it was
  asked from, and an armed Clear to the last tap; opening, dismissing and a card that
  left the grid all advance the generation, which is what leaves older answers
  without effect.
* *CodexChildren.* The property is of one step, the application of a sweep. The
  invariant ties the ghost to the guard: while a hook has removed rows unseen by
  a sweep whose connection still counts, its version has `moved`; then the guard
  refuses it.
* *TokenUsage.* `written` is set with `published`, or from it; the order of days
  follows since a day only becomes yesterday as the day before the new one.
  `CurvesReadable` is inductive as `CurvesInv`: usage, file and guard each hold curves whose
  points ascend strictly in time and do not fall in total, and a ring within its limit. An
  appended point is later than the last one and takes the running maximum. A
  recovery is the hard case: points and samples become one set of instants, each
  with the largest total at or before it. `InOrderSorts` says that `InOrder` lists a finite set
  in order, each member once: the rank of a member is one-to-one, so by counting every
  rank up to the cardinality is taken and the `CHOOSE` of `InOrder` is determined. That
  a sample is never below an earlier point, or above a later one, is not needed: the
  maximum over what is earlier ascends whatever the samples say (`RecoverKeeps`).
  Keeping the last point of each half hour is a selection by an ascending list of
  indices, so it ascends too (`RetainKeeps`).
* *Quota.* `KnownAccountsStay` is of one step; it rests on the invariant that no row is
  measured later than now, so a fresh reading is never the older one, and on what an
  answer is (`IsAnswer`): a complete one names every account, and what it calls read is
  of now. Each pass is shown to hand such an answer to `Collect`. `QuotaReadable`
  is inductive once rows and file are both accepted by the reader and Claude's
  labels are its slots (`InventoryInv`). The work is in what a pass may list
  (`IsListing`): one active account, and for a new account a label no row and no
  other new account has. For Codex that is the argument that the new accounts
  are numbered in order from above the highest label in use, so none meets another.

They assume `MigrationsAssumption`, `TouchAssumption`, `CodexChildrenAssumption`,
`TokenUsageAssumption` and `QuotaAssumption`, which TLC evaluates in **parts**, `EvenerAssumption`
and `EntryAssumption` (in **evener**: parents are threads without a cycle, all of one
provider; `Null` is no entry and no set of threads), `DaemonAssumption`
(in **daemon**: the heartbeat is shorter than the stall threshold, markers are no
contents) and `BoardViewAssumption` (in **board**: positive bounds). The
type invariants of `Registry`, `Daemon`, `BoardView`, `Migrations` and `TokenUsage` are proved
and no run spends itself on them; those of the other modules hold in the same
instances, where they were added to the configuration.

### 6.5 The Evener collector

`IndexIsCurrent` is about a moment of rest; `EvenerInv` says what holds before it,
thread by thread. A message *tells* a thread when it is a notification of that
thread, or one that takes more than it names (a closing, an invalidated
navigation), which tells everyone. The invariant's parts:

* `WireInv`: the last message about a thread says how the thread is. Hence what
  the notification of a finished turn does to the index does not matter: the
  status that the hub sends after it is still to come.
* `RefreshInv`: a refresh has one answer on its way at most, and what it has
  gathered contains every thread's parent. So it is never rejected for a missing
  parent (`AdvanceSteps`).
* `GatherInv`: a refresh is `Doomed` once it is stale or will hear of a change
  before its answer. What any other has gathered, and what its answer says, is
  right of every thread that nothing on the wire tells about. This is the
  generation check: a change between taking and sending an answer is told ahead of
  the answer, so the refresh is doomed, and stale when the answer comes.
* `IndexInv`: when only the interval is due, the index is right of every thread
  that nothing on the wire tells about. At rest the wire is empty. After a rejected
  candidate (`"retry"`) nothing is claimed of the index until the next refresh.

The hub's actions are covered by one lemma (`HubTells`: of a thread that is not told
nothing is new, and what is told last is so). For the collector's there is one per
kind of delivery. The handlers are reduced to what they do to the index
(`HydratePlaces`, `NoticeEffect`, `AcceptAccepts`); the sweeps over the candidate
are a recursive function, which is shown to have a value (`SweepsUnfold`, by
`FoldExists`) and to lose no thread on any turn (`SweepsKeep`).

`RefreshPutsRight` is about the rows. `SaneInv` adds to `EvenerInv`:

* the rows are `OfThreads`: a sound table in the sense of section 6.1 in which every row
  has the parent its thread has. That is `RowsFollowLineage`, an invariant in its
  own right;
* the entries of the index, of the candidate and of the objects that reads hold on to
  are entries of their threads (a child is never marked failed), and a read has an
  object of its own or its thread is in the index.

It holds because each handler changes rows in one of three ways, all through the
lemmas of `RegistryTableProofs`: a row is rewritten in place (`StatusTakes`,
`EventTakes`), put below a parent that has a row (`SessionTakes`, `SubagentTakes`), or
deleted with everything below it (`EndTakes`, `StopTakes`). `LocalElsewhere` says
what that means for another thread: unless it is below the thread concerned, nothing.

An accepted refresh is then taken apart in the order of `AcceptCandidate`. The sweeps
hydrate a thread only if its parent is registered, in whatever order the children
come. `Depth(s)` counts the threads from `s` upwards; sweep `d` reaches every thread of
depth `d` after its parent, so thread `s` is in place after turn
`(Depth(s) - 1) * size + place[s]`, and there are as many sweeps as threads
(`SweepsShow`, by `Stepwise` over the turns). Once in place it stays there: a later turn
of the same thread does nothing, a thread of the board only adds its own row, and a
thread that is cleaned up is above none of the board (`TurnSweeps`). The reconciliation removes idle children, everything under an archived root
and the archived roots (`AcceptShows`). `AcceptAgrees` compares the result with the
hub: with nothing told on the wire, `GatherInv` makes the candidate right of every
thread of the board, and the index is all of the board, because a list is closed
under parents (`BoardUpClosed`).

The exception `Missed` is what the proof needed: the sweeps put no row under a thread that
is registered already (`Wanted`). Nothing the collector does keeps flag and row
together, not even in a tree of depth one: a root that is closed by a status leaves the
indices alone, and its children keep their flags (section 5).

The proof found the model of the hub incomplete: with four changes, a late answer
of `subscribeLive` could put an archived root back into the index without its
child, and the turn that then brought the root back told nobody of the child. The
navigation that changes with it is told now (section 2.4). Two definitions
were put into a form that can be reasoned about: the sweeps are a recursive
function instead of nested folds, and a refresh that is not there is `NoRefresh`
rather than `Null`, from which a record cannot be told by its fields.

`NaturalSetTheorems` holds the arithmetic these proofs share: the least and the largest
member of a set of numbers, induction up to a bound in the form of a set (`Stepwise`, which
needs no operator as a parameter), the value of a bounded recursion (`FoldExists`) and
division with a remainder (`MoreTimes`, `Remainder`).

### 6.6 What is not proved

Every invariant and every action property that a passing run checks is proved, for
every value of the constants. Liveness
(`ExternalCommitsReachTheBoard`, `PaseoSweepKeepsRunning`, `RowsCatchUp`,
`BoardGoesOffline`, `HiddenCardsReturn`, `InitConverges`, `EndedChildrenLeave`) is
out of the prover's reach. The type invariants of `Touch`, `Quota`,
`CodexChildren` and `EvenerCollector` are proved only as far as the theorems
above need them.

## 7. What is not modelled

* Of the quota collector the providers without accounts, and the read of the widget
  snapshot that may hang (below). Of the Evener collector, and of the other
  modules: what section 3 lists.
* Two initialisers of one registry at once (section 5).
* The label resolvers of `titles.ts` and the Paseo loader: they fill columns and
  records that the models take as given; `PaseoPasses` are any records.
* The board's grouping, packing, layout and drawing, and window placement.
* The busy retry and drop of a hook: a dropped hook is a hook that did not happen,
  which every interleaving already contains.
* Argument and payload parsing, the loaders of provider files, terminal
  discovery, diagnostics, drawing, installation: no state that another part
  reads, or pure input and output.
* SQLite: a transaction is atomic and durable, `BEGIN IMMEDIATE` excludes other
  writers. These are taken from how the code uses it.

## 8. Plan

Built, in order: `RegistryTable`, `Registry` (most of the product's promises are
its ledgers), `RegistryTableProofs`, `RegistryProofs`, `Projection`,
`RegistryBoard`, `Feed`, `Daemon`, `EvenerCollector`, `BoardView`, `Touch`,
`Migrations`, `CodexChildren`, `TokenUsage`, `Quota`, and the proofs of each.

Next, in order of importance:

1. The rest of the quota collector: the providers' own readings, and the widget
   read that may hang and is then left pending for good.
2. `Migrations` with two initialisers: which interleavings heal at the next
   start, and which leave a stamp below the shape.
3. `EvenerCollector` with questions, system errors and ambiguous delegate
   projections, and with the user's gestures on its rows: a dismissed error
   returns with the next refresh while `failedTurn` lasts.
4. Proofs: the type invariants not stated as theorems yet (section 6.6), and a
   bound on how long a child can stay missed.

## 9. Running the checks

    tlc -workers 2 -config registry_tree.cfg MCRegistry.tla
    tlc -workers 2 -config lineage.cfg MCLineage.tla
    tlc -workers 2 -config daemon.cfg MCDaemon.tla
    tlc -workers 2 -config evener.cfg MCEvener.tla
    tlc -workers 2 -config board.cfg MCBoard.tla
    tlc -workers 2 -config parts.cfg MCParts.tla
    tlapm NaturalSetTheorems.tla
    tlapm RegistryTableProofs.tla
    tlapm RegistryProofs.tla
    tlapm LineageProofs.tla
    tlapm DaemonProofs.tla
    tlapm BoardViewProofs.tla
    tlapm PartsProofs.tla
    tlapm EvenerProofs.tla

`PROJECT.json` names the module and configuration of every run, the lines each
definition models, and the mutants.
