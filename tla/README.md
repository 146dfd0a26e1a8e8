# TLA+ for the npm dependency dashboard

TLA+ models of the dependency dashboard, a Visual Studio Code extension that
shows a project's dependencies and upgrades, removes or fixes them on the
user's behalf. The modules are checked with TLC on small instances, and the
theorems about them are proved with TLAPS for every value of their constants.
`PROJECT.json` maps every definition to the lines it models and lists the runs,
the theorems and the hazards the properties are about.

Paths below are relative to `src/src/` unless they start with another directory.

## 1. The system

One panel (`host/dashboardPanel.ts`) shows one selected project. A controller
scans it and answers the webview's messages; the upgrade assistant reviews and
executes changes of it; watchers and Git tell both that files changed under
them. Everything runs on the one thread of the extension host, so what
interleaves is the code between two `await`s: messages, watcher events, timers,
ends of child processes and of HTTP requests arrive at every `await`, and state
read before one may be stale after it. The files are shared with the package
manager, with verification scripts and with the user's editor, which are
concurrent in the ordinary sense.

| Component | State it keeps | Operations and interaction | What is hard | What makes it correct |
|---|---|---|---|---|
| Upgrade transaction (`host/upgradeTransaction.ts`) | snapshot, expected states, stage results | snapshot, stage, install, capture, verify, decide, roll back; called by the assistant, writes through a file adapter | cancellation and edits by others at every await; one file of several fails | the report tells the truth about the files; nobody's edit is overwritten; cancelling wins and ends |
| Node file adapter (`host/nodeUpgradeTransactionFiles.ts`) | temp and claim files | `read`, `compareAndSwap`: temp file, claim, second comparison, rename, cleanup | edits between comparing and renaming, failures of a later step, the death of the process | a swap that answers "restored" replaced what was compared, up to a window the code documents; what carries the name is whole |
| Upgrade assistant (`host/upgradeAssistantCoordinator.ts`) | stored reviews, pending requests, abort controllers, cancellation flags | analyze, cancel, confirm, execute for upgrades, removals, transitive fixes and Smart Cleanup removals | every review has many awaits; cancel, remount, watcher events, expiry and closing race them | nothing dismissed is shown, nothing stale is executed, one writer, nothing leaked |
| Operation reservation (`host/operationReservation.ts`, `upgradeTracker.ts`) | held package, mutating flag, source generation | `reserve`, `beginMutation`, `release`, keyed by package name | released by several paths for several reasons | mutual exclusion; always given back |
| Runner and session (`host/upgradeRunner.ts`, `upgradeAction.ts`, `packageManagerProcessRunner.ts`) | active runs, terminals, listeners, one child process of an analysis | run, cancel, dispose of package manager and script tasks; SIGTERM, then SIGKILL | end, failure to start and disposal race; a child ignores a signal or leaves descendants | each run settles once, with what its own tasks did; a stopped child is gone when its run settles |
| File change coordinator (`core/cache/fileChangeCoordinator.ts`) | pending and deferred kinds, reload chain | `notify`, `flush`, `flushAll`, `discardPending`; reloads through the panel | events during a reload, during a mutation, across a project switch | no event of the current project is lost, none is applied to another |
| Branch change coordinator (`host/branchChangeCoordinator.ts`) | generation, pending, running, timer | `notify`, `claim`, `deferClaimed`, `mutationReleased` | HEAD changes during a reconciliation, a mutation or the picker | the last HEAD is reconciled, older ones give up |
| Dashboard panel (`host/dashboardPanel.ts`) | selected project, reload generation, watchers | project switch, reload, mutation refresh, disposal | overlapping reloads; picker | the watchers and the controller belong to the selected project |
| Dashboard controller (`host/dashboardController.ts`) | rows, scan generation, revalidation and options generations | scan, hydrate from cache, refresh, eligibility for upgrades | reads that started before an event end after it | a row is eligible only while it was scanned from the current files |
| Write-back cache, etag store (`core/cache/`) | entries, dirty flag, flush chain | set, delete, batch, flush, dispose | failing flushes; disposal with a flush queued | what was set last is what is stored last; budgets hold |
| Project cache (`core/cache/projectCacheStore.ts` and the rest) | persisted snapshots | fingerprint check, freshness, background timer | boundaries of the TTL, clocks that are set | a stale snapshot is never taken for a fresh one |
| Async helpers (`core/async`, `core/registry/pool.ts`) | running workers | bounded pool, sequential batch, shared promise | abort and failures of single items | the bound; every item settles once, in order |
| Registry client (`core/registry/`) | one request: redirects left, listeners, what was received | metadata, downloads | what the server, the timeout, the limit and the signal do races | a request settles once, with what came first |
| Scan (`core/pipeline.ts`, `core/audit`) | promises shared by rows | advisories, audit, versions, version lists, rows | any request fails by itself; aborted at any await | rows say what is known and what is not |
| Usage analysis (`core/usage`, `host/usage/`) | current run, queued background request | manual and background analysis | replacement of runs, one queued slot | a request runs once or is answered as superseded |
| Smart cleanup (`core/cleanup`, `host/smartCleanup*.ts`) | open review, running evidence | usage, impacts, metadata, duplicates; select, confirm, execute | late answers of a replaced request; evidence that expires or is contradicted | files change for what was confirmed, on evidence that is still true |
| Upgrade planning, compatibility preflight (`core/upgrade`, `core/compatibility`) | none | the smart plan's search, targets, candidates, removal assessment | search under budgets; prereleases, pins, tags | agree with a reference definition |
| Advisories (`core/advisories`) | none | attribution, fix plans, fates, links | several copies, several chains, aliases, unreadable ranges | nothing is called fixed or safe that the graph does not prove |
| Parsing, graph, hygiene (`core/manifest`, `core/lockfile`, `core/graph`, `core/hygiene`) | none | npm's three formats and pnpm's, paths, duplicates | hoisting, workspaces, peers, aliases | every format of one installation gives the same graph |
| Webview (`webview/src/`) | tracked requests, rows held back, selections | handlers, effects and reducers of `App`, the table, the reviews | messages of the two sides cross | what the user can confirm is what the host would do |
| Webview protocol, presentation helpers | none | validators, filters, order, paging, metrics | counts and filters that disagree | the host's answers reach the screen; counts are those of the rows |
| Resolvers (`host/npmResolver.ts`, `pnpmResolver.ts`) | throwaway directories | dry resolutions in child processes | failures | part of an analysis |
| Project resolution (`host/projectReconciliation.ts`, ...), project compatibility, extension entry | none | keep or choose a project, rules over source text, registration | several candidates | not modelled, see section 6 |

`PROJECT.json` lists all of them with their files and what of each is not
modelled.

## 2. The modules

| Module | What it is | Its runs | Its proofs |
|---|---|---|---|
| `UpgradeTransaction` | `runUpgradeTransaction`, with the package manager, the user and the signal | `transaction`, `concurrent_edit` | `UpgradeTransactionProofs` |
| `UpgradeOutcome` | the abstract upgrade: untouched, changing, undoing, settled | refined in `transaction` | refinement proved |
| `FixResult` | what a transitive fix reports of the transaction's end | `transaction` | `UpgradeTransactionProofs` |
| `DependencyOperations` | reviews and executions over the one reservation | `operations`, `operations_liveness`, `one_writer`, `dismissed` | `DependencyOperationsProofs` |
| `PanelReload` | the panel's reloads over the file change and branch change coordinators | `panel_reload`, `panel_reload_liveness`, `first_load` | `PanelReloadProofs` |
| `DashboardController` | the rows of a panel and the generations that make them eligible | `components`, `components_liveness` | `HostProofs` |
| `UpgradeFiles`, `AtomicSwap` | `compareAndSwap` by file operations; the swap it promises, which it refines | `components` | `ComponentsProofs`, with the refinement |
| `WriteBackCache` | the cache with its batches and flush chain over a store that fails | `components`, `components_liveness` | `ComponentsProofs` |
| `EtagBounds` | the budgets of the ETag store | `components` | |
| `SnapshotFreshness` | the background timer on a clock that is set | `components` | `ComponentsProofs` |
| `UpgradeSession` | the tasks of a panel's session | `components`, `components_liveness` | `ComponentsProofs` |
| `PackageManagerProcess` | one child process with its deadline and signals | `components`, `components_liveness` | `ComponentsProofs` |
| `WorkPool` | the bounded pool and the sequential batch | `components`, `components_liveness` | `ComponentsProofs` |
| `UsageCoordinator` | usage, removal and background analyses of uses | `components`, `components_liveness` | `HostProofs` |
| `UpgradeReview` | webview and host over two message queues in the review of an upgrade | `components`, `components_liveness`, `review_rejection` | `ReviewProofs` |
| `FixReview` | the same for a transitive fix | `components`, `components_liveness` | `FixReviewProofs` |
| `SmartCleanup` | Smart Cleanup, both sides and the host's coordinators | `components` | |
| `BulkRemoval` | the review of the direct dependencies to remove | `components`, `components_liveness` | `ComponentsProofs` |
| `ScanPipeline` | one scan | `components`, `components_liveness` | `ComponentsProofs` |
| `HttpRequest` | one request with redirects | `components`, `components_liveness` | `ComponentsProofs` |
| `DashboardTable` | cards, filters, order, pages and the picker | `components` | |
| `SmartPlan`, `Ordered` | the smart plan's search over the preflight; sets in order, for it and the next | `transaction` | `DecisionProofs` |
| `UpgradeChoice` | what is offered to upgrade to, and whether it is then done | `transaction` | `DecisionProofs` |
| `RemediationPlan` | when a lockfile change is a fix, how it is shown and verified | `transaction` | `DecisionProofs` |
| `SecurityEvidence` | what a review says of vulnerabilities | `transaction` | `DecisionProofs` |
| `CleanupEvidence` | why packages are installed, what may be removed or deduplicated | `transaction` | |
| `LockfileGraph` | the graphs read from a manifest and four formats of lockfile | `transaction` | |
| `MCComponents`, `MCUpgrade` with `MCDecisions`, other `MC...` | values for the constants, the two compositions below, and restricted next-state relations for counterexamples | | |

`UpgradeTransaction` is what the assistant runs; `DependencyOperations` takes it as
one stage, `FixResult` extends it, and `UpgradeFiles` shows that its atomic swap is
what the adapter does. `DashboardController` takes the reads and events of
`PanelReload` as its inputs. `UpgradeReview`, `FixReview`, `SmartCleanup` and
`BulkRemoval` compose the webview with the host, and abstract what
`DependencyOperations` says in detail. `SecurityEvidence` extends the graphs and
advisories of `RemediationPlan`.

### UpgradeTransaction

Each action is the code between two awaits of `runUpgradeTransaction`; `pc` is
the await it is at, `cursor` the position in the loop that contains it. What one
await does to one file is atomic: `read` and `compareAndSwap` of the file adapter
are single steps here.

* `disk` is the project's files, `before` the snapshot (`SnapshotEntry.before`),
  `expected` the map `expectedAfterStage` and later the captured states;
  `NoEntry` is a missing entry, `CaptureError` a read that failed.
* `opt` are the options: the stages, whether there is a verifier, a decider and
  a signal. A manifest stage and a file stage differ in one thing only: a refused
  manifest has nothing to restore, a refused file stage may have.
* `InstallWrites` is the package manager, `UserEdit` anybody else, `Abort` the
  signal; each may happen at every await.
* `restored` is the rollback report; `completion`, `reason`, `retention` the
  answer.
* `owned`, `absorbed` and `lost` are history. `owned` is what the snapshot read or
  the transaction or its package manager last wrote, so a file whose `owned`
  differs from `before` still carries something of the upgrade (`Mine`).

### DependencyOperations

A *flow* is one review, from the message that asks for it to the end of the
execution its confirmation starts. `ana` and `exe` are the await its analysis
and its execution are at. The actions are the handlers of the coordinator and
the code a resumed await runs; `Release` is `OperationReservation.release`,
which compares a *name* and clears the reservation before it flushes the
deferred file changes (`draining`).

* The reservation: `held`, `mutating`. A stored upgrade or removal review holds
  nothing; confirming it reserves again.
* The flags that are keyed by name: `pendingAnalyze`, `cancelFor`; the signals:
  `activeAbort`, `fixAbort`, `aborted`; the removal slot: `pendingRemoval`, with
  `freed` for a canceller that already released (`releaseStarted`).
* The stored reviews: `analysis`, `removal`, `plans` (`stale`, `expired`).
* The files: `disk` is their version, `snap` the version a flow reviewed,
  `noticed` the version of the last watcher event; `sourceGen` is
  `SourceGenerationGuard`.
* `dismissed` is history: the analyses in flight when their user cancelled or the
  webview remounted.
* A transaction is one stage here (`exe = "mutating"`).

An analysis may fail at any of its awaits, so failing is a choice, not a model
of networks. A bulk upgrade reserves the name of its first package and is one
flow.

### PanelReload

The reloads of `dashboardPanel.ts` with the two coordinators they go through; an
action is the code one message, event, timer or resumed await runs.

* The panel: `selected`, `controller` (the project it shows), `watched` (the
  project its file watchers are for), `reloadGen`. Only `createController` sets
  `selected` before its read; only `reloadAndScan` bumps the generation before it
  awaits and sets `selected` after.
* `call` are calls of `reloadAndScan` (by the user, a mutation, a HEAD), `create`
  those of `createController`, `mut` a mutation with its reread; each carries the
  generation, the candidate and `seen` it captured before its await.
* The file change coordinator: `pendingGen` (pending kinds and their generation),
  `deferred`, and the promise chain as `chain` (bursts that wait) and `drain` (the
  burst whose turn it is). `TakeTurns` is one passage through `runAndDrain`'s loop up
  to its next await. `timer` is the panel's debounce timer.
* The branch change coordinator: `headGen`, `headPending`, `headTimer`; `recon` is
  `reconcileAfterGitHeadChange` inside `run`, so `recon.stage = "idle"` is
  `running = false`.
* `noticed`, `answered`, `raced` are history. Events are counted: `noticed` is how
  many the panel was told of, `answered` how many it had been told of when the last
  finished read began. `raced` says that a `createController` went on beside another
  load.

A read may fail, a picker may be cancelled, a mutation may be written by any flow
of `DependencyOperations`; `ReleaseReview` is a release of a reservation that
wrote nothing. Which kinds a burst has is left out: they select a cache entry to
purge, never whether to reload.

### FixResult

`ApplyOutcome` is what `executeStoredRemediation` makes of the transaction's
`completion`, `retention` and rollback, `ResultAccepted` what the protocol's
validator lets through. The module extends `UpgradeTransaction`, so a result is
judged in every state in which a transaction can end.

### DashboardController

A project's content is its version on disk, and a scan's result the version it
was given. `source` and `reval`, `confirmed`, `eligible` are the controller's
options and three generations; `scan` is the run `inFlight` can still abort,
`drain`, `reload` and `mutation` are the reads its callers have under way, each
with the generation it captured. `stored` is the project cache, from which `Open`
hydrates a new panel and which is written when a scan ends. `told` is history:
the newest version that was read or reported.

### UpgradeFiles and AtomicSwap

`UpgradeFiles` has one action for each file operation of `compareAndSwap`, and
`Overwrite` for anybody else's (contents, permissions, removal), `Die` for the end of
the process. The history variable `replacedMode` keeps the permissions of the file at
the moment a rename replaces it. `AtomicSwap`
says what a call promises: replace what was expected, or report a conflict, or
fail, and touch the file only in the first case; its `late` edit is the window
after the second comparison that a rename cannot close and a link does.

### Caches: WriteBackCache, EtagBounds, SnapshotFreshness

`WriteBackCache` keeps the Map in its order, the dirty flag, the scheduled flush
(`due`) and the promise chain (`queue`, `writing`) apart from what the store holds
(`persisted`); a flush may fail, `DisposeCache` may come at any moment.
`EtagBounds` evaluates the bounds of the ETag store over every stored sequence up
to `MaxStored`. `SnapshotFreshness` is the timer of an open panel; a unit of time
is one interval, and `ClockSet` moves the wall clock to either side.

### UpgradeSession, PackageManagerProcess, WorkPool

A call of the session is an upgrade, a prepared reconciliation or a verification;
`tasks` is what VS Code made of each task it was asked for. `Surroundings` revokes
trust or aborts the verifications' signal. In `PackageManagerProcess` the leader
and its `descendants` may ignore SIGTERM (`deaf`) and hold the pipes; `grace` is
the timer before SIGKILL. It is the POSIX process group: on Windows the tree is ended
by taskkill, which is left out (section 6). `WorkPool` has one `drain` loop per worker;
`sequential` says that it is the batch instead.

### UsageCoordinator

`op` has the request of each kind and the pass in the background, each with what
it captured before its await; `usageScan` is the one scan of the workspace, which
requests may join; `waiting` and `servicing` are the slot of the background
request before and after it is claimed. `usageShown` is the last message of each
kind on screen, `visible` what the coordinator believes is shown there, which is
what an invalidation takes back.

### UpgradeReview, FixReview, SmartCleanup, BulkRemoval

Each composes the webview's handlers and refs with the host's. In `UpgradeReview`
and `FixReview` there is a queue in each direction, and either side acts on what it
last heard; in `SmartCleanup` and `BulkRemoval` a message of the webview is handled
when it is posted, because the host's answer depends on nothing else of the webview
that could have changed, and only the way back is a queue. An analysis is named by its request; what
it says is left to the modules of decisions below. `SmartCleanup` keeps three
records: the `project` (files, source, what watchers have not told yet), the
`host` (evidence by source generation, the selection it stored, the execution)
and the `view` (the four answers to one request, the plan made of them, the
selection, the card). An impact that the details of one package ask for starts the
preparation of that package's own removal when it arrives (`ReceiveRemoval`). The
webview has one removal, so from then on it is not Smart Cleanup's (`fromCleanup`,
`awaiting`, `active`); what becomes of it when it is confirmed is `BulkRemoval`'s.

### ScanPipeline, HttpRequest, DashboardTable

`ScanPipeline` follows `buildPackageRows` from await to await while its promises
settle in any order and each may fail; version lists are shared between rows.
`HttpRequest` is one request, hop by hop: what the socket, the body, the size limit,
the timeout and the signal do, in every order, and which of them settles the promise.
`DashboardTable` is the state the table is drawn from (`table`) and the events that
change it; the cards, filters, order, pages, chips and the picker are operators over
it, named as in the code.

### The decisions

These modules define functions over a variable that holds the question and never
changes (but `SmartPlan`, whose search has steps), so that TLC evaluates every
answer over a small world of questions (`MCDecisions`) and compares it with a
reference definition:

* `SmartPlan`: a proposal is a function from packages to target versions; the
  search with its four budgets (`MaxStates`, `MaxAdditional`, `MaxPerPackage` and
  `MaxQueries`), the preflight and the resolver. Its reference is
  the set of all proposals (`Proposals`), searched exhaustively.
* `UpgradeChoice`: a version is a number in semver order, a range the set of
  versions it admits with every prerelease, and `named` those prereleases it admits by
  itself because it names one of their release. It goes from a row's derived versions over the action and the
  menu to the validation, the staged manifest and the proof of what was installed.
* `RemediationPlan`: a graph says who uses which of two copies of a package; an
  advisory is a package, the versions it flags, a severity and its aliases. Plan,
  presentation, validator and verification afterwards.
* `SecurityEvidence`: the fate of vulnerabilities, their chains and direct
  dependencies, the rows' view of them, two graphs compared, links.
* `CleanupEvidence`: chains and reasons, removals together, peers, deduplication
  before and after it is carried out.
* `LockfileGraph`: an installation with hoisted and nested copies, workspace members,
  peers and aliases, what each lockfile format says of it, and the graph read from
  that. Names and paths are sequences of package names, not strings.

### MCUpgrade and MCComponents

`MCUpgrade` puts the decisions next to the transaction that carries out what they
decided: a behaviour is one transaction, one search for a plan, or one question
(`running`); what it is not about stands still in an initial state or is asked
nothing (`NothingAsked`). `MCComponents` does the same for the components that keep
state and share none: one takes steps, the others stand still (`Still`, `PoolAtRest`,
`ScanAtRest`, `HttpAtRest`) where their fairness asks for nothing. Both are the
disjoint sum of the behaviours of their parts; what interacts is composed in the
modules above, and each module can be checked by itself with its own `...Spec`.
Properties of a part that enumerate or decide something are asked while it runs
(`PlansAreSound`, `StoresStayBounded`, `ScansAreHonest`).

## 3. The runs

| Run | Instance | What it asks, and shows |
|---|---|---|
| `transaction` | 2 files, up to 2 edits by others, 6 option records, and the questions of `MCDecisions`; 438 thousand states | all safety properties, that a cancelled transaction ends (`AbortEnds`), and that it implements `UpgradeOutcome`; that each family of decisions is right |
| `concurrent_edit` (violated) | the same with 1 edit | whether a rollback ever overwrites somebody's edit, as `README.md:67` denies: it does |
| `operations` | 2 flows of every kind over 2 packages, 1 edit, 1 watcher event; 1.1 million states up to the names of the packages | all safety properties of reviews and executions |
| `operations_liveness` | 2 flows, 2 packages, 1 watcher event, no edit, with fairness | `ReservationFreed`, `SessionEnds` |
| `one_writer` (violated) | 3 flows, nothing fails or is cancelled | whether two transactions ever write at once: they do |
| `dismissed` (violated) | 2 flows, no edits, no events | whether an analysis its user dismissed ever becomes a review: it does |
| `panel_reload` | 2 projects, 2 reloads and 2 first loads (3 of them at most), 1 mutation, 2 events | that what is shown is what is selected, and no event is forgotten or left waiting |
| `panel_reload_liveness` | 1 reload, 1 first load, 1 mutation, 2 events, with fairness | `EventsAnswered` |
| `first_load` (violated) | 2 first loads, reloads for HEAD changes only, nothing fails | whether the watchers always are the selected project's: they are not |
| `components` | every module of the table above that names it, each with the bounds below; 901 thousand states | one property of each component, or of those that belong together |
| `components_liveness` | the same with smaller bounds and every component's fairness; 36 thousand states | `EverythingEnds` |
| `review_rejection` (violated) | 2 requests for one package, no rows | whether `UPGRADE_IN_PROGRESS` always is about another request than the tracked one: it is not |

What the properties say, beyond one type invariant per module:

* `CleanOutcome`: "not started" and "rolled back" leave nothing of the upgrade in
  any allowlisted file. `LeftoversReported`: after a rollback whatever is left is
  named as a conflict or a failure. `LostOnlyIfAbsorbed`: the only edits a rollback
  can overwrite are those already on disk when the state after the install was
  captured. `AbortedNeverKept`: "kept" is never answered after the signal fired.
* `LockHasOwner`: a held reservation belongs to a flow that will still release it.
  `BusyFlagHasWriter`: the busy flag, which makes the panel defer reloads, is never
  left behind. `ExclusiveByPackage`, `DismissedByPackage`, `StartsFromReviewed`:
  as long as no two reviews are for one package, a writer holds the reservation,
  nothing dismissed is stored, and nothing is executed from a review that a watcher
  event has contradicted.
* `ResultsAreTold`: however a transaction that writes a fix ends, the user is told,
  and of files that are what they are said to be. The validator of the protocol
  drops what it does not recognise, so every combination of ends has to pass it.
* `NoEventLost`: when the panel comes to rest, every event was answered by a reload
  that began after it, whatever was switched, superseded, deferred or cancelled on
  the way. `NothingWaitsAlone`: a burst or a HEAD change that waits has somebody who
  will take it up, although every reload cancels the debounce timer when it renews
  the watchers, `run` returns when it finds another run, and a mutation defers both.
  `ShownIsSelected`: the controller and the watchers are the selected project's.

The properties of `components`, and of the decisions in `transaction`:

* `RowsMatchTheirSource`: rows an upgrade is accepted from were scanned from the
  source the controller holds and are no older than what a watcher reported
  (`AcceptedRowsAreCurrent`); what is persisted was scanned from the files its
  fingerprint was taken of (`PersistedIsScanned`).
* `SwapsAtomically`: `compareAndSwap` implements `AtomicSwap`. `ReplacementIsWhole`:
  the name never carries a partial file, even if the process dies, and a
  replacement has exactly the permissions of the file it replaced, unless that file
  was changed after the second comparison. A change of permissions between the two
  comparisons is no conflict, so the mode has to be that of the second one.
* `WritesAreKept`: a write that is in no snapshot has a flush coming within
  `MaxDelay`, and after the last flush, or disposal, the store has what was set
  last unless that attempt failed. `StoresStayBounded`: any stored sequence is
  reduced to the bounds, newest first, with no entry kept out by one that does not
  fit. `TrustIsBounded`: however the clock is set, a snapshot is taken for fresh
  for no longer than the time to live and the tolerated skew.
* `CallsReportTheirTasks`: a call of the session reports what its own tasks did,
  and whoever waits can still be told. `StoppedIsGone`: a stopped run settles
  when the process and its descendants are gone, with the first reason.
  `ItemsAreAccountedFor`: every item is settled once, none begins after the signal.
* `AnalysesKeepApart`: an invalidation can take back every result on screen,
  no end of an analysis leaves its claim behind, and no cancellation stops a scan
  that others joined.
* `ReviewsAgree`: with no message on the way, an analysis that can be confirmed is
  the one the host would execute; rows of another refresh are not shown as current,
  and rows held back do not replace newer ones.
* `CleanupIsReviewed`: files change for exactly what was confirmed, for packages
  that are unused, or were reviewed, by evidence nobody has contradicted since; no
  package that stays loses a peer; a result card is of its own confirmation.
* `ReviewedIsCarriedOut`: the plan of a fix on screen is the one the host would carry
  out, once (`FixReviewsAgree`); what is submitted for removal was analyzed together
  and as it is submitted, and a host whose last word the webview has seen accepts it
  (`ReviewedRemovals`).
* `SecurityIsHonest`: fates, proofs, chains, impacts and links agree with the graphs.
* `PlansAreSound`: a plan moves only what it may, each for a blocking finding, is
  accepted as a whole and in order, and is smallest unless something was cut short;
  "impossible" means that no proposal at all is acceptable. A fix that may be applied
  rids the tree of its targets, leaves direct dependencies alone and introduces no
  finding; the webview shows it, and what is verified afterwards keeps the promise
  (`FixesAreSafe`). `ChoicesAreSound`:
  what is offered is ahead, is accepted when taken, and is confirmed exactly when it
  was installed.
* `ScansAreHonest`: rows are built from what was answered and say what is missing
  (`ScanIsHonest`); counts, filters, order and pages are those of the rows
  (`TableIsHonest`); a request settles once, and the shared signal keeps no listener
  of one that is over (`RequestsAreSettledOnce`).
* `EvidenceIsRight`: removals and deduplications are judged by what the graph says
  (`EvidenceIsSound`), and the lockfiles of one installation give one graph
  (`LockfilesAreRead`).

**Bounds.** Two files are what every caller allowlists (manifest and lockfile);
rollback and staging treat files independently, and two are enough for "one
fails, the other does not". Two edits allow one before and one after the capture,
or two of one file. The option records cover nothing staged, one manifest, one
file, both, and a stage for a file that is not allowlisted, each with and without
a verifier, a decider and a signal as callers combine them. Two flows over two
names give every pair of kinds with equal and with different names; a third is
needed only for a second writer. One edit and one event tell "before it" from
"after it", and an edit may happen without its event. The liveness run leaves out
edits, which no wait depends on. For the
panel, two projects tell the selected from another one, two reloads supersede each
other, and two events are one that a read has seen and one that it has not. A
second first load beside another load is the case of `first_load`, so the safety run
stops where one begins (`NotRaced`); four loads at once add only supersessions of
superseded ones (`ThreeLoads`). The projects are interchangeable, and so are the packages
of `operations`: the safety runs use them as symmetry sets, the liveness runs do not.

The bounds of `components` (those of `components_liveness` in brackets where they
differ):

* `DashboardController`: one project, since a switch creates another controller;
  1 edit and 2 [1] reloads, so that two reads overlap around an edit; 7 [5]
  generations, so that a controller survives every reload it may be given.
  `MountsAnytime` is false: see section 4.
* `WriteBackCache`: 2 keys, 2 entries, 3 [2] writes, enough to evict, to overwrite and
  to write during a flush; a trailing delay of 1 and a maximum of 2. `EtagBounds`: up to 4 of 7 entries that
  fit, do not fit, or fit alone; budgets 8 and 4, count 3. `SnapshotFreshness`: a
  time to live up to 2, clock jumps up to 5, skew 1.
* `UpgradeSession`: 2 [1] calls of up to 2 tasks. `WorkPool`: 4 [3] items, 2 workers.
* `UsageCoordinator`: 2 [1] asks of each kind, 1 pass, 1 disturbance.
  `UpgradeReview`: 2 requests for 2 [1] packages, 1 [0] arrival of rows.
* `SmartCleanup`: 3 packages (one of a convention, one an optional peer, one that needs
  another), 2 impacts, and one each of requests, selections, edits and messages in
  flight; an impact asked for again and a selection that keeps a package are not counted.
  `FixReview`: 1 plan, 1 [0] edit, 2 messages; the webview remounts only with none on
  its way. `BulkRemoval`: 3 rows in batches of 2, 2 [1] requests and rescans.
* `ScanPipeline`: a dependency with a package below it, 2 findings, 2 [1] pages of identifiers
  in 2 chains, 3 audit reports. `HttpRequest`: 3 [1] redirects, 1 chunk. `DashboardTable`:
  4 rows, 4 [0] events, pages of 1 and 3.
* The decisions: the worlds in `MCDecisions`, chosen so that every answer of each
  function is given by one of them: `SmartPlan` has 3 direct dependencies with
  versions up to 3, 6 analyses and 2 queries; `UpgradeChoice` 8 versions with two
  prereleases; a package of `RemediationPlan` has a hoisted and a nested copy; the
  installations of `LockfileGraph` are hoisted, nested or have a workspace member.

**Fairness.** `UpgradeTransaction!FairSpec`: the transaction takes its next step
(it never blocks on anything but the awaits below), and the package manager and
the verification it awaits end (`InstallEnd`, `VerificationEnd`: child processes
end or are killed by their timeouts). The prompt about a failed verification may never be answered, so
`Decide` has no fairness: `AbortEnds` rests on the abort listener alone.
`DependencyOperations!FairSpec`: the flush of a release ends (`Drained`), and
every await of an analysis or of the checks before a mutation ends (requests and
dry resolutions have timeouts). A mutation may wait for its user for ever, so
`MutationEnds` has none, and the liveness properties stop at it.
`PanelReload!FairSpec`: timers fire, and reads, scans and discovery end (child
processes and requests have timeouts); each by itself, since one await ending says
nothing of another. A mutation, an open picker and a first load, which may show
one, have no fairness, except that a newer HEAD cancels the picker of an older
one.

The fairness of the components is the same in kind, stated by each module next to
its specification: a scan ends (`ControllerFairness`), time passes and flushes end
(`CacheFairness`), VS Code answers for every task and reports its end
(`SessionFairness`; it reports a start before an end), a deadline and the grace period
pass and a child that is gone is reported (`ProcessFairness`; a living descendant may
hold the pipes), workers settle (`PoolFairness`), promises settle (`UsageFairness`),
messages are handled and what the host began ends (`ReviewFairness`,
`FixReviewFairness`, `BulkFairness`), requests end (`ScanFairness`), and a socket
speaks or its timer fires (`HttpFairness`). The user never has any. `EverythingEnds`
says what follows for each component; three waits are excluded because the code does
not end them: an HTTP request whose connection is closed under a body that is
decompressed or not read (`Unanswerable`), a fix the host does not answer
(`fixUnanswered`, described in `FixReview`), and an analysis of uses that is
cancelled or whose panel is closed.

**Deadlock** is checked for the transaction, which ends in `Done`, and for the search of a
plan, which ends in `Answered`. The panel may
stay idle for ever once the bounds are used up, so the operation and panel configurations
say `CHECK_DEADLOCK FALSE`.

## 4. Where the code and its documentation disagree

* `concurrent_edit`: `captureExpectedStates` records whatever is on disk after
  the install as the state a rollback may replace. An edit saved while the package
  manager runs is taken for the install's and is restored over, where
  `README.md:67` says that rollback refuses to overwrite concurrent edits.
  `LostOnlyIfAbsorbed` is what holds instead.
* `one_writer`: a release names a package, not an owner. A stored upgrade review
  keeps its name without holding the reservation; when it is found stale while a
  removal of the same package is writing, its release frees that removal's
  reservation, and another operation starts writing beside it.
  `host/upgradeTracker.ts:13` calls two concurrent installs a write race.
  `ExclusiveByPackage` holds instead.
* `dismissed`: the end of an analysis clears the flags by package name, after its
  release has been awaited. A second analysis of the same package after a remount
  loses its flags to the first, so cancelling it does nothing and its review is
  stored. `host/upgradeAssistantCoordinator.ts:591` says it is dropped.
  `DismissedByPackage` holds instead.
* `first_load`: `createController` compares no generation. If Retry starts one
  while the branch picker is open, and the picker is answered before its read has
  ended, the picked project is loaded and then replaced by the other one's
  watchers and controller, while `selectedProject` stays the picked one. The comment
  on `setupFileWatchers` (`host/dashboardPanel.ts:1428`) says the watchers always
  track the selected project. `ShownIsSelected` holds as long as no first load goes
  on beside another load.

* `review_rejection`: a cancelled analysis keeps the reservation until all its work has
  settled, so a request sent right after the cancellation is refused with
  `UPGRADE_IN_PROGRESS`. It is the request the webview tracks, and
  `upgradeErrorClearsActiveState` ignores that code, so the review waits until its user
  cancels. `host/upgradeUiState.ts:83` says the code means "a *different* request",
  and `webview/src/App.tsx:1402` that the lock is free by then.

The restricted next-state relations in `MCDependencyOperations` and
`MCPanelReload` only leave
steps out, to keep the counterexamples to what they are about.

Smaller observations, made while modelling and without a run. Each is excluded from a
property where that property names it, or does not concern any:

* Controller: a webview that says "ready" again in the middle of anything
  (`MountsAnytime = TRUE`) breaks `AcceptedRowsAreCurrent` (`host/dashboardController.ts:655`)
  and `PersistedIsScanned` (`:602-611`); the panel retains its context when hidden,
  so it does not.
* Panel: when an outdated `createController` fails, `ensureController` clears the slot of
  its successor (`host/dashboardPanel.ts:1134-1136`), so the next message starts a second
  first load of the same generation beside it. `raced` counts that as two loads at once.
* Usage: the early returns of `runPendingBackgroundRefresh` skip its trailing retry
  (`host/usage/usageCoordinator.ts:742-757`, against `:698`); the cancellation of a usage
  analysis carries no id; an impact asked for while another is active is not answered.
* Upgrade review: rows that are held back are dropped when the user opens another
  package.
* Smart Cleanup: `analyze` returns silently while another request is active; an error of
  a removal carries no request id; a dashboard message during the last checks clears
  the reference the answer is matched with; some early returns of the execution post
  nothing; during an execution the transaction's own watcher events supersede visible
  evidence.
* Fixes: a plan found stale during its execution is deleted at the end
  (`host/upgradeAssistantCoordinator.ts:2876-2882`), so "Re-check fix" is ignored although
  `:751-755` says the correlation is retained; the validator drops plans that only
  deduplicate a target or whose advisory was withdrawn; a cancelled execution whose last
  reading fails answers nothing; the outcome that was reviewed is compared by names
  without the package.
* Versions: `core/upgrade/candidate.ts:37` says Latest is never below Wanted, and
  `core/registry/versions.ts:387` relies on it, which a `latest` tag that was moved back
  contradicts; a row whose `latest` is installed but whose `wanted` differs counts as
  outdated and shows no badge (`host/versionDisplay.ts:47-49`, `host/updateClassification.ts:33-38`).
* Security: the link of a remaining vulnerability does nothing when the proposed graph reaches it
  along another chain; `findPaths` says "truncated" when exactly the limit was found.
* Requests: a compressed body, or one that is not read, cut by a clean close never
  settles, and the close removes the abort listener (`core/registry/http.ts:225-254`,
  `:279`); a redirect to an invalid location throws an untyped error.
* Removals: a direct dependency that is removed but stays installed for another still needs
  its peer, whose requirement is ignored (`core/upgrade/peerRequirement.ts:81-84`); a
  row to be reviewed that is outside the batch when the result arrives stays selected;
  a name the host finds unsafe is offered and refused.
* Lockfiles: from the nested package of a workspace member the root's `node_modules` is not
  reached (`core/lockfile/parse.ts:362-366`, where `:348-351` claims npm's lookup); pnpm's
  alias references within a snapshot are not resolved (`core/lockfile/pnpm.ts:152-189`), and a peer's
  importer is preferred to the snapshot's own context (`:197-207`); a development
  dependency that production needs, too, is `dev` with pnpm only. `OneDomain` therefore is
  about registry packages and members.

## 5. The proofs

`UpgradeTransactionProofs` proves, for any number of files, any option records
(with stages in allowlist order), any contents and any number of edits:
`TypeCorrect`, `CleanOutcomeHolds`, `LeftoversAreReported`,
`LostEditsWereAbsorbed`, `AbortIsNeverIgnored`, and `TransactionImplementsOutcome`
(every step is a step of `UpgradeOutcome` or leaves phase, files and signal
alone). The promises speak about the answer, and an answer is right because of
what was recorded on the way: that the snapshot is complete before anything is
staged, that `expected` names every file that carries something of the upgrade,
that nothing has been staged in a file the cursor has not passed, and that what
was restored carries nothing. The inductive invariant is the conjunction of these
facts with the types; each is preserved by itself and the promises follow from it.

`DependencyOperationsProofs` proves for any number of reviews, any set of packages
and any number of edits and events `OperationsTypeCorrect`, `ReservationHasOwner`,
`BusyMeansWriting`, `ReservationExcludes`, `DismissedStaysDismissed` and
`StartsAreReviewed`. Its inductive invariant has four parts:

* the types;
* `Recorded`: what a shared slot may point at (a stored review has left its
  analysis, a pending removal is in flight, what a canceller has freed is past
  validation), and that what a flow captured is in the past;
* `Reserved`: `LockHasOwner` and `BusyFlagHasWriter`. They are inductive together:
  a release clears both, and whoever stops being an owner releases first;
* `ByPackage`: while packages are distinct, an analysis that was not aborted *is*
  the one its slot, its flags and the reservation belong to (`SlotsByPackage`), an
  upgrade review stored before its analysis has settled still holds the
  reservation, so it cannot be confirmed before that release and no execution can
  lose its hold to it (`ReleasesByPackage`), and a checked review is either still
  the reviewed one or the last checks before `beginMutation` will notice
  (`CheckedByPackage`).

`DistinctPackages` looks at the reviews requested so far. It can become false but
never true again, so a step that keeps it keeps it from the state before
(`DistinctStep`). Without it the three properties are false, as the runs show.

`FixResultsAreTold` is in `UpgradeTransactionProofs`, too. The result of a fix is a
function of the end of the transaction, so it needs of its invariant that an answer
agrees with what was recorded: `EndIsConsistent` says which completions, reasons,
retentions and rollback reports can occur together, and `EndIsTold` that the validator
lets each of these combinations through.

`PanelReloadProofs`: `TypesAreKept`, `SelectedIsShown`, `WaitersAreServed` and
`EventsAreAnswered`, for any projects and any number of loads, events and mutations.
The three promises need each other's parts:

* one reload at a time is not superseded (`OneCallLeads`), and what is captured is of the
  past (`EventsCounted`, `GensReached`);
* `SelectedIsShown` rests on what a load that is not superseded knows: a reread is of a
  project that is shown, a reload of the same project still finds it selected, a first load
  has selected what it loads;
* `WaitersAreServed` is strengthened to *who* will serve: a pending event has a timer, a
  burst of the current generation, or a reload that flushes; a pending HEAD its timer, its
  run, or a release that awaits a burst on the chain; whoever awaits a burst is past its
  own reload (`AwaitersFlush`);
* `EventsAreAnswered` is the rest state of `LastEventIsCovered`: something that is under
  way or waits reads the files after the last event.

`HostProofs`, about `DashboardController` and `UsageCoordinator`:

* `RowsAreOfTheirSource`, with `MountsAnytime = FALSE` (section 4). No generation is ahead
  of the current one. A source confirmed for the current generation is as new as what was
  reported (`ConfirmedIsNew`), because the reads that may confirm it are of the selected
  project, since the last report (`ReadIsNew`). A structural run leaves its generation
  unconfirmed until it ends; a run that can still grant eligibility works on the held
  source (`ScanIsOfSource`). A change takes the lock only from eligible rows, hence with no
  structural run under way, and nothing starts one before its reread (`MutationIsAlone`),
  which is why the reread may replace the source without aborting a run. Eligible then
  means confirmed, and the rows those of the source.
* `SearchesStayApart`: the claim is only held by a request that is being answered, no scan
  is of a generation still to come, and a removal request that holds the claim has taken
  its old result off the screen, so that a cancellation, which forgets what is visible,
  leaves none behind.

`ComponentsProofs` has the proofs that are short, by component:

* `FilesAreWhole` and `FilesSwapAtomically`, for any contents and modes of a file. A file
  that takes the name is complete and, until somebody else changes the file, the mode
  read by the second comparison and then that of the temporary file are those of the
  file to be replaced (`TempIsReady`), and the file is still what was compared unless somebody wrote it since
  (`ComparisonHolds`). With the invariant every file operation is a stutter of
  `AtomicSwap` but the rename, link or unlink that replaces, and the answer.
* `CacheKeepsWrites`, for any keys, bounds and delays. A write that no queued flush will
  take belongs to the scheduled batch; what is clean was handed to the store, or is the
  last snapshot of a disposal that waits in the queue.
* `FreshnessBoundsTrust`: while the timer trusts a snapshot, the snapshot ages, so that it
  was trusted no longer than it has aged beyond the skew.
* `PoolAccountsForItems`, for any number of items and workers: items are handed out in
  order, each to one holder, and a batch is at most one item ahead of its count.
* `RequestIsSettledOnce`, for any number of redirects and chunks.
* `StoppedProcessIsGone`: a stop sets the timer of the grace period with its reason, and
  an answer means that nothing is left to stop. `CallsReport`, for any calls and any
  number of tasks: the tasks of a call are in order, its outcome is that of the current
  one, and a call that waits is tracked.
* `RowsSayWhatTheyKnow` and `ListsAreAskedForOnce`, for any dependencies, findings, caches
  and pages. `ScanInvariant` says what a stage may count on because the code awaited it: a
  list is asked for by the first who needs it (`AskedForOnce`), an advisory is identified
  only if it was reported, and every cached one is, unless the advisories were given up as
  a whole (`AdvisoriesAreKept`), and a list that a stage waited for has settled and stays
  settled (`StagesWaited`). What npm audit says of each dependency is a fold over
  its report; the proof holds whatever it says, once the report does not change any more.
* `ReviewedRemovalsAlways`, for any rows, requests and rescans. Every request is answered
  once (`AnswersComeOnce`), a result is judged by the rules as soon as it is there
  (`Rendered`), and as long as no dashboard message is on its way, what was or will be
  answered is about rows of the project (`AnswersAreKnown`), so that the host takes what
  the webview submits. The batch is the first rows by rank, which is a finite cardinality:
  that it is in order and within the limit is proved from the library's facts about those
  (`RanksDiffer`).
* `WhatWasReviewedIsCarriedOut` takes the theorems about `FixReview` and `BulkRemoval`
  into `MCComponents`: a step of the sum is a step of one part or leaves it alone. It is the
  property as the run checks it.

`DecisionProofs`, about the decisions as `MCUpgrade` checks them. The questions are
constants: `ChoiceAssumption`, `PlanAssumption`, `FixAssumption` and
`SecurityAssumption` say only what they look like, and `MCDecisions` gives values that
meet them.

* `ChoicesAreAlwaysSound`: for any number of versions and prereleases, any size of the
  menu, any questions about a row and any depth of a lockfile. The menu is the difficult
  part: it is a cut of a sorted sequence that must still hold every tagged version, which
  is why `ChoiceAssumption` asks for room for them (24 versions for 16 recent and 3 tagged
  ones, `src/core/upgrade/targets.ts:19,108`), and that a set in order has each member once,
  newest first, rests on its finite cardinality.
* `PlansAreAlwaysRight`, for any dependencies, peers, supplies and budgets, by the invariant
  `SearchInv` of the search's loops. Its parts: what is queued has been seen, was counted,
  and grew for a finding that blocked what it comes of (`QueueIsRight`); the queue is in
  order of size (`QueueGrows`); the loops' cursors move packages and versions of the head's
  expansion (`ExpansionIsRight`); the answers of the registry are all that is offered, and
  every proposal before the head was tried with every package it may move, unless something
  was cut or uncertain (`CandidatesAreOffers`, `ExpansionsAreComplete`). If there were an
  acceptable proposal, take the largest one that was queued and that it extends
  (`NothingIsMissed`): if that was expanded, one of its findings blames a package the
  acceptable one moves, and trying it gives a larger one. So it is at the head or behind it,
  which is why the first that is accepted is of least size and why an empty queue means
  impossible. The order of the plan's groups is proved from their
  reachability: groups are classes of mutual reach, and a precedence between them has no
  cycle, so that some group is always ready.
* `PlansAreAlwaysSound` adds that a fix is safe, for any graphs of the modelled copies and
  any advisories. A finding is the least set of records that is closed under sharing a
  name (`SameFinding`); that two findings of one comparison are equal or apart, and
  that what is gone, kept and new is told apart by them, follows from their being closed.
* `SecurityIsAlwaysHonest`: what a review says before and after agrees with the graphs, for any
  advisories and targets that meet `SecurityAssumption`: every chain starts at a direct
  dependency and ends at a flagged copy, every finding is explained by one, and a link
  opens the advisory that was shown.

Findings and the groups of a plan are least closed sets, and chains are unrolled to the
depth of the modelled graph: none is defined by recursion over its size, so that these proofs
need no induction over data.

`FixReviewProofs`: `FixReviewsAgreeAlways`, for any number of plans, edits and messages.
`FixReview` has no request numbers, so the invariant cannot compare ids as that of
`ReviewProofs` does; it speaks about what a queue will have done when it is read. A
message *stands* when none behind it ends what it says (`Standing`), and with that the
webview *will show*, *will hold*, *will wait for* or *will apply* a plan:

* what will be shown is stored, not stale, and of the files as far as they were reported
  (`ShownIsKept`); what is held is never replaced by another plan (`HeldIsNotReplaced`);
* a plan is shown once: as soon as the user has answered it, neither queue nor host will
  show it again (`PlansAreShownOnce`), so it is carried out at most once
  (`WritesHappenOnce`) and what is called stale is not (`StaleIsStale`);
* whoever waits, or will, is served by a check or a confirmation on its way, a job that
  runs, or has met the one case the code leaves unanswered, `fixUnanswered`
  (`CheckingIsServed`, `ApplyingIsServed`).

All about queues that the proof needs is in two lemmas (`Joining`, `Taking`): what becomes
of each of these predicates when a message joins or leaves.

`ReviewProofs`: `BothSidesAgree`, for any packages and any number of requests and of rows.
Ids only grow, so everything on the way is about the last request (`Newest`) or about an
earlier one, which the webview ignores. The invariant says what can still be on the way
about the last:

* requests reach the host in their order (`LastRequestIsLast`), and the host analyzes the
  last one only after it took it (`LastIsHandled`); once its analysis was posted no other
  attempt is under way, so no other analysis can replace it (`DoneIsAlone`);
* while the webview tracks it, it is not being cancelled, nor carried out before its
  analysis has arrived (`TrackedIsOpen`);
* an analysis on its way is the one the host keeps, or a message behind it revokes it
  (`AnswerIsKept`); the analysis on screen is kept as long as nothing on the way revokes
  it, or it is being carried out, and then the webview is busy (`LiveIsKept`). With empty
  queues that is the agreement;
* the rows of a project that is being loaded are never shown as current
  (`EmptyIsNotReady`), and a refresh has its card until its rows are released
  (`RefreshHasCard`), which with `RowsStayQuarantined` is inductive.

The assumptions are on the constants only: finite counts, sentinels that are not
values, stages in allowlist order, a webview that does not mount around a change, a
package that is below itself (`ScanAssumption`).

Only model-checked:

* the liveness properties `AbortEnds`, `ReservationFreed`, `SessionEnds`, `EventsAnswered`
  and `EverythingEnds`: TLAPS does not prove liveness under fairness here;
* `EvidenceIsRight` (the readings of lockfiles, the reasons and chains behind installed
  packages) and the tables of `ScansAreHonest`, which compare recursions over layers, chains
  and sequences with reference definitions: for every input that is induction over data, which
  the provers cannot do;
* `StoresStayBounded`, which is about a fold over every stored sequence, for the same reason;
* `CleanupIsReviewed`: its invariant would have to say which of the messages on their way
  are of the current analysis, selection and removal, in five numberings at once. Planning
  it showed that the model had let the details of a package ask for an impact without
  the removal the code then starts (`webview/src/App.tsx:1794-1799`); with that removal
  modelled the property holds at larger bounds, too.

## 6. What is left out

**Of the modelled components.** Of the assistant: batch remediation analysis over
many rows, the conversation about upgrade targets, and in `DependencyOperations` the
content of an analysis (it is stored, dropped, or fails; the modules of decisions say
what it contains). Of the transaction: diagnostics and messages. Of the file adapter:
`read` and symbolic links. Of the session: command lines and shells. Of the child process: Windows, where the
first signal has taskkill end the tree (`host/packageManagerProcessRunner.ts:55-70`); if
that fails only the child is killed, so what `StoppedIsGone` says of descendants is
not claimed there. Of the panel: routing of the remaining
messages, the webview's resources, and closing, after which every resumed
await returns. That the Git watcher is installed asynchronously and that it may find
no repository is left out; events it never reports are events that do not happen. Of
the caches: schema validation. Of the registry client: `.npmrc`, download counts and
parsing. Of usage analysis: the search for imports, which is text processing. Of
Smart Cleanup: its reports, the files of a simulation, and that the details of a package
whose row is gone are closed; advisories and deprecations
are evidence the user reads and authorize nothing. Of planning and preflight:
engines, wording and the grouping for display. Of the lockfiles: JSON and YAML syntax and the discovery of
workspaces. Of the protocol: the shape checks of messages other than a fix's. Of the
webview: layout, focus and the views that only display.

**Not modelled at all.** Project resolution reads files and shows a picker; what a
branch change may choose is a choice in `PanelReload`. Project compatibility is a
set of rules over source text without state; its fingerprint is part of the version
of the files in `DependencyOperations`. The extension entry registers the commands
and the panel.

## 7. The plan

Done: all modules of section 2; the proofs of section 5, which cover every state machine
but Smart Cleanup, and the decisions about versions, plans, fixes and vulnerabilities. To prove, in this order:

1. `CleanupIsReviewed`, from an invariant on the host's queue: the numbers of analyses grow
   along it, dashboards lose rows along it, and a stored removal is of the files that were
   analyzed.
2. `EvidenceIsRight`, once its chains are closed sets, too: the layers of
   `CleanupEvidence` and the resolution of `LockfileGraph`.

None of these modules declares a recursive operator. To model, where it becomes worth
it: the conversation about upgrade targets and the batch remediation analysis.
