# A TLA+ development of reconkg

reconkg takes in what reconnaissance tools saw of a network, runs a staged discovery engine over
it, keeps a knowledge graph in memory, correlates what it finds with an offline vulnerability
corpus, and pushes every change to analyst windows. One process, one asyncio event loop; worker
threads only where a snapshot is written. This directory models the parts that keep state over
time and are reached by several actors at once: TLA+ modules, TLC configurations that check them
on small instances, and proofs, checked by TLAPS, of what matters most for every value of the
constants.

`PROJECT.json` lists components, runs, mutants (a plausible bug for each checked property, which
makes that property fail), hazards, findings and theorems, and maps every definition to the lines
it stands for.

## The system

| component | state | operations | how it meets the others |
|---|---|---|---|
| `store.py` TargetStore, `models.py` | hosts, services, fingerprints with provenance, leads; the event log | create_host, open_ports, observe_fingerprint, downgrade, record_lead; emit | the engine writes; subscribers (autosave, event fan-out) are awaited inside every write |
| `engine.py` DiscoveryEngine | one lock per target; the report in progress | run: slots, fallbacks, timeouts, apply, downgrade, correlate | calls stages in tasks of their own, writes to the store |
| `stages.py`, `sources.py` | evidence by tool and target, with its submitter | put, get, principal_for; the five stages | the ingress writes it while a stage may be waiting |
| `vulnref.py`, `resolver.py`, `vulndb.py`, `cpe.py`, `feeds.py` | the corpus (SQLite), read-only in a scan | match versions to CVEs, dispute, prioritise | called by the engine when it correlates |
| `events.py` ConnectionManager | sessions, bounded queues, pump tasks | connect, offer, broadcast, pump, disconnect | subscribes to the store; the WebSocket route opens and closes it |
| `snapshots.py` SnapshotManager, `persistence.py` | dirty flag, clocks, save lock, files on disk | mark_dirty, _run, save_now, restore_into, _prune, start, aclose | subscribes to the store; the lifespan of `app.py` starts and closes it |
| `app.py` | reports (capped), target cap | routes | composes all of it |
| `auth.py`, `ratelimit.py` | credentials, WebSocket tickets, token buckets | resolve, issue, redeem, check, evict | gate every route |
| `fetch.py`, `builddb.py` | page files, checkpoint, manifest | fetch_nvd (resumable), write_manifest; iter_nvd_entries, build | separate processes that meet on disk |
| `console.py`, `modules.py`, `builtin_modules.py` | workspaces, ledgers, the selected module and its options, the registry | search, use, set, run, plan, handoff, import, workspace; register, load_path | drive the engine from a terminal, and build hand-offs |
| `observability.py` | metrics with capped label sets | inc, observe, render | called from everywhere |
| `planner.py` | none | reads the graph for gaps | asked by console and app; its lines are typed back into the console |
| `exploitdb.py`, `scriptdb.py`, `catalog.py` | the index of exploits (SQLite), of nmap scripts and of Metasploit modules | ingest, exploits_for, scripts_for, records_for | built by `builddb.py` or at the start of a session, read by a hand-off |
| `commands.py`, `handoff.py` | none | compose and filter the commands of a lead | called by console and app |
| `importers.py`, `ui.py`, `selfcheck.py`, `demo.py` | none over time | parsing, a page, scripts | - |

What is hard in it, and what correctness means there:

* **Autosave.** `_pending` is cleared before the copy and raised again on failure; a save suspends
  in a worker thread while holding a lock; shutdown cancels the task wherever it is; the process
  may die between any two file operations. *Nothing heard may be forgotten behind a clear flag, one
  thread writes, what is on disk was live and is what a restart builds on, whatever file fails to
  load, a burst cannot starve the save, and a clean shutdown keeps the last burst.*
* **Engine.** Requests for one target queue on a lock, stages hang and time out, evidence is
  replaced while they wait, clients disconnect. *Scans of one target are serialised, one
  submitter's opinion is counted once, a tool that saw nothing demotes nothing, the failure record
  explains the report, what was reported stays in the graph, and every request ends.*
* **Event fan-out.** Windows connect while events are emitted, fall behind, vanish, and reconnect
  under the same id. *Nothing falls between replay and live stream, nobody sees an event out of
  scope or out of order, a window is told how much it missed, and one that stays catches up.*
* **Corpus pull.** A pull of hours is interrupted, killed inside a write, resumed with another mode
  or time, over a feed that changes. *A pull that completes has everything; a build prefers what is
  newer.*
* **Gate.** Every request passes credentials, scopes, buckets and tickets, which expire, overflow and
  are swept while others use them. *No principal exceeds its bucket, pushes out another's tickets or
  learns of a host outside its scope; a ticket opens one window, in its life.*
* **Matching.** The corpus is rewritten in batches while scans read it, and SQL narrows what a
  matcher then decides. *The narrowing loses no row that applies, an answer without leads says why,
  and what is exploited survives the cut.*
* **Metrics.** Label sets are capped and folded, by events of scans that interleave. *Nothing is
  lost or misfiled, a fold is reported, metrics fed by one event agree, and those fed along the way of
  a scan account for it wherever it breaks off.*
* **Hand-off.** Indexes of exploits and scripts are replaced, half ingested, filed twice or not what
  they claim. *What is composed is what script.db calls it, and the exploits shown are the best of
  those known.*
* **Console.** A line goes on after a part of it failed, plugins join the registry, and a line of
  the plan is followed long after it was printed. *Followed, it selects and runs what it names and
  nothing else; a ledger keeps what runs of its workspace reported.*

## Modules

| module | models | role |
|---|---|---|
| `DurableGraph` | - | the promise of the autosave: live graph, durable copy, restarts |
| `Snapshots` | `snapshots.py`, with what it uses of `store.py`, `persistence.py`, `app.py` lifespan | autosave task, savers, worker threads, clocks, files, crashes |
| `SnapshotsProofs` | | proofs about it |
| `Confidence` | arithmetic of `models.py`, `sources.py` | noisy-or, folding, decay, in ten-thousandths |
| `Engine` | `engine.py`, `stages.py`, graph writes of `store.py` and `models.py`, ingress of `app.py`, leads of `vulnref.py` and `store.py` | scans, stages, evidence, graph, reports |
| `EngineProofs` | | proofs about it |
| `Events` | `events.py`, emit of `store.py`, WebSocket route of `app.py` | sessions, queues, pumps |
| `EventsProofs` | | proofs about it |
| `Fetch` | `fetch.py` fetch_nvd, page order of `builddb.py`, upsert of `vulndb.py` | runs, pages, checkpoint; NVD as environment |
| `FeedProofs` | | proofs about it, and about `Matching` |
| `Gate` | `auth.py`, `ratelimit.py`, roles, costs, caps and reading routes of `app.py` | credentials, tickets, buckets, caps, what a principal can learn |
| `GateProofs` | | proofs about it |
| `Telemetry` | `observability.py` | the metrics, the events and requests that feed them |
| `TelemetryProofs` | | proofs about it |
| `Sorting` | - | a finite set in an order, for `Matching` and `Console` |
| `Matching` | `vulndb.py`, `cpe.py`, `vulnref.py`, `feeds.py`, builds of `builddb.py`, `resolver.py` | corpus, lookup, matcher, leads; proved about in `FeedProofs` |
| `Tooling` | `exploitdb.py`, `scriptdb.py`, `catalog.py`, `commands.py`, `handoff.py`, `resolver.py`, `builddb.py` | indexes, and the commands of a hand-off |
| `ToolingProofs` | | proofs about it |
| `Console` | `console.py`, `modules.py`, `builtin_modules.py`, `planner.py`, `importers.py` ingest | session, registry, options, plan, ledgers |
| `ConsoleProofs` | | proofs about it |
| `MC...` | | instances for TLC, one for each module |

### Snapshots

The graph is its version, the number of mutations in it; `_detach()` copies it without awaiting, so
a file holds exactly one version. `task` says where the autosave task is suspended (`idle` at
`_activity.wait()`, `timer` in the quiet wait, `saving`, `backoff`), `saver` where each caller of
`save_now()` is (at the lock, or waiting for its thread), `thread` what the worker thread of each
caller is doing (`queued`, `writing`, done). While the task holds the loop no other coroutine
moves. Writer threads, the clock, crashes and rotting files do not wait for it. Clocks are ages in
ticks, saturated where the code compares them. Cancellation withdraws a queued thread and abandons
a running one, as asyncio's executor futures do. `Prune` is the trailing part of every write; a file
it cannot unlink stays for the next one. A restart tries the files newest first: a file is loaded to
the end (`Loads`), gives up before its first row, or half-way (`GivenUp`), and then its first rows
stay in the store under those of the older file that is served. `mixed` says that the graph holds
such rows, and travels with the snapshots made of it.

### Engine

A scan suspends at the lock of its target, in `wait_for` while a stage runs, and between the end
of that stage and its own resumption; those are the values of `scan[r].st`. Between them its work
is one step, as in the code: applying a result records ports, services and fingerprints,
downgrades what a bad outcome puts in doubt, and, at the end, correlates and writes leads and the
report. `evidence` may change whenever a scan is suspended. Each fingerprint has its `log`, the
principals of its provenance log, which keeps `MaxHead` entries of the beginning and `MaxTail` of the
end and decides whether a submitter was heard before. No state of the program are `heard`, every
submitter the log ever named, and `sources`, who really submitted what it rests on (the finding
`attribution` is stated with it). `Ledger` has a row for a credible version that some CVE affects;
`Correlated` adds it to the leads of the graph unless one is there, which then stays as it was.

### Events

Every event is one step that logs it and offers it to all registered windows, since `broadcast()`
never awaits. `Accept` is what follows `await accept()`: register, hello, replay, start the pump.
A pump takes a message, is suspended while it is written, and comes round. Each message carries a
serial, which the program does not have: it is what "missed" is measured with.

### Fetch

`run` is the process, if there is one; `checkpoint` and `pages` are its files. A step is a request
with the page it writes, a checkpoint, or the final checkpoint. Page and checkpoint are written in
place (`Path.write_text`), so a kill inside a write leaves a torn file: a torn page is one the
build skips, a torn checkpoint is none. `began` (no state of the program) is when a pull asked for
its first page. `Ingested` is what a build makes of the pages on disk: name order, last one wins.

### Gate

A route never suspends between its checks and what it changes, so a route is a step; a scan is two,
with the engine in between. A refused request changes nothing and is no step, except one refused by
its bucket, which is charged first. The clocks of buckets, tickets and credentials are one, a tick
being the time one token takes to be refilled. What the reading routes answer is `View`, an operator
of a principal, of the graph and of the number of open windows, so that the scope property compares
two answers. `/api/health` tells every principal how many windows are open (`app.py:249`), whatever its
scope: ViewIsScoped is about hosts and holds that number fixed.

### Telemetry

A registry is its `series`, label set by label set; `seen` (no state of the program) is what was
observed before any folding. The steps are the requests the middleware ends and the events a scan
emits; each feeds the families `default_specs()` declares. A request may break off anywhere (`Breaks`):
before it reached the engine, at the lock of its target, in a scan, or, once the pipeline has finished,
with none or a part of its report recorded (`ReportBreaks`).

### Matching

`cve`, `applicability` and `product_alias` are the tables of the corpus, the latter two as sets of
rows. `FetchFile` adds a file of NVD records; `Build` reads all of them, and a build is a sequence of
batches (`WriteBatch`), each one transaction, after which `RecordProvenance` stamps the corpus, or it
ends before that (`BuildInterrupted`). Lookups are operators of the tables, in the form the SQL has:
the narrowing by the leading number of a version first, then order and limit, then the matcher by
whole versions, which are sequences of numbers and words compared as `compare_versions()` does.
Priorities are integers of four decimals, rounded where the code rounds and clamped where it clamps;
`Indexed` is what the catalogue of exploits upgrades a maturity to. Two things are no part of the
program: `fed`, the entry last ingested for a CVE, which the lookup is compared with, and `Rank`, the
order of versions that is meant, which the properties speak of instead of the comparison token by
token.

### Tooling

A hand-off only reads, so it is an operator of the indexes: `BuildCommands` collects what each part
composes for a lead under a selection of categories. The steps are a fetch, the batches of a build,
the replacement of `script.db`, and the start and end of a session, which reads the scripts once.

### Console

`todo` is what is left of the line that is executed: the parts are executed one by one and a refused
one does not stop the rest, as in `execute()`. `Printed` are the lines `render_plan()` prints under the
address of a host: `-> use X` for a gap or a contradiction, `-> handoff CVE   [operator action, no
module]` for a lead. The operator follows one of them any time later (`copied`), as it is printed, or
completed with `set RHOST` and `run` and without the note, which is the shape `Recommendation.command()`
gives the clients of the server; `Split` says what either becomes. `did` is what the line under
execution ran or showed, and `reported` what a ledger is compared with (`copied`, `did` and `reported`
are no state of the program). What a run of the engine does to
its host is any change of its graph, with a report of the leads it then has, in the order of their
priorities and equals in any order, or an exception after the graph has changed; Engine models how.
A class is what it declares: `ClassesAssumption` says that those the planner names, of the shipped
ones, need nothing but an address, and that a plugin which is the first to take such a name (in a
console given a registry without it) is no different; `ViewsAssumption`, that a graph is finite.

## Runs

All of them are run with TLC and two workers; each takes two minutes or less.

| run | module / cfg | checks | result |
|---|---|---|---|
| snapshots | MCSnapshots | TypeOK, NothingLost, OneWriter, RetentionOvershoot, DurablePromise (refinement of DurableGraph), EventuallySaved, CloseFinishes | hold |
| clean_shutdown | MCSnapshots / MCCleanShutdown | CleanShutdown | **violated** |
| engine | MCEngine | TypeOK, OneScanPerTarget, OneOpinion, SilenceIsNoEvidence, AttemptsExplainReport, LedgerIsRecorded, EveryScanEnds | hold |
| attribution | MCEngine / MCAttribution | NoSelfCorroboration | **violated** |
| events | MCEvents | TypeOK, EveryEventOffered, OrderedAndInScope, GapsAreMarked, CatchesUp | hold |
| fetch | MCFetch | TypeOK, CompletePullIsCurrent, DeltasSupersede, EveryRunEnds | hold |
| gate | MCGate | TypeOK, ViewIsScoped, RateBound, WindowsAreBacked, OwnFloodOnly, ReportSurvives | hold |
| telemetry | MCTelemetry | FoldingIsExact, FoldsAreReported, FamiliesAgree | hold |
| matching | MCMatching | LookupIsExact, NoLeadsIsExplained, ExploitedIsKept | hold |
| tooling | MCTooling | AsFiled, BestFirst | hold |
| boundary | MCTooling / MCBoundary | NeverFired | **violated** |
| console | MCConsole | PlanCanBeFollowed, LedgerIsWorklist | hold |

### Bounds, and why they are enough

* **snapshots**: two changes, three saves, one failing write or unlink, one outage, one file that
  fails half-way through `load()` (a file that fails at once is the special case in which nothing of it
  stays), retention of one file, quiet period 1 and ceiling 1. Two changes are a burst (the second arrives during the
  save of the first); three saves are the task, a forced one and the final flush at once, and leave an
  older file for the restart to fall back on.
* **engine**: one target (targets share nothing but the process), a web and an ssh port, two
  versions, two submitters, two requests, one later submission. Two versions are a dispute, two
  submitters corroboration, two requests contention for the lock. Only the web port has versions that
  CVEs affect. The log keeps one entry of its beginning and one of its end, so that the third
  observation or downgrade of a fingerprint cuts it. `MCStaged` picks evidence that
  reaches every outcome: nothing, broken, clear, ambiguous, adapters that may hang.
* **events**: two windows of different scope under one or two ids, queue of two, replay of one,
  three events: a queue overflows before, during and after a send, and the replay is cut.
* **fetch**: three records in pages of two, three moments, a window of one, one torn write. Three
  runs with distinct starts are what it takes to abandon, tear and resume a pull; three records in
  pages of two make a page that is not full and a cursor that is not a multiple of the page.

* **gate**: two principals with three credentials, one of which expires, two hosts, an allowance of two
  tickets in a table of three, one bucket, one report, two ticks, four requests: every table is at its cap with another
  principal waiting, and a ticket meets the tick in which it expires.
* **telemetry**: room for one series in each metric, so that the second label set folds, and the
  meta-counter of folds folds too; five requests, of which two scan two targets, with four events
  between them. Contention for one target is Engine's subject; the guard of `ScanStarts` is there for the
  proof, which knows no bound.
* **matching**: versions with a common leading number, bounds of every kind, a CVE whose statements
  are revised, and batches of two, so that a build ends in the middle of a file.
* **tooling**: four exploits under a limit of three, of which two are composed; scripts filed twice,
  unreadable, unknown, or named like a category.
* **console**: three lines of up to four parts, two workspaces, one host the importer knows and
  another only the operator names, a ledger of three rows for four leads, one of which comes twice and
  two of which are as urgent. Run and plan, change of workspace, follow: three lines are a line that is
  followed elsewhere, after a plugin, over another selection, or over a ledger that is full.

The theorems below lift all these bounds for the safety properties they cover.

### Fairness

Weak fairness only, and only on what the code schedules. *Snapshots*: the task, savers and
`aclose()` are coroutines that the loop resumes when they can run; threads finish, with or without
an error; time passes. Nobody is obliged to change the graph or to close the manager. *Engine*:
coroutines that can run do; adapters may hang for ever, the timer of `wait_for` does not. *Events*:
a pump whose queue is not empty gets its turn, and a write to a peer that is there ends (the
server's socket write; a vanished peer's may hang or fail). *Fetch*: a request ends, by its timeout
and bounded retries, and the loop goes on; an interrupted run is under no obligation to be started
again.

## Proofs

Each proof module states an inductive invariant `IInv`, proves `Init => IInv` and
`IInv /\ [Next]_vars => IInv'`, and derives the properties. The conjuncts of each `IInv` were
checked with TLC on the same instances before they were proved. The assumptions are the named
`ASSUME`s of the modules, which TLC evaluates in every run.

| theorem | says | rests on |
|---|---|---|
| `SnapshotsProofs!TypeCorrect`, `NothingLostAlways`, `OneWriterAlways` | TypeOK, NothingLost, OneWriter | the holder of the lock has the latest stamp and finds its file on disk when its thread is done; only a cancelled task leaves a thread nobody waits for; a clear flag is covered by the disk or by that holder |
| `SnapshotsProofs!DurablePromiseKept` | DurablePromise, if no stored file is cut to zero bytes | files and writers are in chronological order: later names hold later versions |
| `SnapshotsProofs!RetentionOvershootBounded` | RetentionOvershoot | a file above the retention belongs to a save between its rename and its prune, or to one that was abandoned or died there |
| `EngineProofs!TypeCorrect`, `OneScanPerTargetAlways`, `OneOpinionAlways` | TypeOK, OneScanPerTarget, OneOpinion | the queue of a target holds its unfinished scans once each, and only its head is past the lock; the first entry of a log survives every cut, so a submitter who is alone is always found in it, and makes no more than a claim of the fingerprint under folds, decays and re-observation |
| `EngineProofs!SilenceIsNoEvidenceAlways` | SilenceIsNoEvidence | the result a scan holds is one its stage can return, and who is past the lock of a target writes its graph alone |
| `EngineProofs!AttemptsExplainReportAlways`, `LedgerIsRecordedAlways` | AttemptsExplainReport, LedgerIsRecorded | the trail of a scan under way explains each slot it has left, and the current one up to the technique it is at; what a report shows is written to the graph in the same step, and no step takes a lead away |
| `EventsProofs!TypeCorrect`, `EveryEventOfferedAlways`, `OrderedAndInScopeAlways`, `GapsAreMarkedAlways` | TypeOK, EveryEventOffered, OrderedAndInScope, GapsAreMarked | the serials in a queue are contiguous up to the last one offered, and what is offered, taken, dropped and queued adds up |
| `FeedProofs!TypeCorrect`, `CompletePullIsCurrentAlways`, `DeltasSupersedeAlways` | TypeOK, CompletePullIsCurrent, DeltasSupersede | a full cursor is backed by the pages below it; a full page is only overwritten by one with the same records, or torn; the pages of one window are written in the order of their indices; a delta page was current when its window ended |
| `FeedProofs!LookupIsExactAlways`, `NoLeadsIsExplainedAlways` | LookupIsExact, NoLeadsIsExplained, if no leading number of a version is longer than `_major()` reads (ShortMajors) | `CorpusInv`: the tables are what was fed and nothing else, what was fed and what a build has left come from the files, and what was in the directory when a build ended is in the corpus; the narrowing keeps a row that applies, the matcher decides by the ranks, and a lookup below its limit returns all rows of a CVE |
| `FeedProofs!ExploitedIsKeptAlways` | ExploitedIsKept, if nothing is matched with a confidence below 0.05 | a factor of 1.6 on 7.5 leaves at least eight ten-thousandths between the two priorities, which the roundings and both penalties cannot close; or the first is at the clamp |
| `FeedProofs!NarrowingIsNeverTooStrict` | NeverTooStrict, under ShortMajors; without it the code breaks the formula, see below | versions in the order of `compare_versions()` have leading numbers in that order |
| `FeedProofs!VersionsCanBeRanked` | any finite set of versions has ranks that agree with `compare_versions()`, which therefore is an order | the first token in which two versions differ |
| `GateProofs!TypeCorrect`, `ViewIsScopedAlways`, `RateBoundAlways`, `WindowsAreBackedAlways`, `OwnFloodOnlyAlways`, `ReportSurvivesAlways` | TypeOK, ViewIsScoped, RateBound, WindowsAreBacked, OwnFloodOnly, ReportSurvives | serials tell tickets apart and outgrow those of windows; a ticket was issued while its credential held, and loaded entries share no token; what was taken from a bucket and what it holds is bounded up to its last refill; of tickets with distinct serials k at most have fewer than k newer ones |
| `TelemetryProofs!FoldingIsExactAlways`, `FoldsAreReportedAlways`, `FamiliesAgreeAlways` | FoldingIsExact, FoldsAreReported, FamiliesAgree | a label set that has no place is in `_other`, and only of a full metric; what is in the series of a metric, places and `_other`, is what was observed; no scan has a duration that did not finish, none finished that did not start, and what started without a duration is under way or a 500 of its route |
| `ToolingProofs!AsFiledAlways`, `BestFirstAlways` | AsFiled, BestFirst | between two batches the row of an exploit and its links are those of the last line ingested for it; a selection lets through what its worst category allows |
| `ConsoleProofs!PlanCanBeFollowedAlways`, `LedgerIsWorklistAlways` | PlanCanBeFollowed, LedgerIsWorklist | a registered name stays registered, and a class the planner names needs nothing but an address; a line that was copied names one of them or a reported lead; after each part of a line that is followed the selected instance is the named one, then aimed at the host; a ledger that has room has a row of every lead reported |

None of these properties is inductive by itself: NothingLost says nothing of who holds the lock,
OneOpinion nothing of where a submitter's name comes from, EveryEventOffered nothing of what is in
the queue, CompletePullIsCurrent nothing of a pull that is half done, RateBound nothing of what is
left in a bucket that is refilled again, PlanCanBeFollowed nothing of a line before its last part,
LookupIsExact nothing of the rows of CVEs no fingerprint asks for, and NoLeadsIsExplained nothing of
a build that is half done. `FeedProofs` holds two of these arguments, side by side: what the puller
leaves on disk (`IInv`) and what the corpus makes of files (`CorpusInv`). The two models share no
state, since Fetch looks at pages and Matching at records.

The assumptions on constants, and why the code justifies them: `RankAssumption` says that the
properties' order of versions is that of `compare_versions()`, and VersionsCanBeRanked that there
always is one. `ShortMajors` is a hypothesis of the theorems that need it, not of the model: it leaves
out versions that start with a number of ten digits or more, with which NeverTooStrict is violated.
A minimum confidence of 0.05 is far below the default of 0.45; below it, rounding to four decimals may
make equal what the factor tells apart.

Sums over label sets, the rows of a batch and the merge of a ledger are recursive functions, or
counts of sets; `RECURSIVE` operators are in none of the modules proved about. Where an argument is
by induction over data (the partial sums of a registry, the rows merged so far), the proof takes the
least index at which the claim would fail, which exists because the naturals are well ordered.

Model-checked only: liveness (EventuallySaved, CloseFinishes, EveryScanEnds, CatchesUp,
EveryRunEnds) and everything about ENABLED, which this prover does not reach. Every safety invariant
and action property that a run checks and finds to hold is also proved. The correspondence of `Cut`,
`Sorted` and the scaled arithmetic with Python's is by reading, as is all of `map`.

## Findings

Each is a run whose property TLC finds violated; the quoted lines are in `PROJECT.json`.

* **clean_shutdown**: `aclose()` cancels the task inside `save_now()`, which has already cleared
  `_pending`; the final flush is skipped, and a write still queued is withdrawn. The last burst is
  lost although nothing failed.
* **attribution**: the submitter of a result is looked up when it is applied; evidence resubmitted
  in between makes a claim corroborate itself.
* **boundary**: `nmap --script vuln` runs scripts that script.db files under exploit too.

The modules state ten more formulas the code does not keep, one of them under another constant. They
have no run of their own; add them
to the cfg named here to see the behaviour.

* `DurablePromise` with `DamageKinds = {"empty"}` (MCSnapshots): a snapshot of zero bytes opens as an
  empty database, and a restart comes back empty instead of falling back.
* `OneSnapshot` (MCSnapshots): a snapshot that fails half-way through `load()` leaves its first rows in
  the store, and the older file that is served does not overwrite the hosts it lacks
  (`persistence.py:140`, `snapshots.py:229`), against "Load the newest readable snapshot"
  (`snapshots.py:217`).
* `CeilingHonoured` (MCSnapshots): a forced save that fails raises `_pending` without waking the
  sleeping task (`snapshots.py:321`).
* `DowngradeInScope` (MCEngine): a stage that fails before this scan recorded a service has an empty
  scope, which `_downgrade()` reads as every port (`engine.py:344`).
* `HeardCannotCompound` (MCEngine; a property): a submitter whose entries have been cut from the log
  counts as one never heard (`models.py:85`, `models.py:107`), against "A principal we have already
  heard from cannot compound its own claim" (`models.py:101`). With `MaxTail = 9` nothing is cut in this
  instance and it holds.
* `NewestWindowServed` (MCEvents, with one id for both windows): the handler of an old connection
  disconnects the new session of the same id (`events.py:120`).
* `RefreshUpdates` (MCFetch, with four moments and one record): delta pages outlive a newer full pull and overwrite it
  in the build (`builddb.py:134`).
* `AttackedGoesFirst` (MCMatching): `vulnref.py:338` says that the factor is applied "before the clamp so
  exploitation can actually reorder", but `score()` has clamped by then and `build_leads()` clamps again:
  a corroborated, weaponised 7.5 under attack ties with a 9.8 that nobody touches. What does hold is
  ExploitedIsKept: below the clamp the factor reorders, and at it nothing is ranked the wrong way round.
* `NeverTooStrict` (MCMatching, with `LongFiles`, `LongFingerprints`, `LongReference` and `LongRank` for
  the constants of those names): `vulndb.py:639` says that the narrowing "can only ever be too
  permissive, never too strict", but `_major()` cuts a leading number to nine digits, so that
  `1000000000` falls below a range that starts at `999999999`.
* `PrintedLinesWork` (MCConsole): `console.py:316` says that `plan` emits copy-pasteable `use X; set RHOST
  y; run` lines, but `cmd_plan()` prints `render_plan()`, whose `-> use X` selects a module and runs
  nothing, and whose hand-off has a note behind it that is taken for a target. Only the `commands` of the
  server have the shape the comment speaks of. What does hold is PlanCanBeFollowed.

Noticed while modelling, and in the models as the code has it:

* Fetch: a resumed full pull records the start of the *resuming* run as `last_pull`, so a record
  modified after its page was read and before that start is in no later window
  (CompletePullIsCurrent speaks only of records not touched since the pull began); a torn checkpoint
  loses `last_pull`; a delta whose records are modified again shrinks under its cursor.
* Matching: a rebuild that is running or was interrupted takes revised records back to an older
  version while provenance stays fresh (`builddb.py:215`); the limit counts rows and the warning CVEs
  (`vulndb.py:448`); a candidate found by product name has no version bounds (`vulndb.py:470`,
  against the comment at 728).
* Tooling: a script that has the name of a category widens a selection; one label decides what a
  script is, so one that is both vuln and external is composed for who asked for vuln; exploits that
  ExploitDB withdraws are never removed; loading the catalogue twice doubles it.
* Gate: a host that is scanned again keeps its old place in the reports; a target that is known is
  refused too once the cap is reached; refusals by scope are not counted, though the help text of the
  counter says so (`observability.py:511`).
* Console: in the server's plan the line of a contradiction is a bare `handoff` (`planner.py:81`);
  `set TIMEOUT` and `set DECAY` reach the option store only, which is read when the module is created
  (`builtin_modules.py:52`), and CONFIDENCE is read nowhere; a priority that changes between runs is
  not seen in the ledger (`console.py:115`); once the ledger is full the plan offers leads that
  `handoff` does not find.

## What is assumed, and what is left out

* The wall clock is not set back (snapshot names, pull windows), and no two runs of the puller
  start in the same second (the stamp of a delta page is one).
* No stored file is cut to zero bytes (for DurablePromise; see above).
* Event handlers of the store never suspend, as the shipped ones do not.
* Snapshots: rows that `load()` skips because they do not deserialise, the sweep of `.tmp-` files, `status()` and its counters.
* Gate: tokens are whole, and a bucket is refilled by ticks.
* Engine: confidences declared by a submitter (stage defaults are used), product names (one product
  per port); a version stands for its CVEs; exact rounding ties.
  The pipeline is the default one of `builtin_modules.py`.
* Events: the trimming of the event log (only its tail is replayed), `shutdown()` of the manager,
  which runs after the server has ended every handler; REPLAY_ON_CONNECT is less than QUEUE_MAX.
* Matching: the parsing of CPE names and feeds; priorities are scaled integers, and an exact tie of
  `round()` goes up; no fetch while a build runs.
* Tooling: wording, quoting, dates and platforms; the ExploitDB part of the catalogue, the lockfile.
* Console: commands that only print; the order of the plan; the staging of evidence, which Engine
  models; the plan the server gives (`Recommendation.command()`).
* Hazards known and covered by no property: a principal whose bucket is evicted while it is limited
  comes back with a full one (`ratelimit.py:83`). RateBound is about one life of a bucket, and nothing
  in the code bounds what is admitted across evictions.
* Fetch: the single-file feeds, which are downloaded beside their target and renamed, the manifest,
  answers that contradict their own `totalResults`, two pullers on one directory, and a build that
  dies half way.
* Not modelled: parsers, wording, the user interface, self-checks and benchmarks.

## Plan

1. **The server's plan**: `Recommendation.command()` with its bare hand-offs, against the console that
   is given them.
2. **More of Fetch**: the manifest and a property of `last_pull` under resumption.
3. **One corpus**: Fetch and Matching over the same pages, so that NoLeadsIsExplained speaks of what NVD
   published rather than of what was fetched.
