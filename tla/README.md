# A TLA+ model of inim

inim analyses network events (maintenance windows, outages) against public BGP
archives.  A catalog (SQLite plus files under `data/`) holds tickets, plans,
jobs and runs; a web server and a CLI queue *analysis jobs*; worker processes
execute them and publish immutable *runs*.  This directory holds TLA+ modules
for the parts of that system where the order of steps matters, the TLC
configurations that check small instances of them, and TLAPS proofs that hold
for every instance.

Paths below are relative to `src/src/` unless they begin with `docs/`
(`src/docs/`).

## 1. The system and its parts

| Part | Source | State | Operations | Hard because | Correct when |
|---|---|---|---|---|---|
| Job state machine | `catalog/jobs/mod.rs` | - | `legal_transition`, `is_cancellable`, ... | the service repeats its state lists by hand in SQL | every write of a state column is legal |
| Job service | `catalog/jobs/service.rs` | `analysis_jobs`, `analysis_job_events` | queue, retry, claim, lease renewal, stale scan, cancel, transition, fail, complete, progress | several processes; one transaction per call, nothing across calls | claims are exclusive, no duplicate queueing, retries continue ended attempts |
| Worker | `worker.rs`, `execution.rs` | claim, cancel flag, heartbeat thread, progress sink | `run_worker`, `execute_one`, `publish` | two threads share a flag; leases expire while it works; it can die anywhere | what it read before a step still holds when it relies on it; held jobs end |
| Publication | `catalog/jobs/publish.rs` | `data/jobs/<id>/staging`, `data/runs/<id>`, `analysis_runs` | validate, rename, import, complete | four steps over files and database without a common transaction; a run is found by its plan and the second of its start | at most one run per job with its valid artifacts, none after an accepted cancellation |
| Staging cleanup | `catalog/jobs/cleanup.rs` | staging directories | `cleanup --apply` | runs beside the workers | never takes an active job's files |
| Job requests | `catalog/web/job_handlers.rs`, `main.rs` | - | queue, cancel, retry, audit, cleanup | arrive at any moment | |
| UPDATE pipeline | `orchestrate.rs` | queue of indices, bounded channel, shared receiver, result slots | download threads, parse threads, merge | threads, back-pressure, early stops, panics | complete results, an outcome that no schedule changes, termination |
| Archive cache | `discover.rs` | `<cache>/<archive>`, `.sha256`, `.part` files | `cache_archive` | processes share names without a lock; two renames | what is read is what the checksum says |
| Derived cache | `derived_cache.rs` | one entry per archive checksum and target set | load, save | as above, and keyed by a checksum taken earlier | an entry equals what re-parsing gives |
| HTTP client | `catalog/access.rs` | budget, token bucket, adaptive rate | `fetch`, `fetch_post` | retries, waiting, a rate that changes while time is credited | never faster than configured, Retry-After kept, budget kept, calls end |
| Live ticket sync | `catalog/grnoc_viewer.rs`, `main.rs` | frontier, one long transaction | searches, lookups, reference expansion | stops, failures and deaths half way; resumed by later runs | rows and snapshots agree; every pending ticket is reached |
| Discovery, snapshots | `catalog/discovery.rs`, `sync.rs`, `store.rs` | `ticket_discoveries`, `event_snapshots` | record, advance, expand, `record_fetch`, `sync_catalog` | several commands over a source that changes | history only grows |
| Cohort, route state | `target.rs`, `cohort.rs`, `routes.rs` | the frozen cohort, current route per instance, event baseline | seed from the RIB, warm up, apply an update | observations of several collectors are sorted by collector first; several instances of a stream change in one second | the emitted changes are the whole story of the window |
| Lifecycle, waves, verdict | `lifecycle.rs`, `waves.rs`, `assess.rs` | - | functions of the emitted changes | they replay the changes in another order, from the RIB, with times cut to seconds | they say what the route state says |
| Sequitur | `sequitur/` | a grammar, a digram index | append a symbol | mutual recursion over positions that go stale | expands to the input, the recursion ends |
| Plan catalog | `catalog/import.rs`, `corpus_import.rs`, `web/jobs_view.rs`, `jobs/plan.rs`, `store.rs` | events, manifest revisions, plans, runs | import of files, corpus import, plan form, queue, publish | rows are found again by parts of their contents; the form writes in two transactions | importing again changes nothing, evidence matches the files, nothing unreviewed is queued |
| Ticket graph | `catalog/relationships.rs`, `review.rs`, `grouping.rs` | edges, group candidates, reviews, links | rebuild, review import, reject | a rebuild of many statements without a transaction, beside syncs, reviews and rejections | a rebuild is complete in the end, evidence is traced to its source, rejections survive |
| Workbench | `catalog/workbench.rs`, `import.rs` | - (stream summaries are imported) | episodes, end states, findings | aggregates over prefixes that disagree about time and loss | what it tells of a set of prefixes is true of each |
| Catalog database | `catalog/db.rs`, `migrations.rs` | schema | open, migrate | | |
| Archive planning and selection | `discover.rs`, `catalog/archive_plan.rs`, `plan.rs` | plan of a case study | select, plan, record a pilot | unreliable times of archives | |
| Research and comparison, session audit, reports, web views, artifact paths, CLI | the rest | | | sequential or read-only | |

How they interact: workers, handlers and commands never call each other; they
meet only in the database and the file system.  A worker runs the UPDATE
pipeline on its main thread (`Emit ... PipelineEnds` stand for it in
`AnalysisWorker`; `UpdatePipeline` opens it up), the pipeline's threads call the
archive cache and the derived cache, and the worker's heartbeat thread sets the
cancel flag the pipeline polls.  What the pipeline merges is the input of the
route reconstruction, whose changes the lifecycle, the waves, the verdict and,
after import, the workbench are computed from.  The live sync calls the HTTP
client and writes the catalog, from which the ticket graph is rebuilt; imports
and the plan form write the plans that jobs are queued with.  So most of what can go wrong is a matter of interleavings: what a
step may rely on that an earlier step read.  `PROJECT.json` lists these hazards
with the line each one bites at.

## 2. Modules

| Module | Models | State | Actions |
|---|---|---|---|
| `JobState` | `catalog/jobs/mod.rs` | - | definitions only |
| `JobService` | `catalog/jobs/service.rs` | `jobs` (rows), `newest` (state named by the newest event), `accepted` (history) | one per service operation; `ServiceSpec` is the most general client, and the abstract specification of the composed system |
| `AnalysisWorker` | `worker.rs`, `publish.rs`, `cleanup.rs`, requests | per worker `pc`, `cur`, `cancel`, `hb`, `sink`, `step`, `rid`; `staging`, `final`, `started` (second of the start), `runs` (plan, start, and the jobs whose artifacts they hold) | the steps of `run_worker`, `execute_one`, `publish`, the heartbeat thread, requests from outside, `Crash` |
| `UpdatePipeline` | `process_updates_pipeline` | `queue`, `chan`, `rx` (mutex of the receiver), `slots`, `cached`, per thread a step and an index | each thread's steps; `Panic`, `SetCancel`, `Join`, `Finish` |
| `ArchiveCache` | `cache_archive`, `load/save_update_cache`, `process_one_update_file` | `name` -> file, `data` of a file, per process step, open handle, checksum, observations | one action per file operation, plus failures and deaths |
| `FetchContract` | what callers of the client are promised | `remaining`, `returned` | `Fetch` |
| `PoliteClient` | `PoliteClient`, `RateLimiter` | `rate`, `tokens`, `since`, `successes`, `budget`, the call in progress | steps of `fetch_with`, one action per kind of answer, `Tick` |
| `SourceSync` | live sync, discovery rows, snapshots | `source`, `db` (committed), `tx` (open transaction), the command's state | steps of `cmd_grnoc_sync_live` and `sync_frontier`, other commands, `Edit` of the source, `Crash` |
| `RouteReconstruction` | `reconstruct_routes`, `freeze_cohort`, `admit_observation` | `rib`, `states`, `event_baseline`, `baseline_frozen`, `changes`, `at` (position in the sorted observations) | `SeedFromRib`, `WarmUp`, `Apply`, `PastCooldown` |
| `RoutePaths` | predicates on AS paths, kinds of transitions | - | definitions only |
| `StreamLifecycle` | `build_lifecycles`, `withdrawal_audit`, both kinds of waves, `derive_verdict` | - | functions of the state of `RouteReconstruction` |
| `Workbench` | `import_stream_summaries`, episodes, `build_findings` | - | functions of the lifecycles |
| `Sequitur` | the grammar builder | `seqs`, `index`, `work` (the call stack) | one per method: `Enforce`, `Substitute`, `ExpandRule`, ... |
| `PlanCatalog` | imports, the plan form, queueing, publication | `disk`, `out` (files), `cat` (tables), `tx` (the transaction of an import and the files it has still to read), `edit` (a form request between its transactions), `jobs` | `BeginImport`, `ImportFile`, `CommitImport`, `ImportFails`, `ImportCorpus`, `EditManifest`, `EditPlan`, `EditLost`, `Queue`, `Publish`, `EndJob`, changes of files |
| `TicketGraph` | relationships, reviews, group candidates | `snapshots`, `reviews`, `links`, `edges`, `groups`; `pc`, `todo` of the rebuild; `current`, `at`, `doomed` of the call of `upsert_group`, and `late`, a history of rejections that met it | the statements of the rebuild (those of `upsert_group` are `Upsert`, `ListSuperseded`, `DeleteRow`, `LookUp`, `Reclassify`, `InsertCandidate`), `Sync`, review imports, `RejectCandidate`, `Die` |
| `MCAnalysisWorker`, `MCArchiveCache`, `MCSourceSync`, `MCWorkbench`, `MCPlanCatalog`, `MCTicketGraph` | small instances for TLC | | |
| `AnalysisWorkerProofs` (with `JobService`), `UpdatePipelineProofs`, `ArchiveCacheProofs`, `PoliteClientProofs`, `SourceSyncProofs`, `TicketGraphProofs`, `PlanCatalogProofs`, and `AnalysisProofs` (of `RouteReconstruction`, `StreamLifecycle`, `Workbench` and `Sequitur`) | theorems about the module they are named after | | |

Composition: `AnalysisWorker` EXTENDS `JobService`, so its workers and requests
act on the same tables; `SourceSync` makes its requests through
`INSTANCE FetchContract`, which `PoliteClient` is shown to implement under the
mapping `remaining <- budget + InCall`, `returned <- outcome` (a call in
progress has not taken effect yet).  `Workbench` EXTENDS `StreamLifecycle`, which
EXTENDS `RouteReconstruction` and `RoutePaths`: every reachable route state is
an input of the functions above it, so the inputs are those the program can
really produce.

Definitions named `X_something`, which come right before `X` (`Mutant: ...`,
`The same with ...`), are variations of
definition `X` with a plausible bug.  No specification uses them; each was used
in place of `X` to see the property it is meant for fail.

### How the data is abstracted

* A plan revision with its hash is one value; a lease is `live` or `expired`
  and `LeaseExpires` is the clock; an error code is the stale scan's or another.
* Every service call is one SQLite transaction that re-checks what it read, so
  it is one action.  A refused call or one that loses to a busy database changes
  nothing; the caller's reaction is an action of the caller.
* Directories are `none`, `empty`, `partial`, `valid` or `invalid` (what
  `validate_staged` would say).
* An archive's fate (obtainable, readable) is chosen initially and hidden from
  the threads until they try.
* Of the second in which a pipeline starts it matters only whether two are the same:
  any of `Seconds` may be read, in any order.
* A body is identified with its SHA-256.  Files are modelled as the file system
  keeps them: opening truncates in place, a handle survives a rename of the name.
* Time in the client is counted in ticks; rates are token units per tick.
* A ticket's content is a value; a content refers to a set of tickets.
* A stream is a number with a collector and a session; a route is an AS path and
  a flag for the graceful-shutdown community; a key is a stream and an ADD-PATH
  id.  Observations are generated in the order the sort gives them, so the sort
  is a guard.  Times are integers in fractions of a second, cut to seconds where
  the code does it.
* The predicate of a transit, `collapse_as_path` and the kinds of transitions are
  computed on the paths, not abstracted.
* The builder's recursion is a sequence of calls still to be made; its depth
  limit is `MaxDepth`.
* A manifest is its ticket, revision, origins, whether its predicate is reviewed,
  and the rest as one value; a hash stands for what is hashed, so that rows are
  found by exactly the fields the code hashes.
* A fingerprint of a group stands for members and evidence; notes keep only the
  windows they quote.

### Assumptions

* Worker ids are distinct (`generate_worker_id` draws them at random; an operator who passes
  `--worker-id` sees to it).
* SQLite transactions are atomic and serializable; a process may die at any
  step, but the machine does not lose power (`fsync` is not modelled).
* `--once` is a worker that ends after a job: a `Crash` between jobs.
* The MRT parser is a function of the file's content (or panics).
* The viewer answers an exact lookup with the record asked for.
* In `PlanCatalog` two runs of one plan never start in the same second; in
  `AnalysisWorker` they may, and `insert_run` then finds the run that is there.
* Lists from the database keep their order within one rebuild.
* The `lifecycle.json` the workbench reads is that of the run it shows.

## 3. What is checked

Ten runs pass, with 40 properties; the numbers are distinct states.  `Inv` in a
run is the type invariant of its module together with the state invariants that
are stated beside it.  What is proved for every instance (section 4) is repeated
in a run only where the run says more than the theorem.

| Run | Bounds | Shows |
|---|---|---|
| `job_life` | 1 job, 2 workers, 4 stages, 1 crash, fair | the sink's copy of the state agrees with the row; the newest event of a queued, completed or cancelled job names its state; staging of active jobs is kept; a job links a run exactly if it is completed, also when the worker dies between rename, import and completion; the system implements `ServiceSpec`; held jobs end or are asked to stop (152 k) |
| `job_concurrency` | 2 jobs of 1 plan (queued or retried), 2 workers, 2 run ids, 2 seconds, no crash (1.3 M) | exclusive claims, no run after an accepted cancellation, a completed job links the run that holds its artifacts, and the jobs of a run have its plan and its start, retry chains |
| `update_pipeline` | 5 archives of which up to 2 are unobtainable or unreadable, 2 + 2 threads, channel of 2, 2 panics, cancel at any time, fair (2.4 M) | complete results, outcome independent of the schedule; the call returns unless every parse thread has panicked and a download thread waits on the full channel (`Hung`) |
| `archive_cache` | 2 processes, 3 runs, 2 bodies, all cache flags, 1 death | the cache heals for a run that is alone (`Inv`); without overlap every derived entry is what its archive gives |
| `polite_client` | budget 5, 2 retries, bucket of 2, rate 1 to 4 of 4 units, fair | rate bound over any interval up to 3 ticks and Retry-After (`Inv`), the contract, calls end (295 k) |
| `source_sync` | 3 tickets of which 1 is excluded, 2 contents with a reference, 1 search, budget 2, 1 edit, 1 refusal or death, fair (860 k) | fetched rows have a snapshot, one lookup per ticket and run (`Inv`), snapshots only grow, every pending ticket is looked up in the end |
| `reconstruction` | 2 prefixes of one session with 2 route instances each, of the second one without a path id, so that it can be ambiguous; 3 routes (one instance sees all three, the others one each), 5 observations at 5 instants around the window (69 k) | changes chain and carry the right baseline (`Inv`); lifecycles end where the store does; withdrawals and departures are those of the settled moments; absences add up; a verdict of no impact means the transit was never left; the two kinds of waves agree; end states of episodes are those of the store; findings tell every change once; their prefixes share the story |
| `sequitur` | 2 terminals, length 8, depth 4 (8 k) | the grammar expands to the input at every step, the recursion stops |
| `plan_catalog` | 2 tickets, 4 changes of files or edits, 1 job (967 k) | manifests have plans unless an edit was cut off, what an import has read stays settled (`Inv`); importing again changes nothing, evidence matches the output, unreviewed plans are never queued |
| `ticket_graph` | 2 tickets, 3 contents, 4 changes, 2 rebuilds, deaths (1.3 M) | extracted edges are in the version they name and evidence of candidates has a source (`Inv`), a rebuild that is not disturbed is complete whatever happened before, rejections survive but for those that land in the middle of `upsert_group` at the same tickets |

Why the bounds are enough for the interesting cases: two workers suffice for a
worker with an expired lease beside one that claims a retry; a second job is
needed for that retry and a third adds only more of the same.  One death can fall
on any step, and what it leaves is met by the other process (in `job_concurrency`, without
crashes, a lease that expires under a live worker plays its part).  In the pipeline the
channel (2) is smaller than the number of archives (5), so senders block, also when each
of two parse threads has panicked over an archive; both
error kinds, a cancellation and panics occur together, also of all parse threads.  In the cache three runs
allow one to leave something behind, one to overlap and one to suffer from it.
In the client two throttles reach the floor, two recoveries the ceiling, and the
budget runs out in the middle of a call.  In the sync two tickets that can be
fetched compete for the budget and an excluded one may stand before either; a
search uses a request of the same budget.  In the reconstruction five
observations are two RIB rows and a loss on each side of the window's end with a
return, or a loss, a return and a loss of one stream; the instants lie before,
at the start, at the end, behind the end and behind the cool-down, with
gaps of less than a second, of exactly the limit of a wave and of one above it in
fractions and not in seconds; two instances of a stream may change in one instant, and an instance without a
path id beside one with an id makes a stream ambiguous.  Eight symbols
over two letters make rules of rules that are taken apart again; the depth guard of 4 is met
(the code's limit is 20).  In the plan catalog, whose importable manifests are those `Manifest::load` accepts
(they have origins), a manifest and an
output are written and imported, and then both change, also during an import, or
two edits follow, of which the second finds the text of the first.  In the ticket graph one rebuild may die at any
statement and the second one repairs it, and four changes put a sync, a review, a
link and a rejection between them.  Bounds on counters (`MaxCrashes`, `MaxRuns`,
`MaxPanics`, `MaxFaults`, `MaxEdits`, `MaxMishaps`, `MaxSpan`, `MaxDelay`, `MaxIdle`,
`MaxSearches`, `MaxObservations`, `MaxLength`, `MaxInputs`, `MaxChanges`, `MaxJobs`,
`MaxVersion`, `MaxRebuilds`) are named in the modules.

`CHECK_DEADLOCK FALSE` is set for `UpdatePipeline`, whose threads really may stop
(`Hung`; `Terminates` excludes every other deadlock), and where a bounded input ends: `ArchiveCache`
(analyses), `RouteReconstruction` and what extends it (observations), `Sequitur`
(symbols), `PlanCatalog` and `TicketGraph` (changes).  Everywhere else TLC also
shows that no state is without a successor.

Properties of the reconstruction that leave cases out say so in their definitions,
because the code differs there (section 5): streams an update touched before the
event (`Quiet`), streams lost more than once (`LostOnce`, `SimpleLoss`).  The replay
may take changes of several instances in one instant in another order than they were
observed in, so `WithdrawnMeansAbsent` and `NoImpactMeansVia` speak of the settled
moments (`Settled`), which lie between no two such changes; only that a withdrawal
means an absence somebody observed is limited to streams without ties (`Untied`).

### Fairness

* `AnalysisWorker!FairSpec`: an operator restarts workers (`WF Start`), a process
  that runs takes its next step and a pipeline ends (`WF MainThread`), time
  passes (`WF LeaseExpires`), and the database is not busy for ever when the loop
  tries again and again (`SF` of the scan: the busy timeout is 5 s and `run_worker`
  polls).  Nothing is assumed of the heartbeat, of requests
  or of deaths.
* `UpdatePipeline!FairSpec`: some thread that can take a step takes one (`WF Threads`).
  Nothing is assumed of the scheduler's choice among threads or of the mutex, since
  every step uses up work.
* `PoliteClient!FairSpec`: time passes, the thread runs, a request gets an answer
  or fails (the default timeout of the blocking reqwest client is 30 s).
* `SourceSync!FairSpec`: the operator runs the command again and again, and the
  process runs.  Refusals and deaths are finitely many (`MaxMishaps`): under
  refusals without end the property fails (section 5).
* `Sequitur!BuildSpec`: the builder, which is one thread, makes its next call (`WF Work`).

## 4. What is proved

TLAPS checks every step; there are no assumptions but the named `ASSUME`s on the
constants and, where it is said below, a hypothesis of the theorem itself.  The
`ASSUME`s say that bounds are naturals and that the special values
(`None`, `NoFile`, `Empty`, ...) are none of the ordinary ones; besides,
`SourceSync` assumes that failures are answers of the client other than a record
or "not found" (`FaultsAssumption`), `TicketGraph` that tickets and kinds of
edges are finitely many (`CatalogIsFinite`), since a rebuild walks through them,
and `PlanCatalog` that the files it is given have the fields of a manifest or of
an output (`InputsTyped`) and tickets have an order (`TicketsAreNumbers`),
as streams, collectors and path ids have in `RouteReconstruction`
(`StreamsAreNumbers`) and terminals in `Sequitur` (`TerminalsAreNumbers`).  TLC
evaluates all of them in the runs.  The invariants `Inv` below are inductive and are
the ones the runs check; only `BuildInv` of the grammar, which says that a text
exists for every rule, is not enumerable, and the run checks what follows from it.

* `AnalysisWorkerProofs`, the service: `ServiceTypeCorrect`; `ServiceStepsAreLegal`
  (`LegalSteps`: the hand-written state lists in SQL agree with
  `legal_transition`); `ServicePromises` (`QueueNeverDuplicates`, `RetryChain`).
  `RetryChain` is inductive because rows keep plan, attempt and original
  (`StepShape`) and an ended state is never left.
* `AnalysisWorkerProofs`, the worker: `TypeCorrect`, `StepsAreSafe` (`Inv`),
  `ImplementsService` (the refinement of `ServiceSpec`), and every safety property
  of the two runs: `ClaimsAreExclusive`, `CancellationIsFinal`,
  `PublicationIsSafe`, `SinkIsCurrent`, `TimelineIsFinal`, `StagingIsKept`.  None
  of the promises is inductive by
  itself: that no run is published after a cancellation needs that a worker past
  `enter_publishing` holds a job in `PublishingRun` or `Failed` with no accepted
  request; exclusivity needs that a worker that holds a job is the one named in
  the row, and that a row once claimed never returns to `Queued`.  `PublicationIsSafe`
  does not say that a run belongs to one job: `insert_run` gives jobs of one plan that
  start in one second the same run; but all of them were publishing when their
  artifacts came in, and no job's artifacts are in two runs.  `TimelineIsFinal` leaves
  out failed jobs, to which a worker that has lost its lease may still report.  `Inv`
  says this for each worker (`WorkerInv`), job (`JobInv`) and run (`RunInv`).  The
  proof separates the worker that takes the step (`OwnStep`, `QuietStep`,
  `MoveStep`) from steps of nobody's (`ForeignStep`: scans and requests), with
  one lemma per group of actions.
* `UpdatePipelineProofs`: `PipelineInvariant` (`Inv`) for any number of archives
  and threads, `ResultsAreComplete`, `OutcomeIsScheduleFree`.  The argument: an
  index is in the queue, the channel or a hand until its slot is filled, unless
  it was dropped for the flag or a panic (`NothingLost`); threads end only when
  nothing is left for them (`EndsAgree`); so after the join an empty slot means
  that the flag is set, and `Finish` looks at the flag after the merge.
* `ArchiveCacheProofs`: `CacheHeals` (`Inv`) and `EntriesAreReproducible`, for any
  number of processes, bodies, runs and deaths.  Three layers: archives and
  derived entries never share a file, although a handle survives renames
  (`FilesApart`); runs that overlap have met (`RunsMeet`), so what a run that has
  met no other knows of the files (`Alone`) is disturbed by its own steps only,
  whatever earlier runs have left under the shared names; and as long as no two
  runs have overlapped, whoever wrote an entry was alone (`ApartAreClean`, which
  includes the temporary names a run that died leaves behind).
* `PoliteClientProofs`: `CallsAreSafe` (`CallInv`: types, Retry-After, what a call
  knows at each step) and `ContractIsKept` (the refinement of `FetchContract`)
  hold for every floor and ceiling.  `ClientIsPolite` (`Inv`) adds the rate bound,
  also for every floor and ceiling: the rate is at most the higher of the two
  (`Top`), which is the configured one unless that lies below the floor
  (section 5).  The bound over an interval is not inductive; `CreditCovered` is:
  requests sent since the interval began and tokens still in the bucket are
  covered by a full bucket and what `Top` credits in that time.
* `SourceSyncProofs`: `SyncIsSound` (`Inv`), `HistoryIsAppendOnly`
  (`SnapshotsAppendOnly`).  What is committed agrees because what the open
  transaction holds agrees at each lookup (`TransactionAgrees`: fetched rows of
  `tx` are stored in `tx`, whose histories extend those of `db`); a death or an
  error drops `tx`.
* `AnalysisProofs`, the reconstruction: `ReconstructionIsSound` (`Inv`), for
  any streams, route instances and observations.  `ChangesChain` needs the
  position in the sorted observations: the store is empty for collectors still to
  come, and changes are of collectors whose event has begun (`CollectorsInTurn`);
  the baseline needs at which stream of the cohort it was frozen (`FrozenAtStart`),
  which also gives the exact form the documentation leaves out: later collectors
  have none.  What is derived from the changes needs more of them: those of a
  collector are in order of time (`ChangesInOrder`), lie in the window and have
  the phase of their time (`ChangesInWindow`), and start from the RIB row, which
  an untouched instance still has (`StartsFromRib`).
* `AnalysisProofs`, the lifecycles: `LifecycleEndsLikeTheStore`,
  `WithdrawnAsAbsent`, `AbsencesFitTheWindow`, `NoImpactOnlyWhenVia` and
  `WavesAgree`, the five properties of `StreamLifecycle`, for any number of
  streams, instances and changes.  They follow from `Inv` in each state.  The sort
  (`Ordered`) lists every change once and in order (`OrderedIs`), and for one
  instance this is the order of the changes themselves; so after every step of
  the simulation each instance holds the route after its last change, or its RIB
  row (`SimulateReplays`, `ReplayHolds`).  Every settled moment of the
  reconstruction is a step of the simulation (`ObservedInOrder`, `SettledIsPrefix`),
  with the same routes; so whatever is absent or off the transit there is counted.
  Absence that is counted lasts, so it does not lie within an instant, and some settled
  moment has it (`ReplayAbsences`, `AbsenceWasSettled`).  Without ties every step is
  also a moment (`ReplayAtMoment`, `ReplayCounts`).  `Account` relates counts, times and
  absences at each step of the simulation; `SplitBlocks` and `PrefixIsListed` say
  what the cuts between waves leave together.  Induction over a sequence is by its
  least counterexample (`WFMin` of the library).  Of these six, all but
  `ReconstructionIsSound` and `WavesAgree` have the hypothesis `PathsArePresent`, that announcements have
  an AS path: the code does not enforce it, and without it the lifecycle sees a
  withdrawal where the store keeps a route (section 5).
* `AnalysisProofs`, the workbench: `EpisodesEndLikeTheStore`
  (`EndStatesAgree`) joins two of the results above: a stream lost once has a time
  of restoration exactly if its replay ends with a route (`Account`), and it ends
  like the store.  `FindingsTellOnce` (`ToldOnce`) rests on partitions being
  classes (`OnePartition`) and on the cut at `FirstLoss`, which is a position if
  `build_findings` does not panic; it needs no hypothesis on the routes.
  `PrefixesShareTheirStory` (`StoryIsShared`): the halves before a withdrawal have
  one shape (`SplitSharesShape`); a withdrawal takes away what the change before it
  has left (`SingleChains`), for streams with one instance, which needs that keys
  of changes occur in the sources (`ChangedKeysOccur`).  `EpisodesEndLikeTheStore`
  and `PrefixesShareTheirStory` have the hypothesis `PathsArePresent`.
* `AnalysisProofs`, the grammar: `BuildExpandsToInput` (`ExpandsToInput`), for every
  alphabet, length of the input and recursion guard.  It is not inductive: the
  expansion of a grammar says nothing of rules that are gone but still named by calls
  to be made.  The
  invariant (`BuildInv`) therefore says that there is a text `V[r]` for every id
  ever given out, fixed when the rule is created, such that (`Stands`) each body
  present, with `V` for its rules, is the text of its rule, the start sequence is
  the input, and bodies name only rules present.  `expand` walks the rules with a
  stack to stop at cycles; that it gives the same text (`ExpandsToStands`) needs
  that there is no cycle: a rule in a body has the smaller `Weight`, by the length
  of its text and, for a body of one symbol, by its id, for such a body always
  names a younger rule.  One lemma per edit of the grammar (`StandsCreated`,
  `StandsSubstituted`, `StandsExpanded`, `StandsDropped`, `StandsAppended`) shows
  that `V` survives it.  The calls to be made (`WorkOk`) rely on little: a
  substitution on its rule and on the text of its digram, the rest of an
  expansion or substitution on the sequence it works in, nothing on the index,
  which may hold any positions (`IndexOk`).  What they rely on stays, because a
  call that may remove a rule comes only before calls that need older ones
  (`SafeBefore`), and a rule is expanded as soon as it is found to have one use at
  most.  The recursion guard plays no part in this.
* `TicketGraphProofs`: `EvidenceIsSourced` (`Inv`),
  `UndisturbedRebuildIsComplete` (`RebuildIsComplete`), `RejectionsLast`
  (`SettledRejectionsKept`).  `TablesInv` holds at every statement of a rebuild beside
  syncs, reviews and deaths: edges are append-only up to their resolution, so a
  candidate's evidence stays sourced also when it was read before.  Extracted edges and
  overlaps are traced to the versions and windows they quote, accepted edges only to a
  stored version (a review may say anything of it, a pair of a ticket with itself
  included), and evidence from shared reviews is not traced, as reviews are overwritten.
  A rejection is lost only to a statement by id of the call of `upsert_group` it landed
  in (`UpsertAgrees`: of the rejected rows only those in `late` can be among what the
  call has chosen).
  `StagesDone` says what each stage of an undisturbed rebuild has left
  finished, and that later stages do not undo it.
* `PlanCatalogProofs`: `CatalogIsConsistent` (`Inv`), `ImportIsIdempotent`
  (`ReimportChangesNothing`), `EvidenceIsGenuine` (`EvidenceMatchesOutput`),
  `UnreviewedIsNotQueued` (`NeedsReviewNeverQueued`), for any manifests, forms,
  outputs and numbers of jobs.  None of the last three is inductive.  The tables
  only grow and hold no key twice (`Grows`, `CatalogOK`); what one file's import
  leaves is `Settled`, which rows added by anyone else keep, and importing what
  is settled finds every row.  The open transaction grows from the catalog it
  began with (`ImportAgrees`), so the commit cannot undo what others wrote
  before, and nobody writes meanwhile.  For the review, a ready plan is one of a
  reviewed file or of a revision that kept its origins (`ReadyIsReviewed`).  The
  attempt to prove an earlier form of `NeedsReviewNeverQueued` failed for a good
  reason: see "Plans and imports" in section 5.

Every invariant, action property and refinement the runs check has a theorem.
Only model-checked:

* the five liveness properties (`RunningJobsEnd`, `Terminates`, `CallsEnd`,
  `PendingResolved`, `BuildTerminates`): fairness is out of the
  prover's reach.

## 5. Where code and documentation disagree

Two runs show a disagreement; each property states what the code's own text says.

| Run | Text | What the code does |
|---|---|---|
| `finding_split_withdrawal` | `catalog/workbench.rs:2051` asserts "withdrawal present in the split branch" | of two prefixes with one baseline, one is withdrawn in the event and one in the cool-down: both count as withdrawn, but the list of transitions of the second is empty (`lifecycle.rs:1062`), and `build_findings` panics |
| `finding_unreviewed_origins` | `web/job_handlers.rs:94` "Free-form origin ASN entry is NEVER silently reviewed" | from a reviewed manifest, origins entered in the form and a second edit that leaves them alone: the second stores them as Reviewed with a Ready plan (`web/jobs_view.rs:304`) |

Five more are stated as properties that no run checks, because the code does not keep
them; the property a run does check makes exactly this exception.

| Definition | Text | What the code does | TLC refutes it with | Checked instead |
|---|---|---|---|---|
| `AnalysisWorker!PublishedRunsUnchanged` | `docs/computational-model.md:99` "Published analysis runs and their artifact rows (immutable by convention ...)" | a plan that was completed is queued again and starts in the same second: `insert_run` finds the published run (`catalog/store.rs:134`), and the second job's artifacts and stream summaries are added to it, so that each stream has two rows (`store.rs:200`) | `job_concurrency.cfg` and 1 worker | `CompletedLinksItsRun` |
| `TicketGraph!RejectedKept` | `catalog/store.rs:1099` "Rejected or reviewed rows are never touched", `grouping.rs:75` "The rejected fingerprint is retained" | a rejection lands between the SELECT of `supersede_pair_groups` or `insert_group_candidate` and the DELETE or UPDATE by id: the row is deleted, or given its old confidence back.  `reject_candidate` is public, and only tests call it at this commit | `ticket_graph.cfg` | `SettledRejectionsKept` |
| `UpdatePipeline!CallReturns` | `orchestrate.rs:1394` "parse stage gone" | the receiver is held by `process_updates_pipeline`, so `send` never fails: when all parse threads have panicked and the channel is full, a download thread waits for ever and so does the call | `update_pipeline.cfg` | `Terminates` |
| `StreamLifecycle!CooldownLeavesVerdict` | `docs/DOMAIN.md:88` "Cooldown observations never change the event-window verdict" | `derive_verdict` (`assess.rs:196`) reads lifecycles built from the changes of both phases (`orchestrate.rs:831`); one withdrawal in the cool-down changes the verdict | `reconstruction.cfg` | `NoImpactMeansVia` |
| `PoliteClient!ConfiguredRateKept` | `catalog/access.rs:954` "`configured_rps` is the ceiling (never exceeded)" | with a configured rate below `ADAPTIVE_RATE_FLOOR_RPS`, which nothing refuses, the first 429 raises the rate to the floor (`access.rs:1055`) | `polite_client.cfg` with `Ceiling = 1`, `Floor = 2` | `RateBounded` (in `Inv`) |

Met while modelling, present in the modules, not a run of their own.

Jobs, pipeline, caches, client and sync:

* `retry` does not look for other active jobs (`service.rs:962`, against
  `docs/OPERATIONS.md:61` "only one active job per exact plan revision");
* a worker that dies leaves its job in `CancelRequested`, where neither the scan
  nor the claim looks (`service.rs:864` "then transitions to Cancelled");
* a lease that expires between import and completion leaves a failed job with a
  complete run (`docs/OPERATIONS.md:83` "An incomplete job never appears as a
  completed workbench");
* the parse of a file that another process has just truncated is stored under the
  checksum of the whole one (`derived_cache.rs:1` "reproducible from source
  archives");
* the key of the extraction cache lacks the predicate (`orchestrate.rs:361`);
* after a lost lease the worker asks for a cancellation of its own job, which
  then stays in `CancelRequested` (`worker.rs:692`: "the stale scan will fail the
  job");
* the worker removes the staging directory of a job that the stale scan failed
  (`worker.rs:582`, against `service.rs:768` "preserve the staging directory");
* no stage emits `ValidatingArtifacts` and `enter_publishing` accepts every
  executing state (`docs/GLOSSARY.md:139` "cannot be skipped"; validation itself
  does happen, in `PublishingRun`);
* progress columns of ended jobs are written by a worker that has lost its job
  (`service.rs:1172`, against `jobs/mod.rs:8` "immutable");
* "Parsed all n" is announced for a cancelled call (`orchestrate.rs:1497`);
* an archive that cannot be opened is merged as one without observations
  (`orchestrate.rs:1203`, against line 1338);
* after the last retry nobody waits for the Retry-After that came with it
  (`access.rs:536`, `docs/DATA_PROVENANCE.md:181`); `RetryAfterKept` is about the
  call in progress;
* a 5xx between two successes does not reset the recovery counter
  (`access.rs:533`, against line 40 "Consecutive"), and a 200 leaves
  `last_retries` of an earlier call (`access.rs:499`, against line 302);
* a ticket whose lookup is always refused with 403 stops every run at the same
  place, so the tickets behind it are never reached (`grnoc_viewer.rs:472`,
  against line 370);
* a ticket that returns to an earlier content gets no new snapshot
  (`sync.rs:205`, against `docs/DATA_PROVENANCE.md:112`);
* search hits are recorded as `AnalystSeed` (`main.rs:2936`, against
  `discovery.rs:19`);
* `record_discovery` returns the existing row whatever its status, so a ticket
  once Unresolved or Fetched never becomes pending again (`store.rs:690`).

Reconstruction, lifecycle, waves, verdict:

* observations are sorted by collector first and the event baseline is frozen
  once, so it is the state at event start only for the first collector
  (`derived_cache.rs:271`, `routes.rs:168`, against `docs/GLOSSARY.md:76`);
* the lifecycle starts from the RIB and not from the state after the warm-up, and
  replays changes of one second in the order of path ids (`lifecycle.rs:861`);
* a departed stream that returns by `ReturnToBaseline` has no restoration time;
* the audit sets the last loss against the first restoration and cuts negative
  times to zero (`lifecycle.rs:1525`);
* an announcement with an empty AS path is a withdrawal (`tokenize.rs:27`);
* semantic waves compare whole seconds, impact waves fractions
  (`lifecycle.rs:628`, `waves.rs:21`);
* read from the code, not in a module: `validate_update_gaps` compares neighbours
  of the selected archives only (`discover.rs:273`), so archives missing before
  the first one, behind the last one, or all of them are no gap, and a broker
  `ts_end` that lies behind the data, which `discover.rs:167` expects, hides one
  in the middle; the continuity gate of `derive_verdict`
  (`docs/design/invariants.md:58`, TC-5) is not reached then.

Sequitur: a grammar may keep the same digram twice, `ababab` for one
(`sequitur/grammar.rs:40`): positions in the index are stale after a
substitution.  The expansion holds nevertheless.

Plans and imports:

* a plan is found by a payload without window, collectors and predicate
  (`store.rs:104`, `import.rs:515`), so a changed manifest may get an older plan;
* the plan form writes manifest and plan in two transactions, and takes the event
  by its external id alone (`web/jobs_view.rs:384`);
* an edit that leaves the origins alone may produce the very text of an earlier
  revision with origins entered in the form; `insert_manifest_revision` returns
  that row (`store.rs:70`), which stays NeedsReview while its new plan is Ready
  (`NeedsReviewNeverQueued` names this exception, `Carried`);
* an import over an existing run accepts added and missing files silently;
* a corpus import has no transaction, and a ticket known from the corpus and from
  a manifest has two events;
* `store.rs` begins with "never updated in place" and holds UPDATE statements.

Ticket graph:

* a pair may have two candidates (`grouping.rs:21`, `store.rs:1106`), details of a
  superseded one are lost (`store.rs:1107`), and a rejected one returns when its
  evidence shrinks (`grouping.rs:18`);
* the note of a temporal overlap stays when a window changes, and a reviewed edge
  equal to an extracted one stays Unreviewed;
* a review file whose edge has one ticket at both ends is accepted (`review.rs:247`),
  and gives a candidate of that ticket with itself (`grouping.rs:248`);
* `reject_candidate` and `bounded_neighbors` are called by tests only, and the
  latter's "breadth-first" search pops a stack (`relationships.rs:258`).

Workbench:

* the import stores the category as the transit state, so `NamedPlaneDeparture`
  and `NamedPlaneReturn` are never produced (`import.rs:584`,
  `workbench.rs:1020`);
* a plain withdrawal also yields a finding "AS path changed" without transitions,
  though the comment asks for a non-empty shape (`workbench.rs:2017`);
* the absence half of a split may hold prefixes that return on different paths
  (`workbench.rs:1612` "must be true for every prefix");
* a stream that was lost, restored and lost again, or that had returned to the
  transit before its loss, counts as restored while it is absent, and so does one
  restored only in the cool-down (`workbench.rs:1319`);
* `BaselineRestored` means only a return to the reviewed transit, on any path.

## 6. What is not modelled

* Rendering: `catalog/web/view.rs`, `path_diagram.rs`, `output.rs`, `report.rs`,
  `status.rs`, the API and the larger part of `workbench.rs` (labels, sentences,
  order of presentation).  Read-only, and about wording.
* Text and table lookups: identifiers in ticket texts, `source_extract.rs`,
  `document.rs`, `netprofile.rs`, `origin_inventory.rs`, conventions and profiles.
* Code outside the repository: MRT parsing (bgpkit-parser), the broker query.
* Argument parsing, `worker_heartbeats` and metrics (nothing reads them for a
  decision), the report of `reconcile_orphans`, the demo and test doubles.
* Not modelled yet, see the plan: archive selection and planning, the RIB cache,
  batches, migrations, the import of case studies and target research, the
  session audit, comparison of observers and phases, restoration times and the
  cool-down outcome of the workbench, lifecycle reports and motifs.

About half of the lines under `src/src/` are tests inside the files and rendering,
which no definition here stands for.

## 7. Plan

More of the system:

1. Archive selection (`select_rib`, `select_updates`, `validate_update_gaps` in
   `discover.rs`) and planning (`archive_plan.rs`) as functions against a
   reference definition: what is selected covers the window, and a gap inside it
   is reported, also when the times of an archive are not those of its name; then
   composed with the reconstruction, so that the verdict is compared with what
   happened and not only with what was observed.
2. The rest of the workbench's derivations: restoration times, cool-down outcome,
   principal findings.
3. `case_study_import.rs`, `target_research.rs` and `migrations.rs`: idempotent,
   atomic across a death.
4. The RIB cache and the session audit, which have the shape of `ArchiveCache`
   and of `UpdatePipeline`; batches over the job service.

Proofs: every safety property of the passing runs has a theorem.  What is added to the models should come with its own: the invariants of
the parts listed above, and, short of liveness itself, a measure that every call
of the builder decreases.
