# kube9-operator in TLA+

kube9-operator is a single-replica Kubernetes operator written in TypeScript. One
Node.js process watches cluster events, runs assessments and conformance checks,
collects cluster data, and publishes a status ConfigMap; it keeps its history in one
SQLite file that CLI commands (run with `kubectl exec`) open at the same time. This
directory holds models of the parts of it where order, overlap, failure and restarts
decide whether it is right, the TLC configurations that check them, and proofs of
their safety properties for every value of the constants.

Source paths below are relative to `src/src/`, the documents to the repository.

## The system

One process, one event loop: a callback runs to completion, and two activities
interleave only at an `await`, a timer or a reply. Concurrency comes from many timers
on that loop, from requests in flight to the API server, from CLI processes on the
same database file, and from the kubelet, which kills and restarts the process.

| Part | State it keeps | Operations | Interacts with | What makes it correct |
|---|---|---|---|---|
| Event watcher (`events/kubernetes-event-watcher.ts`) | `isWatching`, the watch request, a reconnect timer, a health gauge | start, stop, reconnect, handle event | API server, recorder, liveness probe | a lost watch is replaced or seen by the probe |
| Event recorder (`events/event-recorder.ts`) | bounded queue, dropped counter | record, dequeue | watcher, worker | bounded, first in first out, nothing lost unaccounted |
| Queue worker (`events/queue-worker.ts`) | interval, stored counter | tick, process a batch, flush, stop | recorder, event repository, shutdown | everything leaves the queue; the flush ends, and leaves nothing behind unless its time is over |
| Event repository (`database/event-repository.ts`) | `events` table | insert | worker, CLI queries | in order, at most once |
| Status writer (`status/writer.ts`) | interval, `lastWriteError`, requests in flight | start, stop, update, final status | API server, all status sources, shutdown | the ConfigMap exists and ends up with the last word |
| Shutdown (`shutdown/handler.ts`) | a guard flag, a 5 s timer | graceful shutdown | all of the above | it ends, and it reports |
| Assessment runs (`assessment/runner.ts`, `scheduled-tick.ts`, CLI `assess run`) | counters of a run, last tick | run, tick | checks, assessment repository | a completed run is whole, and final |
| Assessment summary (`status/assessment-summary.ts`) | none | choose between tick and database | status writer | what is published is stored and not outdated |
| Schema (`database/schema.ts`) | `schema_version`, tables | initialize, migrate | operator boot, every CLI command | who gets through finds the whole schema |
| AI conformance runs (`ai-conformance/`) | last tick; run and result tables | run, tick | checklist, evaluator, status, CLI | a run never says more than its results |
| Collection scheduler (`collection/scheduler.ts`) | tasks with timers | register, start, stop | collectors, cycles | each task runs no more often than its minimum, none after stop |
| Storage and statistics (`collection/storage.ts`, `stats-tracker.ts`) | bounded list and map, counters | store, record success or failure | callbacks of the tasks, status | the newest payloads are kept, counters agree with what was stored |
| Collectors (`collection/collectors/`, `validation.ts`) | none | list, count, validate | API server, storage | a payload adds up, validates, and is of its time |
| Assessment checks (`assessment/checks/`) | none | list, judge | API server, assessment runs | a verdict neither overlooks nor wrongly blames |
| ArgoCD detection (`argocd/detection*.ts`, `state.ts`) | published status and a copy of it | initial check, periodic check, stop | API server, status, collection task | what is published is what the last check found |
| Trivy detection (`trivy/`) | last detection result | periodic check, set status | API server, status, scan cycles | scans are started only while Trivy is detected |
| Trivy scans (`trivy/`) | scan and vulnerability rows | cycle, scan with retries, persist | Trivy CLI, database | what counts as scanned is stored whole |
| ArgoCD applications (`argocd/application-*.ts`) | last batch, previous snapshots | fetch, store, process a batch | Argo CD API, logs | transitions are real, and forwards unless collections overlap |
| Health server (`health/`) | initialized flag, open server | liveness, readiness, stop | kubelet | readiness means initialized and able to write |
| Retention (`database/retention-cleanup.ts`) | an interval | cleanup | events table | (nothing creates it) |
| Configuration, CLI queries, evaluators, metrics, client | — | pure functions, input and output | | |

The hard behaviours: status updates overlap and are not waited for when the process
stops; a run of checks writes row after row without a transaction; readers combine a
process's memory with a database that others write; a watch can end in three ways
that are handled differently; a collection or a check combines lists that the API
server answered at different times; intervals start the next execution while the last
one still waits; a shutdown has five seconds for everything; any of it
can be cut off by a kill and started again. `PROJECT.json` lists each such hazard at
its line with the properties that cover it.

## Modules

| Module | Models | Kind |
|---|---|---|
| `LossyFifo` | what the event pipeline promises | abstract specification |
| `EventPipeline` | watcher, recorder, worker, repository, shutdown | composed component |
| `StatusPublisher` | status writer, shutdown, ConfigMap | composed component |
| `AssessmentRun` | runs of operator and CLI, repository, status summary | composed component |
| `AiConformanceRun` | conformance runs of operator and CLI, repository, readers | composed component |
| `TrivyScanCycle` | image scan cycles, CLI scans, persistence, gauges, detection | composed component |
| `SchemaMigration` | `SchemaManager.initialize` in several processes | component |
| `Collection` | configured intervals, scheduler, executions, storage, statistics, shutdown | composed component |
| `Collectors` | what the three collectors make of the objects they listed, and its validation | operators |
| `AssessmentChecks` | the rules of twelve assessment checks: reliability, performance, cost | operators |
| `ClusterChecks` | the rules of seventeen more: ratios, sustainability, backup, security, the operator itself | operators |
| `ClusterReads` | the requests of collectors and checks against a cluster that changes | composed component over the last three |
| `ArgoCd` | detection and its manager, application collection, drift cycle | composed component |
| `Sums` | the sum of the values of a function, which `getStats` and the collectors report | operator |
| `Sums_proofs` | sums, maxima and arrays of finite sets | lemmas |
| `Storage_proofs` | theorems about `StatusPublisher`, `SchemaMigration` and `TrivyScanCycle` | proofs |
| `EventPipeline_proofs`, `AssessmentRun_proofs`, `AiConformanceRun_proofs`, `Collection_proofs`, `ArgoCd_proofs`, `ClusterReads_proofs` | theorems about the module each is named after | proofs |
| `MC*` | model values for TLC | instances |

In every module a definition whose comment begins with "Mutant" is a plausible bug of
the definition after it. It is part of no specification; it exists to show that the
property named with it in `PROJECT.json` notices that bug.

### EventPipeline and LossyFifo

The state is that of the three classes, the table, the process and history variables:
which events this process recorded, which of them a full queue dropped and which the
table refused (`recorded`, `dropped`, `refused`), how many had arrived when
`gracefulShutdown` began (`calledAt`), and where the sequence numbers stand. `stream` is the watch request: `connecting`, `open`, `failed` (its done
callback got an error), `ended` (it got none) or `none`. An event is a sequence
number, its arrival, and an id; ids are few so that they collide. `batch` is what a
running `processQueue` may still insert; while it is not zero no other callback runs,
but the process can be killed between two inserts.

| Action | Code |
|---|---|
| `StartEventSystem`, `StartupContinues` | the event part of `startOperator`, which waits for `watcher.start()` |
| `WatchConnects`, `WatchConnectFails`, `WatchRejects` | the three outcomes of `watch()`: request open; request failed, where the promise resolves all the same and done is called; rejected |
| `StreamFails`, `StreamEnds`, `ReconnectTimerFires` | the done callback and its 5 s timer |
| `HandleEvent`, `IgnoreEvent` | `handleEvent`, to `recordEvent` or not |
| `WorkerTick`, `ProcessOne` | the 100 ms interval, one iteration of `processQueue`, with the insert that succeeds or not |
| `GracefulShutdown`, `FlushIteration`, `FinishShutdown`, `DeadlinePasses`, `ForceExit` | `gracefulShutdown`; the flush and the shutdown both last 5 s and start together, so one `deadline` stands for both |
| `Kill`, `Restart` | SIGKILL or an early SIGTERM; the container is started again with nothing but the table |

What the books balance against are the queue, the rows and these fates, not the counter
`eventsStoredTotal`: it also counts the events whose insert failed. `RowsAreCounted` asks
of it only that it covers the rows, and would hold as well if it counted nothing else. `CleanExitKeepsEvents` follows
an event from before the shutdown through watch, flush and exit: the watch goes on
delivering meanwhile, and may push it out of the queue. The errors metric and the log are
left out. `LossyFifo` has only a bounded queue and
a sequence of persisted events, and lets an accepted event be persisted in order or
lost; `FifoRefinement` maps the queue (empty once the process has ended) and the
table to it.

### StatusPublisher

A write of the ConfigMap occupies a slot and goes through `read`, then `replace` or
`create`, to `ok` or `error`. The effect of a request on the API server
(`WriteSucceeds`, `WriteConflicts`, `AnswerLost`) is separate from the continuation
that processes the answer (`UpdateSettled`, `FinalSettled`). When the process ends,
writes that had been sent become orphans that can still take effect
(`OrphanSettles`), also after the restart. `cm` holds the kind of the last status
written, `update` or `final`, or is absent. `UpdateStatusThrows` and
`FinalStatusThrows` are failures of the database before the first request: in
`updateStatus` the error is recorded, in `gracefulShutdown` the catch branch exits
with 0. The stop of the worker and of the health server (`WorkerStopped`,
`WriteFinalStatus`) may never happen.

### AssessmentRun

`Begin`, `MarkRunning`, `CheckSettles` (by an answer, an exception or the timer) and
`Finish` are the writes of `AssessmentRunner.run`; `BeginFails`, `StorageThrows`,
`SummariesThrow`, `CliKilled` and `OperatorKilled` are the ways it ends in between. A
run belongs to the operator or to a CLI process. The operator's callbacks exclude
each other (`OperatorFree`): between its first two writes, and from its last check to
the end of the tick, there is no `await`. Of a check only its status is kept; `tally`
holds the counters of `run()`, `history` the stored results. `Publish` is the
assessment part of `updateStatus`: `LoadLatest` reads the row with the greatest
`requested_at` (any of them, when there are several), `Newer` chooses between it and
the snapshot of the last tick.

### AiConformanceRun

`Begin` requests a run and selects its checklist (none: the run fails at once),
`Evaluate` collects the result of the next requirement, `RecordRun` and
`InsertResults` are the two writes; `WriteThrows` leads to the catch branch, which
rewrites the row (`RecordFailure`) or cannot (`FailureUnrecorded`). `requested`,
`total` and `results` are the local variables of `run()`; `row` and `stored` the two
tables. A reader reads the latest row (`ReadRun`) and its results (`ReadResults`), or
nothing (`ReadNothing`): between the two the other processes may write, while the
operator's own callbacks wait. What remains possible, and is no property, is a row
that says `completed` with no results: a kill between the two writes leaves it, and
so does a second write that fails when the rewrite fails too.

### TrivyScanCycle

A cycle is one call of `runWorkloadImageScanCycle` by the scheduler's timer. It
collects (`CollectThrows`, `SkipScans`, `StartScans`) and then scans one image after
the other: `BeginScan` and `NotDetected` are the two outcomes of
`scanContainerImageWhenDetected`; `CliFails`, `TimeoutBacksOff`, `LastTimeout`,
`ReportArrives` those of an attempt, `RetryScan` the end of a back-off; `UpsertScan` and
`ReplaceVulnerabilities` are the two writes of `persistTrivyReportToDatabase`, either of
which can throw (`PersistThrows`); `FinishCycle` refreshes the gauges. From the answer
of the CLI to the start of the next scan there is no `await` that lets another
callback run (`Free`), but a kill can come at any step. `PeriodicCheck` is the
detection manager. The configured server URL never changes, so `detected` stands for
the whole status. `succeeded`, `failed` and `toScan` are the counters of the result as
sets of the images counted; `gauge` is the set of the vulnerability rows counted.
Scan ids are random and a cycle scans an image once, so the pair of both stands for
the id. A completed row without the vulnerabilities of its report can remain;
`BareScansAreAccounted` says when.

### SchemaMigration

Each process executes its scripts one statement at a time; `made` is the set of
tables and indexes. Version 0 stands for the `schema_version` table and version 1 for
the events table, which every call creates again. `RecordConflicts` is the primary
key violation of a process that lost a race. CLI processes come and go; the operator
is restarted.

### Collection

The state is that of `CollectionScheduler` (`interval`, `offsetDue`, `intervalDue`: the
two timers of each task as the times at which they are due), `LocalStorage` (`order`,
`ids`, `storedCount`), `CollectionStatsTracker` (`stats`) and of the executions that have
started. An execution stands for its payload, whose collection id is random. A timer that
is due fires some time later; a delay that Node.js cannot hold becomes one unit (`Delay`).

| Action | Code |
|---|---|
| `LoadConfig` | `loadConfig`, which ends the process for an interval under its minimum |
| `StartScheduler`, `CollectionUnavailable` | the collection part of `startOperator`: register the enabled tasks and `start`, or the catch branch |
| `OffsetFires`, `IntervalFires` | the two timers of a task, each with `executeCollection` up to the first `await` |
| `StorePayload`, `TaskSucceeds`, `TaskFails`, `PayloadInvalid` | the end of a registered callback: payload stored and success counted; success of a task that stores nothing here; failure; a payload that fails its validation, which some `processCollection` rethrow and some hide |
| `Signal`, `StopScheduler`, `WriteFinalStatus`, `Exit` | the shutdown as far as it touches the collections: nothing waits for an execution under way |
| `Tick` | time |

`log`, all payloads ever stored, is a history variable.

### ClusterReads, Collectors, AssessmentChecks and ClusterChecks

One reader, chosen at the start, reads the cluster again and again: one of the three
collectors, which send one list request after the other, or one of twenty-nine checks, which
send theirs together (the VPA check asks for the resource definition first, the check of
hard-coded secrets lists one kind after the other). `Answer`
returns the objects of one kind as they are at that moment; `Change` lets another client
create, replace or delete an object between answers; `RequestFails` ends the read, as the
exception does; the two checks of roles catch it and answer with the verdict "error".
A check that finds nothing to judge is skipped (`Skips`). `FinishMetadata`, `FinishInventory`, `FinishPatterns` and `FinishCheck`
turn the answers into a payload or a verdict with the operators of `Collectors` and
`AssessmentChecks` and `ClusterChecks`, which follow the code function by function: what is counted, what the
defaults are, which workloads and namespaces are exempt, how selectors, node affinity
terms, autoscaler targets, quotas and thresholds are compared. Names, hashes, labels and
quantities are values that can only be compared or added. `throughout` and `ever` are
history: the objects that were there during the whole read, and at some time of it.

The checks are: replica counts, spread and anti-affinity, disruption budgets (reliability);
resource requests, resource limits, probes, HPA, VPA, placement, over-provisioning,
governance of namespaces (performance and cost), and use of spot nodes. `ClusterChecks`
adds requests in proportion to limits, efficiency and consolidation (idle capacity,
sprawl), backup; cluster-admin bindings, wildcards in roles, secrets in the environment
and in ConfigMaps, external secrets, privileged containers, users and capabilities
(security); and the strategy, probes, metrics, logging and audit trail of the operator's
own deployment. Whether a name or a value looks like a secret, which the code decides by
patterns, is a field of the object; a request divided by a limit is compared by
multiplication.

### ArgoCd

A detection check has its stage (`crd`, `namespace`, `deployments`, `answered`) and its
result, and races with a timeout.

| Action | Code |
|---|---|
| `PerformPeriodicCheck` | the interval of `ArgoCDDetectionManager`; the initial check is under way in `Init` |
| `CrdAnswered`, `NamespaceAnswered`, `DeploymentsAnswered`, `DetectionRequestFails` | the three requests of `detectArgoCD`; a failure is a result, not detected |
| `ResultArrives`, `DetectionTimesOut` | `detectArgoCDWithTimeout`; both set the tracker and `currentStatus` when the status changed |
| `StartCollection`, `ArgoCdAnswers`, `FetchFails`, `StoreBatch` | `runArgoCdApplicationStatusCycle`, up to the sink |
| `BodyStalls` | `httpsGetInsecure`, which limits only the silence of the socket: a body that breaks off or trickles leaves the collection `hanging` |
| `DriftCycle` | `runApplicationDriftCycle` after the next `await`: it takes the batch that is the last one by then, compares it with `previous`, reports and prunes |
| `InstallationChanges`, `ApplicationChanges`, `Stop` | the cluster, Argo CD, and the shutdown, which stops neither a check nor a collection under way |

`window`, `last`, `past`, `processed`, `before` and `together` are history: what a check
could have seen and the Applications over time. A late answer of a check that timed out
reaches nobody, so a check that ended is idle.

## Checks

| Run | Shows |
|---|---|
| `EventPipeline_delivery` | with failing watches, colliding ids, failing inserts, drops, a shutdown, kills and a restart: `BooksBalance` (each recorded event waits, is in the table, was refused by it or was dropped and counted so; no row is missing from the counter), `EventsStayInOrder` (in the queue and in the table), `CleanExitKeepsEvents` (a clean exit in time has left nothing from before it in the queue), and the refinement `FifoRefinement`; under fairness `PipelineSettles` (a queued event leaves, a shutdown ends, a rejected watch ends the process) |
| `EventPipeline_reconnect` (violation) | a failed watch is never retried |
| `StatusPublisher_writes` | `QuietExitReportsShutdown`; under fairness `ConfigMapRecovers` (it comes back, a stale shutdown status is replaced, an error is cleared) and `ShutdownEnds` |
| `AssessmentRun_records` | `CompletedRunsHold` (whole and final), `PublishedRunIsStored`, `PublishedNotOlderThanTick`; under fairness `RunsReachTheStatus` (runs settle, ticks are published) |
| `AiConformanceRun_results` | `StoredRunsAreWhole` (results agree with the row, a successful tick is stored), `SummaryIsConsistent`, `RunsMoveForward` (settled runs are final, summaries do not go back); under fairness `RecordedRunIsPublished` |
| `TrivyScanCycle_scans` | two overlapping cycles with time-outs, retries, detection that comes and goes, failing writes, kills and restarts: `StoredScansAreAccounted`, `TallyAddsUp`, `GaugesFollowDatabase` (they catch up, and never lose a finding); under fairness `CyclesEnd` |
| `SchemaMigration_init` | `SchemaIsApplied` (a recorded version is applied, a process that is ready has the whole schema); under fairness `OperatorGetsReady` |
| `Collection_timers` | three tasks with late timers, overlapping executions, a full storage and a shutdown at any moment: `TypeOK`, `StorageKeepsNewest`, `CountsAddUp`, `StartsAreSpaced`, `NothingStartsAfterStop`; under fairness `TasksRunAndSettle` |
| `Collection_spacing` (violation) | an interval that does not fit a timer breaks the minimum interval |
| `ClusterReads_window` | thirty-two readers of a cluster that changes while they read: `TypeOK` (which holds the declared shape of every payload), `PayloadsValidate`, `TotalsAgree`, `CountsAreOfTheirTime`, `PassIsSound`, `BlameIsSound`; under fairness `ReadsEnd` |
| `ClusterReads_versions` (violation) | the metadata of a cluster whose version has a vendor's suffix are never stored |
| `ArgoCd_cycles` | detection with failures and timeouts while Argo CD comes and goes, and overlapping collections: `TypeOK`, `DetectionIsSound`, `PreviousIsOneAnswer`, `TransitionsAreReal`; under fairness `ArgoCdSettles` (the published status catches up with the installation unless checks fail or time out again and again; a collection ends unless its body stalls) |

A property that joins several statements is a conjunction of named parts, each with a
comment of its own. The type invariants of the six modules in the first half of the table
are not among their runs' properties: they are parts of the inductive invariants, and
proved (`TypeCorrect`).

A violation run checks a statement of a comment or document that the code does not
fulfil; `PROJECT.json` quotes it under `findings`. Further divergences follow
directly from the models' definitions and have no run of their own.

Events and status:

- The done callback of a watch that the server ended normally does nothing, and the
  listener still counts as watching (`health/checks.ts:121`): `StreamEnds`.
- The counter of stored events includes those whose insert failed or whose id was taken
  (`events/queue-worker.ts:96`), although `events/metrics.ts:33` says "Total number of events
  successfully written to the database" and `:42` has `db_write_failed` for the others:
  `ProcessOne`. The books keep those events apart, in `refused`.
- An update in flight can replace the final status before a clean exit
  (`status/writer.ts:129`; `lifecycle_shutdown.md` says the final status is left):
  `QuietExitReportsShutdown` asks for no other write in flight for this reason.

Assessments and conformance:

- The latest requested run, running or abandoned, hides completed ones from the status
  (`status/assessment-summary.ts:99`): `LoadLatest`.
- A storage error leaves the row of a run `queued` or `running`, although
  `.ai/business_logic/error_handling.md` says it becomes `failed`: `StorageThrows`.
- A run in which all bad checks timed out is `completed`, although
  `.ai/business_logic/domain_model.md` calls a run with timeouts `partial`: `FinalState`.
- Two processes that initialize together can conflict on `schema_version`
  (`database/schema.ts:339`), although `consistency.md` expects idempotence:
  `RecordConflicts`.

Checks:

- `pod-disruption-budgets.ts:29` takes an empty selector for one that selects nothing, and
  lets `NotIn` fail on a label that is missing; in Kubernetes both select: `Covers`.
- `over-provisioning` takes a missing replica count for 0 where other checks, and
  Kubernetes, take 1: `OverProvisioned`.
- The quantity suffix `k` is ignored by the checks' parsers: quantities are numbers here.

Collection:

- A control-plane label whose value is empty is not taken for on-premise
  (`cluster-metadata.ts:193`): `DetectProvider`.
- `commonLabelKeys` and `volumeMountsPerContainer` (`types.ts:364`, `:394`) are never
  filled, and namespace identifiers are cut to 12 characters, so two namespaces can share
  one; the offset of a task is a hash of its type, not random.
- The insert of the collection repository, and `retrieve`, `listRecent` and `clear` of
  `LocalStorage`, are never called.

Trivy and ArgoCD:

- An attempt after a back-off does not ask whether Trivy is still detected (`RetryScan`),
  although `.ai/integration/external_systems.md` says that scans run only when it is; and
  after a restart the vulnerability gauges are zero until a cycle ends (`Killed`), although
  `trivy/metrics.ts` calls them the current row counts.
- `lastChecked`, in `README.md` the time of the last detection check, changes only with the
  status: `CheckEnds`.
- `ARGOCD_AUTO_DETECT=false` disables detection even with `ARGOCD_ENABLED=true`, which
  `detection.ts:29` says overrides it: `Disabled`.
- `user_stories.md` expects application status in the table `argocd_apps`, which nothing
  in the program writes.
- With `ARGOCD_API_TLS_INSECURE` the request of the Applications has no limit on its whole
  duration, although `timeoutMs` is given to it: a response that is cut off, or trickles,
  never settles (`argocd/api-http.ts:38`): `BodyStalls`.
- An invalid `ARGOCD_API_*` setting throws inside the set-up of the collection system
  (`operator.ts:433`) and so switches off every collection: `CollectionUnavailable`.
- `ARGOCD_DETECTION_INTERVAL` is not validated: 0, a word, or more than 596 hours give a
  timer of one millisecond.

### Bounds

| Constant | Value | Why it is enough |
|---|---|---|
| `MaxQueueSize`, `MaxBatchSize`, `MaxArrivals` (code: 1000, 10, unbounded) | 3, 2, 4 | the queue overflows, a flush needs two batches, and a batch ends in the middle of the queue; the proofs cover all values |
| `EventIds` | 2 for 4 events | ids must collide, before and after a restart |
| `MaxRestarts` | 1 | a second restart starts from the same kind of state: a table and nothing else |
| `Slots` | 2 | an update in flight next to another, next to the final write, or next to one of a dead process; the safety proofs cover any number |
| `Runs`, `MaxChecks`, `MaxTime` | 2, 2, 2 | operator against operator and operator against CLI, with results before and after a failure; times can be equal, earlier and later |
| `Outcomes` | 2 of 6 statuses | `FinalState` distinguishes bad and broken checks; good ones count for neither |
| `Statuses`, `ChecklistSizes`, `Readers` (code: 6 statuses, 5 requirements) | 2, {2}, the status writer | `computeRunState` distinguishes one status from all others; a checklist with one of each is both counted and partial; CLI readers are covered by the proofs |
| `Cycles`, `Images`, `MaxScans`, `MaxAttempts` (code: any, any, 100, 3) | 2, 2, 2, 2 | cycles overlap over the same images; the second image of a cycle meets another detection status, and an attempt that is not the last precedes the last; the proofs cover all values |
| `Vulns`, `Reports` | 2; none or both | findings that are stored in part differ from none and from all |
| `Procs`, `Latest`, `Statements` (code: any, 6, 1 to 10) | 3, 3, 2 | the operator and two CLI processes; a first version, a middle one and the last, each with a kill in the middle of its script |
| `MaxFaults` | 2 | kills and storage errors of a behaviour; without a bound they alone could keep the operator from ever getting ready |
| `Tasks` (code: up to 7) | 3 | one whose callback reports a bad payload, one that hides it, one that stores nothing and can be switched off |
| `MaxCollections`, `MaxRuns`, `MaxTime`, `MaxTimer` (code: 100, any, any, 2^31-1 ms) | 2, 5, 3, 3 | the storage overflows, executions overlap and end in any order, a task runs several times; the proofs cover all values |
| `EnvIntervals` | {1, 3}; {4} in `Collection_spacing` | under the minimum and over it; longer than a timer |
| `MaxName`, `MaxNodes` (code: 50, 10000) | 3, 2 | shorter, as long and longer: three nodes are one too many |
| `MinDeployments`, `ManyCapabilities` (code: 8, 39) | 2, 3 | fewer and as many; the rest of the rule does not depend on the number |
| `Catalog`, `MaxChanges` | 1 to 8 objects for each reader; 2 changes during a read where objects of two kinds depend on each other, else 1 | for each reader the objects its rules tell apart, some of them two versions of one object, so that a rollout falls between two answers |
| `Checks`, `MaxRuns`, `Apps` (ArgoCd) | 1, 2, 1 | two collections overlap and swap; checks that overlap are covered by the proofs |
| `MaxChanges`, `MaxInstalls` (ArgoCd) | 1, 1 | an Application changes, appears or goes between two answers, and Argo CD while a check asks; the proofs cover all values |

The runs of `EventPipeline`, `AssessmentRun`, `AiConformanceRun`, `TrivyScanCycle`,
`Collection` and `ArgoCd` set `CHECK_DEADLOCK FALSE` because the process ends for good, or
because arrivals, restarts, cycles and run ids are bounded and a behaviour may use them up.
No run uses symmetry, because the runs that check safety check liveness as well.

### Fairness

Fairness is stated with each specification (`Fairness`, `SchemaFairness`, `PublisherFairness`). What it assumes: the event
loop fires timers that stay armed and runs continuations whose answer has arrived
(weak fairness); the kubelet acts on a probe that keeps failing and restarts a
container (weak fairness); the API server answers requests and does not refuse the
same kind of request for ever (strong fairness of `ReadAnswered` and `WriteSucceeds`),
and a status tick does not find the database broken every time (strong fairness of
`UpdateStatus`, as `UpdateStatusThrows` can take its place). `TicksArePublished`
rests on `Publish` happening again and again, which in the code is the interval of the
status writer together with a write that succeeds. `RecordedRunIsPublished` needs strong
fairness of the status writer's two reads, which a kill can come between. `CyclesEnd` needs
a CLI process to end or to be killed by its timer, and back-off timers to fire (weak
fairness of `Continue`), not that any scan succeeds. `Collection` assumes that time passes, a due
timer fires and a request of an execution is answered or fails; `ClusterReads` the same of
its requests; `ArgoCd` only that the detection interval and
timeouts fire and continuations run, as neither the API server nor Argo CD has to answer. A
fetch of the Applications is settled by its answer or its `AbortController`, or it stalls
(weak fairness of the three together): without verification of the certificate nothing
limits it, and nothing is assumed of a collection that hangs. `StatusCatchesUp` names the
failing checks that can keep the status from the truth instead of assuming that there are
none. `RunsReachTheStatus` rests on the timer of each check
(weak fairness of `CheckTimesOut`). Nothing is
assumed of the checks of a run, which may never answer, of the closing of the health server, of
`FinishShutdown`, of signals, users and CLI processes.

## Proofs

Every safety property of every passing run, invariant or action property, is proved for
every value of the constants, together with four that no run names (`QueueBounded`,
`NoUpdateStartsAfterFinal`, `RecordedVersionsHaveNoGap`, and the type invariants of the
modules whose runs leave them to the proofs), and so is the refinement `FifoRefinement`.
What is left to TLC is liveness. Each component has an inductive invariant, shown to hold
initially and to be kept by every action; the properties follow from it.

The proofs rest on the assumptions named in the modules, which TLC evaluates on every run:

- Bounds are natural numbers, queue and batch sizes positive, `timeout` is one of the
  outcomes, `not-evaluated` one of the statuses, the operator one of the processes,
  intervals are integers with positive minima, thresholds positive
  (`ThresholdsAssumption`): what the constants of the source are.
- `SwallowedAssumption` (`Collection`): the collectors that do not rethrow a validation
  error never meet one. That is what `PayloadsTheorem` proves of them in `ClusterReads`.
- `CatalogAssumption` (`ClusterReads`): the objects of the cluster have the fields that
  their reader looks at, with values that the API server accepts (`Fits`): counts are not
  negative, lists are lists, an HTTP probe has a port. Nothing is assumed of how many
  objects there are, which names, labels, selectors or quotas they have, or whether they
  refer to each other. The checks of pods, roles and ConfigMaps need nothing of their
  objects; the checks of workloads need a name, a replica count and quantities that are
  numbers or not set, and containers in a list; only the collectors need all fields.

- `EventPipeline_proofs`. `QueueBounded`, the accounting and the orders are not
  inductive by themselves: that a batch never runs on an empty queue is needed before
  `ProcessOne` can take a head (`BatchHasWork`), and that the table, what has left the
  queue, the queue and the arrivals to come follow each other in sequence numbers is
  needed for any order, and for the books: a new number is not in `recorded` yet and the
  head of the queue not in `refused`, so both sets grow by one. `CleanExit` needs that from
  the end of the flush on whatever waits came after `calledAt` (`ExitInv`), unless the
  deadline has passed. `ImplementsLossyFifo` shows each step to be a step of
  `LossyFifo` or to leave its variables alone.
- `Storage_proofs`, on what is written to ConfigMap and database by three components
  that share no state. `StatusPublisher`: `QuietExitReportsShutdown` needs where every
  write is while the final one is under way: if it started alone, all other slots stay
  idle, because the interval is off in phase `final`. `SchemaMigration`: `InStep` says how
  much of the schema exists when a process is at each point; it survives other processes
  because nothing is ever removed. `TrivyScanCycle`: `StoreOK` says what the database holds
  of a scan, given how its cycle counts it; replacing the rows of one scan leaves the
  others' alone (`RowsApart`), so a step of one cycle keeps the others in order
  (`OthersKept`). The first part of `GaugesFollowDatabase` is not inductive: a cycle that
  throws while it collects ends without a refresh, so `GaugeOK` says that the gauges lag
  only while some cycle scans.
- `AssessmentRun_proofs`. `RunOK` ties each run's place, its counters, its row and its
  stored results together; that counting commutes with storing one more result
  (`OccurrencesAppend`) is proved from the library's facts on finite sets. A completed
  row belongs to a run that is no longer active, which is why it is final and why what
  was published stays stored.
- `AiConformanceRun_proofs`. A reader acts on a row it read earlier; `ReadOK` says that
  this row is still there, or that its run failed since and has no results. `ShownOK`
  says that some row is as new as what was shown, so that the latest one is.
- `Collection_proofs`. `StorageKeepsNewest` needs that no payload is stored twice
  (`LogOK`): only then does the list never lose its place for an old id. `StartsAreSpaced`
  is proved under `IntervalsFit`, which the loader does not check (`Collection_spacing`
  shows what happens without); `TimersOK` says that no interval is due before the last
  execution plus the minimum. `StopTheorem` needs only that both timers of every task are
  off after `stop`. `CountsTheorem` rests on two facts: an execution
  that ends joins the set of those counted for its task and no other set (`CountsInv`),
  and the final status is a copy of statistics in which every stored payload was counted as
  a success and a task had a last success just when it had one (`FinalInv`). The sum and
  the latest time over the tasks come from the lemmas of `Sums_proofs`.
- `ArgoCd_proofs`. `DetectionInv` says of a check under way what it has passed and that its
  result names a server it could have seen; `CollectionInv` follows a batch from Argo CD's
  past through the sink to `previous`, for any number of overlapping checks and
  collections, which the run does not have. A batch may be older than the one before it
  only if their collections were under way together, which is the content of
  `TransitionsAreReal`.
- `ClusterReads_proofs`. The properties compare a payload or a verdict with what the
  cluster was while the lists were answered, one after another, so the invariant has to
  say of each answer when it is from: `ReadInv` keeps, for every kind asked so far, the
  answer between the objects that were there all the time (`Answered`) and those that
  were there at some time, with one object for each name (`OnePerName`; without it, two
  versions of one object could be counted twice), and says of a result that all stages
  were answered and that it is what the collector or check makes of `seen` (`ResultOK`).
  `ReadInvariance` shows that `Change` keeps this, as `throughout` only shrinks and `ever`
  only grows. The rest is about the operators: for each check a lemma says what its
  findings, or their absence, mean for objects between the two sets, where some rules are
  monotone (`WellUsed`, `Demand`: a sum over more objects is larger) and some depend on
  objects of another kind that may be missing from the answer. `TotalsTheorem` shows for
  each tally that its classes add up to what is tallied (`ClassesAddUp`).
- `Sums_proofs`. `SumOf` is a recursive function on finite sets. That the recursion has a
  solution and which one (`SumIs`, `SumCountsUnits`: a sum is the cardinality of a set of
  units) is proved without an induction rule, by a minimal counterexample: the set of sizes
  for which the claim fails has a least element, as `<` on the natural numbers is well
  founded (`LeastOf`). The arrays that collectors build by concatenation are treated the
  same way.

Only model-checked: the liveness properties (fairness and `ENABLED` are out of the
prover's reach), namely `PipelineSettles`, `ConfigMapRecovers`, `ShutdownEnds`,
`RunsReachTheStatus`, `RecordedRunIsPublished`, `CyclesEnd`, `OperatorGetsReady`,
`TasksRunAndSettle`, `ReadsEnd` and `ArgoCdSettles`, and the violation runs, which are
counterexamples. `StartsAreSpaced` is proved under `IntervalsFit`, for a reason:
without it, it is false.

## Plan

Done: `EventPipeline` with `LossyFifo`, `StatusPublisher`, `AssessmentRun`,
`SchemaMigration`, `AiConformanceRun`, `TrivyScanCycle`, `Collection`, `ClusterReads` with
`Collectors`, `AssessmentChecks` and `ClusterChecks`, `ArgoCd`, and the proofs of all their
safety properties.

What is left, in this order:

1. The two checks that do not only list objects of the cluster: the GitOps delivery
   signals and the stored vulnerability thresholds.
2. `Startup`: the order in which the parts start, readiness, and early failures.

## Not modelled

Contents of events, scans and conformance results; what an evaluator of a conformance
requirement looks for; the two assessment checks that the plan lists; parsing of
configuration; output formats; metrics beyond the
event counters and vulnerability gauges; readiness, which changes no state;
`RetentionCleanup`, which no code creates; the insert of the
collection repository and the table `argocd_apps`, which no code in the program writes.
`PROJECT.json` gives the status and the
reason for each part.
