# GradLab: a verification project

GradLab trains, evaluates, publishes and plays reinforcement-learning policies. Most of its 110,000 lines of
Python are sequential transformations of documents and tensors. What can go wrong without a test noticing is
elsewhere: supervisors that die and are started again, operator tools that write to the same Run, workers that
answer late, SQLite ledgers that vanish with a task, and object-store requests that are stored although the
caller saw an error. These modules model that part. Source paths below are relative to `src/src/gradlab/`
unless they begin with `src/`.

## 1. Inventory

A *Run* is one training experiment. Each try at it is an *Attempt*: a dstack task with a *supervisor* process
that starts the *learner*, publishes its *Checkpoints* to object storage, has them evaluated by remote workers,
and delivers metrics. Everything durable is an object in one of three buckets (control, evaluation, models); the
supervisor's own SQLite ledger is on the task's disk and dies with it. On the operator's machine a *job queue* in
SQLite carries out slow work (manual evaluation, publication, catalog projection), and a *player* serves
playback to browsers.

| component | state | operations | what is hard | what makes it correct |
|---|---|---|---|---|
| Writer lease (`run_authority.py`) | `lease.json` with holder, generation, expiry; each process's copy and ETag | acquire, renew (one tolerated miss), release | several processes, slow or half-failed requests, expiry | a replaced writer stops in bounded time and never returns |
| Checkpoint evaluation (`run_supervisor.py`, `supervisor_ledger.py`, `evaluation_attempts.py`, `modal_eval_*.py`) | intents, attempts, results and verdicts in R2; dispatch ledger; admission | publish, prepare, dispatch, poll, verify, settle, promote, recover, cancel | at-most-twice dispatch across restarts, late answers, verdict stored but not recorded | no attempt dispatched twice, acceptance closes admission, verdicts final, lowest acceptance promoted, drains end |
| Metric journal and delivery (`metric_store.py`, `metric_journal.py`, `selected_delivery.py`) | `metric_frames`, `metric_segments`; create-only segments in R2; points at the service | append, seal, publish, drain, replay | crash between put and record, replay of several Attempts, service answers lost | nothing sealed is lost, a drain is complete, the journal can be read, no point twice |
| Local job queue (`job_queue.py`, `jobs_cli.py`) | jobs and subjects, worker row, file lock | enqueue, retry, cancel, claim, checkpoint, finish, recover, launch a worker | worker leaving while work arrives, lock probes, worker death | one advancer, no work stranded, no job running without a worker |
| Goal catalog (`goal_catalog.py`, `goal_catalog_projection.py`, `catalog_jobs.py`) | events, pages, generations, pointer, acknowledgements | put event, reconcile (merge, publish, read back, acknowledge) | compare-and-swap on two reads, events before their sources | applied events only grow, every event is projected in the end |
| Public Run index (`run_authority.py`) | `index.json` of a Run | add a Checkpoint, a promotion, telemetry | compare-and-swap on two reads | no row is lost |
| Learner supervision (`run_supervisor.py`, `supervisor_*.py`) | learner process, stop request, acknowledgement, receipts | start, watch, stop, tear down, Attempt and Run receipts | acknowledgement races the deadline; crash between receipts | the process group is gone, one outcome, a receipt for it |
| State archive (`state_archive.py`, `run_authority.py`) | local closure; objects, generations and `latest.json` in R2 | publish, prune, restore | a stalled writer after its last heartbeat | `latest.json` names a generation all of whose objects exist |
| Checkpoint monitoring (`monitor_*.py`, `checkpoint_monitoring.py`) | a row per Checkpoint in R2, worker slots | admit, submit, poll, verify, deliver, expire | lost submit answers, deadline against completion | at most two executions, slots respected, rows end |
| Manual evaluation (`manual_evaluation.py`) | the evaluation documents after training; own ledger | ensure intents, dispatch, settle, project, promote | sequence offset, lease taken per batch | a job that succeeds has its verdicts journaled, published and promoted; jobs end; the journal stays readable |
| Publication of releases (`publication_jobs.py`, `player_publication.py`, `youtube_publication.py`) | `publication_state.json`, YouTube session, repositories | upload, commit, tag, verify, release, audit; resolve and clean up by the operator | remote effects whose answer is lost, an operator who acts meanwhile | each effect once, public only when complete |
| Playback host and server (`play_application.py`, `playback_worker.py`, `play_engine.py`, `play_web.py`) | generation, epoch, runner, loader thread; pipe, command, encoder and viewer queues | load, import, read, stop; request and answer, encode, broadcast | results of a replaced load, timed-out answers, full queues, shutdown | a read is about one session, no runner is left open |
| Playback sessions (`play_capture.py`, `play_trajectory.py`, `play_engine.py`) | a recording's rows, its two files, reservations, pins | capture, write, fail and retry, download a prefix, replace | a writer thread, torn writes, downloads of a growing file | a download is the exact prefix it reserved |
| Early stop and acceptance (`early_stop.py`, `checkpoint_acceptance.py`, `schedules.py`) | windows, patience | observe, decide | boundaries | decisions agree with their definitions |
| Local runs (`local_train.py`, `local_publication.py`, `queued_tracking_sync.py`) | lease, local journal | train, upload, synchronise | as for the lease and the journal | as above |
| Operator commands (`experiment_cli.py`, `dstack_backend.py`) | none of their own | launch, retry, cancel, reconcile | receipts of a dead task | retries only what may be retried |
| Datasets (`dataset_store.py`, `dataset_record.py`) | `current`, `next`, backup and `transaction.json`; pending sessions; file locks | record, salvage, adopt, recover, quarantine, read | deaths between renames, readers during a commit | a recorded episode is never lost, a reader sees a whole commit |
| Autoresearch (`autoresearch.py`) | a campaign record under a file lock | record, reconcile | the Runs it launched go on meanwhile | the record agrees with the Runs |
| Exploration algorithms | cell archives, returns | update, select | boundaries | agree with their definitions |

`PROJECT.json` lists these and the parts that have no protocol state (policy training, environments and rewards,
contracts, assets, dashboards, certification scenarios, web clients), with the reason each is left out.

How they interact: the lease guards every write of a supervisor or tool; the supervisor's loop
(`active_iteration`, then `drain_iteration`) seals metrics, publishes Checkpoints, advances evaluation, monitoring
and delivery in that order, in one thread; the renewal of its lease runs beside it. The evaluation verdict
appends to the journal. Promotion, terminal receipts and verdicts add events to the goal catalog, whose projection
is a job of the local queue, as manual evaluation and publication are. The learner seals its exploration archive,
the supervisor publishes it. The player records episodes on its own; datasets take them from sessions of their own.

## 2. What is modelled

| module | models | extends or composes |
|---|---|---|
| `WriterLease` | the lease of a Run | |
| `WriterLeaseProofs` | its theorems | `WriterLease` |
| `EvaluationRecord` | what evaluation promises (abstract) | |
| `CheckpointEvaluation` | supervisor, ledger, workers and operator during evaluation | implements `EvaluationRecord` |
| `CheckpointEvaluationProofs` | its theorems | `CheckpointEvaluation` |
| `JobQueue` | clients, workers, queue and file lock | |
| `MetricJournal`, `MetricJournalProofs` | ledger, segments, service, recovery; its theorems | |
| `CatalogRecord` | what the goal catalog promises (abstract) | |
| `GoalCatalog`, `GoalCatalogProofs` | events, projections and their publication; its theorems | implements `CatalogRecord` |
| `LearnerSupervision`, `LearnerSupervisionProofs` | supervisor and learner from start to receipts, operator and dstack; its theorems | |
| `CheckpointMonitoring` | the monitoring queue, its executions and their worker processes | |
| `StateArchive` | the exploration archive on disk and in R2 | |
| `PlaybackHost` | commands, loader, imports and reads of the player | |
| `EpisodeRecording` | capture, writer thread, downloads | |
| `ReleasePublication` | a release from the admitted job to the audit, and its operator | |
| `DatasetStore`, `DatasetStoreProofs` | a local collection, its transactions, sessions and readers; its theorems | |
| `ManualEvaluation` | the job that evaluates Checkpoints after training, with the supervisor it follows | |
| `Parts` | the queue, monitoring, archive, playback, recording, release and manual evaluation, without a common step | `JobQueue`, the others by `INSTANCE` |
| `PartsProofs` | their theorems | `Parts` |
| `Components` | eleven components that share no state, one of which moves | `Parts`; catalog, learner, datasets and journal by `INSTANCE` of their proof modules |
| `ComponentsProofs` | the theorems of the components, as properties of the composition | `Components`, `PartsProofs` |
| `MCWriterLease`, `MCCheckpointEvaluation`, `MCMetricJournal`, `MCLearnerSupervision`, `MCCheckpointMonitoring`, `MCManualEvaluation`, `MCComponents` | instances for TLC | the module of the same name |
| `MCProgress` | instances of five components under fairness, side by side | `JobQueue`, and the others by `INSTANCE` |

Definitions carry the name of the function they translate, or of the step in it; the `map` in `PROJECT.json` gives
the lines. Definitions whose name has an underscore, such as `RenewMissed_Uncounted`, are *faulty variants*: the
definition of that name as a plausible mistake would have it. No specification uses them; each shows that a
property notices the mistake.

### WriterLease

`object` is the stored document, `pc` the place of each process in its current call, `seen` and `etag` what the
two reads of `acquire_lease` returned, `lease`, `last` and `misses` the `Lease` and the counters of
`_renew_lease`. Every request is a step. A conditional write succeeds or is refused; a reply may be lost
after the write took effect (`RenewMissed`). An ETag is a digest of the content, so comparing ETags is comparing
documents. A supervisor tolerates one missed renewal, an operator tool none (the renewal threads of
`queued_tracking_sync.py` and `local_publication.py`). `trusted` is history, used only by a property. The code
dates and tests an expiry with the UTC clock of its host (`utc_datetime`) and measures intervals with a monotonic one:
`now` is the time every monotonic clock measures, and `Utc(h, t)` what the clock of `h`'s host shows then, ahead of
the slowest clock by `Ahead[h]`. Clocks differ by a constant; a clock that is set while a process runs is not modelled. A tick is one
renewal interval; requests may take any time, and a renewal that is due starts before the clock moves on, since
the loops poll once a second.

### CheckpointEvaluation

Each object of the buckets is a variable: `published`, `intents`, `deadline` (attempt documents), `result` (the one
`result.json` that all attempts of an evaluation share), `verified`, `promotion`, `cancelAsked`. `row` is the
ledger, `at` the position in the loop: the phase, the rows its query returned and has left, and the step inside
the row, one per request. The learner, the workers, the operator, the passing of a deadline, an exception and the
death of the task come between any two steps. `Restart` starts from the buckets with an empty ledger, as a new
container does, after an interruption or `experiment_cli.py retry`.

Abstracted: call ids and `dispatch-N.json`, which serve only to fetch an error text and to cancel a worker; a
submission without an answer, which is a call nobody answers; results that fail verification, which count as
results of another attempt; the lease (one supervisor at a time); the wording of receipts. `max_attempts` is 2,
the largest value `modal_eval_config.py:49` admits. Recovery of a result without an attempt document and the case
of an exhausted pending row are unreachable: results are only uploaded for prepared attempts, and `TypeOK` says a
pending row always has an attempt left.

### JobQueue

`state`, `due`, `cancel`, `subject` and `created` are the tables; `recorded` the worker row; `lock` the file lock;
`writer` the process inside a SQLite write transaction that outlives one step (the transaction in which a worker
decides to leave). `at` is where a client is in `ensure_flusher`, `pc` where a worker is in `run_flusher`. A probe
of the lock takes and frees it in two steps, as `lock_is_held` does. A handler may report any state for any
subject; a subject that waits or is submitted is "waiting". Processes die at any step; the operating system frees
the lock and SQLite rolls back.

Left out: exclusive subject keys (an enqueue they reject changes nothing), the event log, error texts, log
rotation, heartbeats that only repeat the worker row.

### MetricJournal

`seqOf`, `status`, `next` and `high` are the ledger: the id a row got, its delivery, the next AUTOINCREMENT
number, the highest sealed number. `segments` are the objects of all Attempts, `logged` the points the service has.
An insert that meets an event already there changes no row and still takes a number, as SQLite does under
`ON CONFLICT DO NOTHING`; `spent` remembers that this happened. `pc` follows the supervisor: recover, run, drain, final
drain, or failure drain. A put may be stored although the call raised. W&B refuses a point at a step it has passed,
MLflow keeps every point. `delivery` is fixed in the initial state.

Abstracted: `failed_retryable` is pending; claim, publish and mark are one step; a measurement is an event nobody
recorded before; the content of events, lateness of the service, publication time limits and the expiry of
archived journals are left out. The replay of a segment is one step, in closed form: the n-th row takes the n-th
number.

### GoalCatalog

`put_event` stores an event (`stored`) before its caller stores the document it refers to (`sources`); a process that
dies in between leaves an orphan, which projections pass over. `pc` follows a projection through `reconcile`:
the pointer (`seen`), then its ETag (`tag`), two reads; the events that have a source (`found`); the replacement of
`pointer` under the ETag; the read-back, which fails when somebody has replaced the pointer since; the
acknowledgements (`acked`). `at` is the writer of each event: it waits two seconds for a projection in a thread,
which goes on when it has stopped waiting, and then queues a job (`job`), whose failure is swallowed. The catalog
is modelled as the set of events it includes: pages and generations are written before the pointer under names of
their own. `CatalogRecord` has that set and the acknowledged events, which are always among those shown.

### LearnerSupervision

`kind` says whether the Run requires Acceptance and whether its backend acknowledges stops; `attempt`, `mode`,
`cancel`, `closed`, `final`, `promoted`, `receipt` and `canonical` are the documents in R2: the receipt of the Attempt
and that of the Run among them. `sup` is the supervisor's place from the start of the learner over the stop request
and the drain to the receipts; after that of the Attempt it announces it to W&B (`Announce`) before it is over or writes
that of the Run. `asked`, `failure`, `lost` and `canceled` are what it knows. `learner` is the process:
starting, training, stopping at the next boundary, finishing, ended well or badly; `hung` one that does not
react; `marker` its acknowledgement file. A stop is SIGUSR1, which a learner that has not yet installed or has
already restored its handler does not survive. A deadline may pass whenever the code compares one with the clock
(`AckDeadline` and the others of its kind). The operator cancels and retries, dstack restarts an interrupted task,
at any time, also one whose receipt is written: `_run` does not look for a receipt before it starts a learner. Left out: early stop by a metric, which is one more reason for the same request, and what the drain
delivers, which the two modules above have.

### CheckpointMonitoring

`state` is the row of each Checkpoint in R2, `rows` the copy the supervisor read before its loop and works on,
`turn` whom it is at; a write may fail (`SaveFails`) after the copy was changed, and what fails after a result was collected
puts the row back, as `_advance` does (`Collect`). A row is evaluated by up to two executions (the retry uses a directory of its own), each with a main and
a helper process: `proc`, what each is `doing`, `claimed` (the episode numbers taken from `next.json`), `local`
(committed on disk), `committed` and `published` (stored). `Advance` is one turn of `_advance_row`, with the answer
of `SameHostEvalBackend.poll`; `phase` is the row's life from active to final, canceled or expired. Workers may
die or be restarted with their supervisor at any step. Left out: calibration, memory and spool budgets, the
measurement itself.

### StateArchive

`local`, `view` and `closure` are the learner's captures, the index it keeps, and the sealed closures; `learner` its
place (capture, retention, sealing). `objects`, `generations` and `latest` are R2; `pc` and `stage` the supervisor in
`publish`: staging under the file lock, objects, generation, `latest.json`, pruning (`prior`, `doomed`). `owner` is
the Attempt. A writer that was fenced may have one request left in flight (`late`), which arrives after the next
owner has started; if that is a request on `latest.json` itself, `overrun` says so, and the property makes no claim
(section 5).

### PlaybackHost

`generation` and `epoch` are the two counters that tell old work from new, `active` the runner the session shows,
`open` the runners that are open. The loader thread (`loader`) builds a runner and asks, under the lock, whether its
generation is still current; imports (`importer`) and diagnostic reads (`reader`) take the counters, leave
the lock, and compare when they return. Failures of a build, stop and further commands come at any step.

### EpisodeRecording

`engine` is the place of the step loop: check for a capture error, decide, append. `rows` are in memory, up to
`Buffer` of them wait for the writer thread (`writer`), which writes the packed row to the data file (`bin`), then its
index entry (`idx`), then counts it (`written`). A write may raise after some bytes (`torn`); a retry truncates both
files to what is counted. A download reserves a number of steps, links both files, copies exactly the bytes of the
prefix and adds the steps that are still in memory. A read pins the recording; closing, replacement and removal
respect pins. The engine keeps two recordings with the same code, one for downloads and one for diagnostic reads: the
model has one, with both. The limit on bytes is left out.

### ReleasePublication

`job` and `cancel` are the queue's row, `saved` is `publication_state.json`, `mem` the handler's copy of it, `snapshot`
what the handler was started with. `pc` is the handler's place, one request per step; `head` the parent commit it
read. `main` is the repository as the list of its commits; those of others alter a release file, only add a file, or rewrite
the release consistently. YouTube is `started`, `sent`, `expired`, `processed`, `final`; the hub is `parent`, `main`, `tag`, `places`. Every
request may succeed, fail, or succeed with its answer lost; the handler may die at any step and the queue starts
it again from `saved`. `op` is the operator, who reads the state and writes it back in two steps (`resolve`), or
cleans up, while a handler may run.

### DatasetStore

`current`, `next` and `backup` are the trees of a collection, `phase` is `transaction.json`, `quarantine` the trees set
aside. `exclusive` and `shared` are its lock. A recorder salvages the sessions it finds, takes the exclusive lock,
recovers what a dead process left, records into a session of its own (`session`, `episode`, `manifest`, `holder`)
and adopts it in a transaction. Every rename, removal and marker is a step; a process dies or raises between any
two, and an exception during a commit quarantines everything. Left out: loss of power (the order of `fsync`), the
commands `adopt` and `combine`, which run the same transaction, live upload, media formats; a session has one
episode, the removal of the old backup is one step.

### ManualEvaluation

`job` and `cancel` are the queue's rows; the claim, the end and the recovery of a job are those of `JobQueue`, here with
one worker. The documents are those of `CheckpointEvaluation`: `deadline`, `dispatched`, `result`, `verified`, `promotion`;
`call` is what became of a Modal call. `doing` is the job that is advanced, `step` its place in `advance_batch`, `todo` the
Checkpoints it has yet to look at, `seen` what it knows: from its start the terminal receipt of training, the cancel
request, the offset of the sequences, and whether its own lease still runs. `frame`, `next` and `high` are the ledger under `work/<job_id>`, which outlives
the advance; `journal` is what all jobs sealed, counted from the end of the journal of training; `projection` are the
create-only documents that say a result was delivered. `training` is the latest Attempt of the Run, `lease` who holds
the Run's live lease: a supervisor starts when it can have it, accepts and promotes Checkpoints of its own, may lose it and be
started again, and ends; nobody gives the lease up, it runs out. When it has, the operator may start another Attempt
(`RetryTraining`, then `PutManifest`: half a minute later, until which the former receipt is the latest). An advance asks for the
lease when it begins and before each projection, and in between, while its minute may pass, it does not. Any request of the handler may raise,
calls may be accepted although the submission failed, the worker may die at any step, the operator cancels and
retries jobs and training: `MaxUpsets` bounds these together.

Abstracted: a Checkpoint has one metric event, its result one verdict; the service is online, takes all pending events
or fails, and shows what it took; the lease is taken in one step (`WriterLease` has the two reads); the events of training
itself are below the offset; an Attempt whose receipt calls it interrupted or resumable is one without a receipt. Left out: the planning of a batch, intents and request documents
(written once, before anything else, and read only by the job that wrote them), the goal-catalog event and the public
index that a promotion updates, manifests without a tracking section.

### Parts, Components and MCProgress

These components share no variables, so one run can check several: `part` is fixed in the initial state and only
that component moves. In `Components` the variables of the others are 0, except those of the queue and the catalog,
whose properties are stated of every state. Its constants are parameters, which `MCComponents` gives values. `Parts`
holds the instances whose proofs are in `PartsProofs`; the four other components are instances of their proof
modules, so that a theorem such as `Catalog!FactsStayOwned` can be cited of the instance. `MCProgress` composes five
components the same way, with smaller constants and the fairness of each.

## 3. The runs

Each run has a cfg of its own. Deadlock checking is off because each system stops: processes end, bounds are reached.

| run | instance | checks | shows |
|---|---|---|---|
| `lease` | 2 supervisors, 1 tool whose host's clock is a tick ahead, time to 5, lease of 3 ticks | `TypeOK`, `StaleWriterFencedInTime`, `LiveLeaseReplacedOnlyAcrossReads`, `StaleWriterCannotReturn`, `ReleaseFreesOwnLease` | with slow, failed and half-failed requests a replaced writer passes no heartbeat after two intervals and never comes back |
| `lease_race` | the same, all clocks equal | `ExclusiveWriter` (violated) | the two reads of `acquire_lease` let two writers go on |
| `eval` | 2 Checkpoints, cancel, fault, retry (`UpsetsAreFew`) | `TypeOK`, `AttemptsAreSequential`, `OnlyStragglersCost`, `AcceptanceClosesAdmission`, `SubmittedMayFinish`, `ImplementsRecord` | the acceptance of one meets every stage of the other; a verdict reached in time is lost to a late answer of an earlier attempt only; the abstract record is implemented |
| `eval_late` | 1 Checkpoint, no faults | `FinishedEvaluationCounts` (violated) | a late first attempt takes the object the second one needs |
| `journal_gap` | 1 metric, 1 result, 1 restart | `CompleteJournalIsReadable` (violated) | recovery spends a number on a metric the journal already holds |
| `journal_dropped` | 2 metrics, W&B, 1 restart | `NoPointIsDropped` (violated) | a published, unsealed sequence is used again and W&B drops the new point |
| `components` | eleven components, one at a time (below) | queue: `TypeOK`, `OneAdvancer`, `NoStaleRunning`, `LeavesNoWork`, `EndedJobsAreSettled`; the others: `PartsTypeOK`, `CatalogOnlyGrows`, `FactsHaveAnOwner`, `VerdictAfterLearner`, `WorkersAreBounded`, `VerdictsAreDurable`, `LatestIsRestorable`, `ReadsSeeOneSession`, `NoRunnerIsLeft`, `PublishedOnce`, `PublicIsComplete`, `EpisodesAreKept`, `ReadersSeeCommits`, `DownloadsAreExact`, `NothingSealedIsLost`, `DrainIsComplete`, `ReadableUnlessNumbersAreSpent`, `SuccessIsBacked`, `ProjectionAwaitsTraining` | each component is safe under its faults at any step |
| `progress` | queue, learner supervision, monitoring, manual evaluation, checkpoint evaluation, journal, one at a time | `WorkIsServed`, `WorkersLeave`, `StopIsAnswered`, `MonitoringSettles`, `JobsAndDrainsEnd` | work is done, workers leave, a stop is answered, monitoring, supervision, the jobs of operators and the drains end |
| `monitoring_stranded` | 1 Checkpoint, 2 episodes, 2 faults | `UnfinishedWorkIsRetried` (violated) | after a lost write of "running" and the death of the worker nobody evaluates the episode it had claimed, and its execution waits for the deadline of the Run |
| `success_recorded` | a Run that requires Acceptance, 2 Attempts, 1 fault | `SuccessIsRecorded` (violated) | after a death between the two terminal receipts neither restart nor retry writes the second |
| `manual_gap` | 1 job for 2 Checkpoints, no faults | `JournalStaysReadable` (violated) | two results of a batch projected by two advances leave a gap in the journal of the Run |
| `manual_early` | 1 job for 2 Checkpoints, 1 cancel | `PromotionIsLowest` (violated) | a job that is canceled during training promotes, and the Run's success can no longer be recorded |

The eight violations are findings, listed in `PROJECT.json` with the line of a doc or a comment the code departs from.

What the properties of `components` and `progress` say, by component:

- *Goal catalog.* `CatalogOnlyGrows`: `GoalCatalog` implements `CatalogRecord`, so no projection publishes an older
  set over a newer one and an acknowledged event is shown. `FactsHaveAnOwner`: an event that has its source
  and is not in the catalog is in the hands of a writer, a projection or a queued job, unless queueing failed.
- *Learner supervision.* `VerdictAfterLearner`: the Attempt is given no receipt but a failure while its learner
  lives. (A learner may live later, see section 5.)
  `StopIsAnswered`: a learner that was asked to stop acknowledges or is gone, even one that hangs.
- *Monitoring.* `WorkersAreBounded`: processes stay within the CPUs, and no Checkpoint is evaluated by two executions
  at a time. `VerdictsAreDurable`: a verified row has its result and all episodes in R2, whatever died.
  `MonitoringSettles`: every published Checkpoint's row ends without any deadline, unless its execution is `Stranded` for good (finding
  `monitoring_stranded`).
- *State archive.* `LatestIsRestorable`: the generation `latest.json` names exists, with all its objects.
- *Playback.* `ReadsSeeOneSession`: an answered read is about the session it was asked of. `NoRunnerIsLeft`: when
  nothing is loading, no runner is open but the one shown, unless one failed to start. `DownloadsAreExact`: a finished download is the prefix
  it reserved, whatever failed, was retried or removed meanwhile.
- *Publication.* `PublishedOnce`: one video and one commit per request, across lost answers and retries.
  `PublicIsComplete`: no commit before the video is processed, no public video before a valid release is tagged and
  listed, no success without a public video and exactly the release's files at the tag.
- *Datasets.* `EpisodesAreKept`: a recorded episode is in the collection, in a recoverable transaction, in its
  session or in the quarantine. `ReadersSeeCommits`: an open collection is whole and current and has what was
  reported as committed.
- *Manual evaluation.* `SuccessIsBacked`: when a job is shown as succeeded, each of its Checkpoints has a verdict, the
  journal and the service have its event, and a Checkpoint at or below the lowest accepted one is promoted.
  `ProjectionAwaitsTraining`: before an Attempt of training has its receipt, no job writes to the journal or the service, nor marks
  a result as projected; beside a later Attempt that holds the lease only an advance does whose own lease ran out after it began. `PromotionIsLowest` says of promotions what the supervisor asserts at the end, and is violated.
  `JobsAndDrainsEnd`: a job that waits or runs ends, whatever its calls and its worker do, once training has ended.
- *Checkpoint evaluation.* `JobsAndDrainsEnd`: the supervisor ends, whatever its workers do (`SupervisionEnds`).
- *Metric journal.* `NothingSealedIsLost`: after recovery the ledger holds every event ever sealed. `DrainIsComplete`: a
  drain that is reported complete left nothing unsealed or unpublished. `ReadableUnlessNumbersAreSpent`: the journal
  can be read, until recovery spends a sequence. `JobsAndDrainsEnd`: drains end, with a complete drain or an exception.

### Bounds, and why they suffice

- *Lease.* Three processes are one more than a conflict needs, and one of each tolerance. Five ticks cover a
  takeover, both tolerated intervals and a later takeover. Two supervisors are symmetric; no liveness is checked.
  The theorems below need no bound.
- *Evaluation.* The evaluations of a Run share the admission flag, the promotion, the learner and the loop: two
  Checkpoints, one earlier and one later, meet all of these. Two attempts are the code's limit. One fault
  reaches a crash or a failed call at each stage, and a cancel may come at any step. `UpsetsAreFew` bounds `eval`: while
  only the first Checkpoint exists a cancel, a fault and a retry may all come; beside the second one, a cancel or a
  fault (a cancel and a fault have 1.7 million states, a fault and a retry 0.9 million: each was checked once).
  `progress` has one Checkpoint, either verdict, one fault and one retry of an Attempt that ended; with a cancel too it
  takes nearly five minutes and was checked once. Rejections beside a second Checkpoint are covered by the theorems only.
- *Journal.* Two metrics and batches of two let a batch be full, partial or empty; one idle metric per life
  comes during a drain. One restart shows recovery; the second points that need two were checked once. In
  `components` one metric, one result and all three deliveries, with a restart and a fault; in `progress` one
  metric, one result and the idle metrics of two lives leave batches below the limit (MLflow).
- *Queue.* In `components` one job, one subject, two clients, two workers, two calls, one fault: two workers, since
  a third meets the same lock, and two calls queue a job and cancel or retry it. The order among jobs matters
  only to liveness: `progress` has two jobs and one client.
- *Catalog.* Two events, whose writers' two projections race with each other and with one worker's; one try of
  the job, one fault.
- *Learner.* All four kinds of Run, two Attempts, two faults: one that ends an Attempt and one during the next.
  `progress` has the kind with every stage, one Attempt and one fault.
- *Monitoring.* Two Checkpoints for one place, two episodes for two processes, two CPUs, one fault: less than a retry
  needs never occurs. `progress` has one Checkpoint and two faults, which a stranded execution needs (three were checked once): rows
  wait for one another only for the place.
- *Archive.* One entry, two closures and two Attempts: a generation to restore, one to prune, one to be late with.
- *Playback.* One import, one read and three runners, so that a command replaces a load that replaces a session.
- *Publication.* Two chunks (an upload can stop in the middle), two calls of the operator, two faults: a lost answer
  and a death before its repair.
- *Datasets.* Two recorders (one salvages the other's session) and a reader, two faults: a death in a transaction
  and another in its recovery. Three recorders, where a third salvages while two commit, have 0.8 million states and
  were checked once.
- *Recording.* One download, one read, a buffer of two and two steps, one fault; three steps with two faults were
  checked once (0.5 million states).
- *Manual evaluation.* In `components` one job for two Checkpoints (a promotion that is not the first one's), one
  accepted attempt each, one upset; with two upsets it has 1.2 million states and was checked once. `progress` has one Checkpoint, one attempt and one upset; two attempts with either verdict were checked once. Two jobs meet only in the offset and the
  promotion, where training stands for the other one.
- Symmetry is used in `lease` and `components`, which check safety only.
- Every safety property of these runs is also a theorem (section 4), which needs none of these bounds.

### Fairness, and why the code justifies it

- `CheckpointEvaluation!FairSpec`: weak fairness of the supervisor's steps (its loop never waits for a worker),
  of the end of the learner (a step budget), of the restart of a task that died (dstack), and of each deadline
  (time passes). Workers owe nothing.
- `JobQueue!FairSpec`: weak fairness of each process's steps and of the passing of a delay; strong fairness of the
  end of a job, since a handler that waits again and again is finite: evaluations expire after two attempts.
- `MetricJournal!FairSpec`: weak fairness of the drain steps of the loop. Exceptions are bounded; nothing
  is assumed of the learner or of a restart.
- `LearnerSupervision!FairSpec`: weak fairness of the supervisor, of a learner that does not hang, and of the
  kernel that ends a killed one; strong fairness of the acknowledgement deadline of a learner that hangs: the
  loop compares it with the clock again and again, and the clock passes it. `RetriedSpec`, used for the finding
  only, adds that dstack restarts an interrupted task and that the operator retries.
- `ManualEvaluation!FairSpec`: weak fairness of the worker's advance (its own loop, with a bounded wait between
  two), of the start of a supervisor whose lease is free (dstack), of the end of training, of the second half of a retry, of the expiry of leases
  nobody renews, and of each deadline. Modal calls owe nothing.
- `CheckpointMonitoring!FairSpec`: weak fairness of the turn of each row, of the verification of a finished
  execution, and of each worker process. Deadlines are not assumed: what only the deadline of the Run ends is `Stranded`.

## 4. What is proved

The theorems hold for every value of the constants that satisfies the named assumptions of the modules. They
assume nothing else: the bounds on faults, calls, restarts and clocks are arbitrary numbers, the sets of processes,
jobs, Checkpoints and events arbitrary sets (finite only where an assumption says so). Every safety property that a
passing run checks, invariant, action property or refinement, is stated by one of them. The argument is the same
throughout: an inductive invariant `IInv`, which holds initially, which every step keeps, and which implies the property. TLC
checked each `IInv` on small instances before it was proved. What follows says, for each component, what must be
known beside the property to make it inductive.

**`WriterLeaseProofs`**, from `LeaseAssumption` (disjoint sets of processes, `0 < RenewEvery < Ttl`, two misses, any constant `Ahead`) and
`NoLeaseAssumption`. The inductive invariant is `TypeOK` with

- `OwnDocument`: the lease a process has names that process, so no renewal writes another's document;
- `PastReadings`: clock readings lie in the past;
- `TestedBeforePut`: who is about to take the lease saw an expired or own one;
- `StaleWindow`: for a replaced process, where its last renewal and its current request may lie in relation to the
  time it was replaced, by number of misses. `StaleWriterFencedInTime` alone is not inductive: it says nothing of
  a renewal that is in flight when the lease is replaced.

`LeaseTypeCorrect` and `StaleWriterIsFenced` are invariants; `LiveLeaseIsRespected`, `StaleWriterStaysOut` and
`ReleaseIsOwn` are action properties that follow from `IInv` step by step. `ExclusiveWriter` is false, and the
theorem about the window bounds for how long. `OneReadIsExclusive` says when it holds: where the clocks of the hosts
agree (`ClocksAgree`) and the two reads of `acquire_lease` return the same document (`SameDocument`). So slow, failed and
half-failed requests and the tolerance of two missed renewals do not break the exclusion by themselves. Both
hypotheses are needed. The race is the run `lease_race`. A host whose clock is ahead takes a lease that has expired by its
own clock and not by its holder's, with both reads returning one document; the proof uses `ClocksAgree` in that
step and in no other. The other five theorems hold for any `Ahead`: `LiveLeaseReplacedOnlyAcrossReads` speaks
of the clock of the process that takes the lease, and the window of `StaleWriterFencedInTime` is measured by monotonic clocks.
Its invariant `InForce` says who may still rely on the lease that is in force.

**`CheckpointEvaluationProofs`**, from `EvaluationAssumption` and `NoneAssumption` (Checkpoints are numbers; the two attempts
are those of the model). The invariant relates the accounts of one evaluation that a crash may separate:

- `Documents`: an attempt is prepared before it is called and after the deadline of the one before it;
- `Recorded`: the row of the ledger says what the documents say, wherever the ledger is `Rebuilt`: not while recovery
  has yet to reach the row, nor in the failure drain, where an exception may have come between the two;
- `Placed` and `Queued`: what the loop's phase and step imply for the row in hand and for the rows the phase has left;
- `Admission`: an acceptance that is recorded has closed admission; `Promoted`: at a promotion nothing is open.

Theorems: `EvaluationTypeCorrect`, `DispatchIsSequential` (`AttemptsAreSequential`), `AcceptanceStopsDispatch`
(`AcceptanceClosesAdmission`), `DispatchedMayFinish` (`SubmittedMayFinish`) and `EvaluationImplementsRecord`: every step of
the supervisor is a step or a stutter of `EvaluationRecord`. The proof also shows what the code guards against in vain:
when `prepare_attempt` runs, the attempt document is never there already, since the ledger has been rebuilt by then.
`LossNeedsAStraggler` (`OnlyStragglersCost`) is the other half of the finding `eval_late`: an answer in time is never lost
but to a late answer of an earlier attempt. Its invariant `Missed` says that an attempt that answered in time, and whose
result is not the one stored, met a straggler. The failure drain is left out of the property: an exception between
the call of a worker and its record in the ledger lets that drain write "expired" while the second attempt is under way.

**`MetricJournalProofs`**, from `JournalAssumption`. The invariant has a part that always holds and a part that holds
until recovery spends a number for nothing.

- Always (`Safe`): `Sealing` (rows up to the high-water mark, or up to a segment that was put and is not recorded yet,
  are in segments of this Attempt), `Marked` (a delivered row was delivered the way the Run's service takes it),
  `VerdictsRecorded` (results that were verified are in the ledger or in hand), `SealedIsHeld` (what recovery has
  replayed is in the ledger). They give `SealedEventsSurvive` (`NothingSealedIsLost`) and `DrainsAreComplete` (`DrainIsComplete`).
- While nothing was spent (`Gapless`): the rows are numbered without a gap, segments are intervals in which an event
  has one number and a number one event, and a replay gives each event the number it had. They give `JournalStaysReadable`
  (`ReadableUnlessNumbersAreSpent`); the finding `journal_gap` is the step that spends.

`SealedFirstLosesNothing` is about a supervisor that would seal every event before it publishes it (`SealedFirst`): no event
has a second point and W&B drops none, until a number is spent. The finding `journal_dropped`, and the second points that two restarts lead to (section 5), come
from the order in which the loop publishes and seals, not from the services or the deaths. Its invariant `Arrived` says
what W&B shows up to its last point.

The replay of a segment is in closed form in the model; that the loop computes it is not proved.

**`GoalCatalogProofs`**, from `CatalogAssumption`. `Projecting` is the heart of it: while the tag a projection has read is
current, the events it listed include all that the catalog shows, because it lists after it reads the tag. `Recording`
and `Owned` follow a fact through its documents, its writer's projection and its job. `CatalogTypeCorrect`,
`FactsStayOwned`, and `CatalogImplementsRecord`: the refinement of `CatalogRecord`.

**`LearnerSupervisionProofs`**, from `SupervisionAssumption`. `Placed` says what has become of the learner at each place of
the supervisor; `AcceptedIsFinal` that an Attempt which succeeded in a Run that requires Acceptance has its final model
published and its admission closed, so that its task, when it dies after the receipt and is started again, starts no
learner. `VerdictsFollowLearner` (`VerdictAfterLearner`) is about the step that records a verdict, `AcceptedAttemptsLearnNoMore`
about what follows such a success, and `RunSuccessIsWhole` says that a Run that has its terminal receipt succeeded, with the final Checkpoint published and the accepted one promoted. This holds
although the receipt may be missing for ever (finding `success_recorded`). Two theorems measure that finding: `OnlyAFaultStrands`,
a success that is recorded for the Attempt only, with nobody about to record it for the Run (`Stranded`), needs a fault;
and `StrandedForGood`, no restart, retry or cancel repairs it.

**`DatasetStoreProofs`**, from `StoreAssumption`. `Locked`: the exclusive lock admits one process and no reader.
`Consistent`: what each layout of the three directories holds in each phase of the transaction; no tree has an episode
the new one lacks, and not all of them are gone. `Placed`, `Working`, `AdoptedIsStored`, `AdoptedIsShown`, `Viewing` follow
an episode from its session to a reader. `EpisodesSurvive` (`EpisodesAreKept`) and `ReadersAreUpToDate` (`ReadersSeeCommits`).

**`PartsProofs`** has the queue and the components that `Parts` instantiates, each from its own assumption.

- *JobQueue*, from `QueueAssumption` and `NobodyAssumption` (clients and workers are different processes): `LockIsHeld` (a
  worker between start and exit, or a client that probes, holds the lock, therefore there is one at most), `WriterLeaves`
  (the open write transaction belongs to a worker that leaves), `AdvancesRunning` (what a worker advances is running,
  whatever cancel or retry came between). `NoStaleRunning`, `LeavesNoWork` and `EndedJobsAreSettled` keep each other: that
  the queue a worker leaves stays empty needs the transaction, that nothing runs unattended needs recovery before any claim.
- *Archive* (`ArchiveIsRestorable`): a view refers to its own closure wherever the closure is, and at each step of a
  publication the objects the next step relies on are there, unless a late request has overrun the store.
- *Playback* (`SessionsAreKept`): an epoch is spent on one runner, `PlaybackSpent` counting runners that are still being
  built, so that the pair a read has taken is still the pair that was shown; every open runner has an owner.
- *Recording* (`RecordingIsExact`): the writer's records can be found (`RecordingStored`), a transfer has taken a prefix of
  them or, once the files are linked, of the copy (`RecordingTaken`), and the number of pins is the number of transfers
  at work (`RecordingKept`), so that nothing is removed under one.
- *Monitoring* (`MonitoringIsSafe`): the supervisor's rows are those of the store (`MonitoringCopies`), a running process is of
  the execution the store knows (`MonitoringAlone`), and the processes leave room for the one that is being submitted
  (`MonitoringFits`), counted with the theorems on finite sets.
- *Release* (`ReleaseIsSafe`): every copy of the state, the handler's, the saved one, the operator's, is sound: its phase
  claims nothing of YouTube and the hub that is not so (`ReleaseCopies`); all copies have the same upload session
  (`ReleaseLinked`); bytes are sent in that one only (`ReleaseUploading`); a session nobody has cost a fault
  (`ReleaseStarted`); the commit goes on a history without one (`ReleaseHistory`). From the check of the tag on a phase claims that the release
  is valid, and only from the audit on that its files are all there is.
- *Manual evaluation* (`SuccessIsHonest`): what lies below the high-water mark of the job's ledger is in the journal
  (`ManualCounted`), a verdict that was reported is verified and was projected (`ManualBacked`), and the candidate is not
  above any accepted Checkpoint and is what was promoted by the time of the receipt (`ManualChosen`). `ProjectionIsLate`: an advance
  that projects has itself read the receipt of training (`ManualLeased`), and training can have taken the lease from it only
  after it ran out (`ManualLeases`, `ManualWaits`). Of promotions the same
  is false (`manual_early`).

**`ComponentsProofs`** proves of the composition what `components` checks. For each component, `part = "x" /\ PartsSpec`
implies its own specification (a step of another part does not exist, and the chosen part stays chosen), so the
theorem of the component applies. `CatalogGrows` needs no such case: the catalog does what its record says in every
part. `PartsTypeCorrect` gathers the types of all ten.

## 5. What is only model-checked, and what is not modelled

Only model-checked: liveness (`JobsAndDrainsEnd`, `WorkIsServed`, `WorkersLeave`, `StopIsAnswered`,
`MonitoringSettles`), since fairness and `ENABLED` are beyond the proof system.
Facts that need induction over data (what
the replay of a list of segments yields, row by row) are modelled in closed form, as said above. None of the modules
declares a RECURSIVE operator.

Behaviour seen in the code that no property here states, for the reader of the source:

*Queue and operator*
- `request_cancel` (`job_queue.py:773`) keeps accepted, rejected and failed subjects but overwrites `succeeded` and
  `expired` ones, and ends a job in `retry_wait` without calling its handler.
- A client's probe of the lock can be taken for a worker by another client (`job_queue.py:916`), which then reports a
  running worker where there is none; `docs/specs/queued-execution.md:8` wants evidence. `LeavesNoWork` is not
  affected: the first client goes on to start one.

*Lease*
- `acquire_lease` compares an expiry that another host wrote with the clock of its own host (`run_authority.py:769`). A
  process whose clock is ahead takes a lease that its holder, slow to renew, still trusts; with both reads of
  one document and a clock one tick ahead TLC finds two writers (checked once). No bound on the difference
  of clocks is stated or tested in the code, so no margin is kept for it.

*Manual evaluation*
- An advance asks for its lease before a projection and not within it (`manual_evaluation.py:554`). When the minute passes meanwhile, and
  the operator has retried training (`experiment_cli.py` 1401-1418 admits it after a cancel and most failures), it goes on
  projecting beside the new supervisor, with the offset of the former receipt; `operations.md:115` says "While training
  owns the lease, defer service projection". This is the exception in `ProjectionAwaitsTraining`.
- A promotion during training (finding `manual_early`) needs no cancel either: when all Checkpoints of a batch expired, the
  job promotes what training, or another job, has accepted so far (`manual_evaluation.py:1258`). Both put the receipt
  of the job without the lease.
- `_promotion_candidate` takes the minimum of tuples that end in an `EvalResult`, which has no order
  (`manual_evaluation.py:1035`): a Checkpoint accepted both in training and by hand makes the job fail. Here `Twice`.
- A job that is canceled and retried after its receipt was put fails with a conflict of receipts (1133), as its state
  is part of the receipt; a late result of the first attempt fails the job as soon as the second one is prepared (885).
- Two jobs of a Run that are advanced in turn may use the same sequences: each adds the offset it read to ids of its own.

*Journal and catalog*
- A second restart replays segments that overlap, as all rows are sealed again after the first (`run_supervisor.py:1057`). The
  repeated rows take numbers, later events move to new sequences and are published to W&B again; `METRICS.md:691` excludes "a second
  scientific point". `NoSecondPoint` says so, and TLC finds it violated with two metrics and two restarts (checked once).
- `mark_pending_frames_local_only` says it runs after the frames have entered the journal; only its callers see
  to that. `seal_metric_segment` is not guarded by the lease: what a superseded writer seals late, a reader of the
  journal meets as a conflict.
- The public index is read, with its ETag, in two requests (`run_authority.py:1331`), as the lease is. The row of a later
  Attempt replaces that of an earlier one, promotion included (`goal_catalog.py:548`).

*Learner supervision*
- The supervisor goes on after the receipt of its Attempt: it announces it, within the time limit of W&B
  (`run_supervisor.py` 2932-2957). A task that dies there is started again by dstack as the same Attempt, and nothing looks
  for a receipt: if the Attempt failed, if its cancel came from a signal, or if the Run only trains, it starts its
  learner again under the receipt, trains, publishes, and ends with a conflict when it writes its own. `SPECS.md:67`
  wants a new Attempt for every retry. `AcceptedAttemptsLearnNoMore` is the case in which this cannot happen.
- SIGUSR1 reaches a learner that is starting or finishing (`train.py` 129-146 and about 280-300) as its default action:
  a cancel then ends in a resumable failure (`README.md:28` promises a cooperative stop).
- A lease that the background renewal loses after the loop's last check is noticed only after `learner.wait()`,
  without a stop request (`run_supervisor.py`, about 2753).

*Monitoring*
- An exception after a result was verified, such as a failed write of the row, counts as a failure of the execution (`monitor_supervisor.py`
  159-166). In the second execution the row then ends as failed, although its result and all episodes are stored. A
  stranded execution (finding `monitoring_stranded`) also keeps the only place from the Checkpoints behind it.

*State archive*
- A writer that stalls after its last heartbeat may replace or delete `latest.json` late (`run_authority.py:1190`):
  the case `overrun` leaves to the reader.

*Playback*
- `_progress` and `_set_state` (`play_application.py` 439-443) may leave the phase "loading" when no loader is left.
  An activation that fails at `runner.start()` keeps the runner open and has advanced the epoch (about 461-470); a
  failed import advances the generation.
- `playback_worker.py` 312-328: an answer that timed out is taken for the answer of the next request (`TimeoutError` is
  an `OSError`, is caught, and the connection is kept); the bounded tables of reads and transfers are not emptied
  when the caller gives up. The death of the encoder thread blocks the engine (`play_engine.py:696`).
- An exception between the environment's decision and the append that is not the packing `ValueError` (`play_engine.py`
  2038-2066) sets no capture error: the next step is recorded with a gap before it. `_begin_full_recording` closes a
  recording without the trajectory lock (`play_engine.py:1079`), and a download that reserves it afterwards fails.

*Publication*
- A canceled job whose handler saved the phase "canceled" can be retried by the queue and then fails as an unsupported
  phase (`publication_jobs.py:907`). An expired upload session blocks every retry; the message at 359-364 proposes one.
  A wrong video id that was resolved cannot be replaced. The recovery branch (591-598) does not set the URLs.
- A recovered commit may be somebody's later commit that keeps the manifest; the tag is then put on it. The check of the tag
  (686-702) downloads the release files only: when that commit adds another file, the video is made public before the
  audit (816-819) lists the files and blocks the job. `operations.md:69` wants the exact bundle verified before that. Cleanup during
  a retry removes the files of a running job.

*Datasets*
- A `next` left by a process that died before the marker quarantines the valid `current` with it (`dataset_store.py:316`),
  as any exception during a commit does (415). Recovery of pending sessions fails when one is being removed
  (`dataset_record.py` 782-783). `open_source` does not look again after it has locked again (646).

Not modelled: the components of `PROJECT.json` with status `not_modelled`, each with its reason, and of the components
with status `partly` what their notes name. Hazards of parts that are not modelled yet are listed there, without
properties. Most of the remaining lines are documents, floating-point computation, presentation and tooling without
protocol state: policy training, environments and reward kernels, recipes and catalogs of content, reports,
certification scenarios, web clients.

## 6. Roadmap

1. *Done*: `WriterLease`, `JobQueue`, `EvaluationRecord` and `CheckpointEvaluation`, `MetricJournal`, `CatalogRecord` and
   `GoalCatalog`, `LearnerSupervision`, `CheckpointMonitoring`, `StateArchive`, `PlaybackHost` and `EpisodeRecording`,
   `ReleasePublication`, `DatasetStore`, `ManualEvaluation`, each with its theorems; both refinements.
2. The public Run index: `publish_checkpoint` and the replace loop of `_update_public_index`.
3. The pipe of the playback process: requests and answers without identifiers, time limits, the encoder queue.
4. Autoresearch: the campaign record and its reconciliation.
5. Pure algorithms against reference definitions over bounded inputs: merging catalog events, early stop windows,
   schedules, cell archives; stop conditions and imported recordings of the player.

Where a finding says that something does not hold, the theorems say what does, for the lease, the lost answer, the two
points of an event, the success that is not recorded and the early promotion. For the journal of a manual batch
(`manual_gap`) that is still to come.
