# Voynich@home in TLA+

A verification development of the Voynich@home repository: the volunteer
platform that hands out bounded decoder searches, replays every returned result
on a trusted kernel, and credits volunteers for results that agree; the science
kernel that computes them; and the recovery study kept beside it. It holds TLA+
modules of these parts, TLC configurations that check them on small instances,
and theorems checked by TLAPS.

Paths below are relative to the repository; `coordinator.ts` and its siblings
are in `platform/src/lib/server/`, `vah-search` and its siblings in
`kernel/crates/`.

## 1. The system

### Components, their state and their operations

| Component | State | Operations |
|---|---|---|
| Work leasing (`coordinator.ts:16-29, 75-119`) | `attempts`, `units.reserved*`, `limits` | `recordRequest`, `reserveWindow`, `lease` |
| Submission (`coordinator.ts:125-138`) | `attempts.result_hash`, `state` | `submit` |
| Trusted checking (`coordinator.ts:140-188`) | `units.state, trusted_hash, validation_runs`, `credit`, `campaigns.status` | `validateUnit`: claim, replay, save or fail, judge |
| Scheduled checking (`coordinator.ts:189-198`) | `units.state` | `maintain` |
| Owner (`owner.ts`) | all of the above, `controls`, `releases`, `reports`, `audit` | sixteen actions, one request each |
| Execution guard (`maintenance-guard.ts`, `hooks.server.ts`) | `maintenance_runs` | shared and exclusive runs, owner preflight |
| Health and schedule (`health.ts`, `maintenance.ts`, `worker.ts`, `github-maintenance.ts`) | `operation_health` | `recordOperation`, `runMaintenance`, native and workflow triggers |
| Backup and restore (`backup.ts`, `auth.ts:30-39`) | snapshot, portable and tombstone objects | `writeBackup`, `restore`, `portableBackup`, `importBackupObject`, `dailyBackup` |
| Imports (`coordinator.ts:200-253`, `inputs.ts`) | `campaigns`, `units` in `importing`, `shared_objects`, input objects | `addCampaign`, `addUnit`, `writeShared`, `writeImmutableInput`, `loadInput` |
| Reports (`reports.ts`) | `reports`, `campaigns.scientific_status` | `publishReport`, `requireRecoveryEvidence`, withdrawal |
| Accounts (`auth.ts`, `sites-auth.ts`, `community.ts`, `coordinator.ts:30-51`) | `user`, `account`, `session`, `guests`, `profiles`, `teams`, `membership`, `rate_limit` | sign-in, guest creation and attachment, teams, rate limits, deletion |
| Volunteers (`contribute/+page.svelte`, `compute.worker.ts`, `local-work.ts`, `scripts/volunteer.ts`) | saved lease, job, checkpoint and result | start, stop, resume, compute, submit, discard |
| Search kernel (`vah-search`, `vah-search-wasm`) | search and generation checkpoints, the output buffer | `step`, `finish`, `run`, verification, candidate check |
| Simulation core (`vah-core`, `vah-wasm`, `vah-generators`, `vah-stats`) | none | work units, their seeds and results, targets, partitions; what a generator writes and a fingerprint measures is a floating-point function |
| Sweep and refinement (`vah-cli/src/{sweep,refine}.rs`, `vah-core/src/grid.rs`) | a ledger of grid points, the axes of a level | `run_grid`, `refine`, `Grid::point`, `Grid::nearest` |
| Transcription and corpora (`vah-ivtff`, `vah-corpus`) | none | items, pages, views, corpora |
| Kernel command line (`vah-cli/src/main.rs`) | manifests, target directories, ledgers | `partition`, `build-targets`, `plant`, `self-distance`, `sweep`, `refine`, `calibrate`, `run-wu`, `show-seed` |
| Recovery study (`research/recovery/panel.py`) | a directory of record files with a lock, a directory of supplemental attempts, a directory of audits with a lock, an evaluation report | `prepare`, `run`, `retry-operational`, `replay`, `evaluate`, `freeze` |
| Recovery archive (`research/recovery/bundle.py`) | an archive with its inventory and receipt | `build`, `verify` |
| Offline contracts (`src/voynich_at_home`), static verifier, packaging | none | validation and presentation |

### How they interact

The database (D1) is the only shared memory, and "the database is the queue"
(`coordinator.ts:83`): a statement or a batch is atomic, and between two of them
any other request may run. `hooks.server.ts` wraps every dynamic request in a
shared execution guard and owner requests in an exclusive one. After a receipt
the results endpoint leaves a background check behind (`waitUntil`) which takes
a guard of its own. The schedule calls `runMaintenance`, which holds the guard
alone and runs the daily backup and `maintain` side by side; its success is the
evidence without which `lease` hands out nothing. Owner actions change the
tables all others read. Clients save each result before they send it.

The kernel is compiled twice. As a module (`vah-search-wasm`) it computes for a
browser, for the command-line volunteer and for the platform's own replays: the
host passes a job and a checkpoint, the module computes a bounded piece and
leaves an answer in its output buffer; it keeps nothing, so the checkpoint the
host saved is all that survives a reload. As a program (`vah-cli`) it prepares
targets from a transcription, runs whole work units and sweeps on several
threads, and leaves files that later commands read: a manifest fixes which
quires a role may see, a target directory what distances mean, a ledger what a
sweep found.

The recovery study runs offline and shares nothing but files with the platform.
`run` and `retry-operational` exclude each other with one lock file, replays with
another; a replay and the archive look at the worker's lock once, and an
evaluation at none. Every file is renamed into place, and processes are killed
and started again for weeks.

### What is hard

Conditions read before an await and acted on after it (the guest's own lease,
the month, the stored result, the release of a unit that is being replayed);
replays that outlive their claim; invocations that die between two statements;
duplicate schedule deliveries; a month that ends in the middle of anything;
reserves that must be paid, carried once and never given away; scheduled work
that must go on without any help; and guards that no timeout reclaims. In the study:
a check that no record exists, made minutes before the record is saved; readers
that take no lock; and reports that must stay true while others write. In the
kernel: a plaintext patched in place over thousands of proposals; checkpoints
that are lost, old, damaged or another's; one seed computed by units that were cut
differently; threads that race through a grid and a failure that stops them;
ledgers torn by a death; axes rounded and clamped level after level; and
manifests that outlive their transcription.
`PROJECT.json` lists these hazards at their lines.

### What makes each component correct

- Leasing: concurrent requests never exceed the month's assignments, reserves or
  leases in flight; one live lease per guest.
- Reserves: each trusted replay is paid for; unfinished obligations move to the
  next month, once.
- Submission: a guest holds a receipt only for the result that is stored.
- Checking: one trusted result per unit, from the replay that owns the unit;
  credit exactly for matching attempts; nothing judged is ever judged again.
- Scheduled checking: every waiting result is checked in the end, every
  exhausted unit closed.
- Guard and health: exclusive work is alone; an invocation id runs once; only a
  complete scheduled run opens leasing.
- Recovery study: a recorded result is never replaced; retries stay supplemental;
  a mismatch is never retried away; a report that claims completeness is final and
  stays true of the files; a verified archive is one closed study.
- Search: a search that was stopped, lost and resumed is the uninterrupted one;
  its best key is the best it visited; a beam with room for everything finds the
  best of all keys; what the kernel returns passes its own verification.
- Simulation: a seed of an experiment is one corpus, whichever unit it is
  computed in; a hosted result is that of a native run of the whole unit.
- Sweep: a ledger holds each point once, however threads race; a calibration
  never rests on an incomplete or foreign ledger; a refinement stays in range and
  never loses its best point.
- Data: a target never holds a page of another role; paragraphs stay whole from
  the transcription to a resample.
- Imports: work that may be handed out is stored whole and its storage is reserved.
- Backups and deletion: nothing deleted or revoked returns; after a successful daily
  backup there is always a recent one that can be restored.
- Reports, sign-in, clients: see the plan.

## 2. Modules

| Module | What it is |
|---|---|
| `Coordinator` | leases, submissions, checks, maintenance, months and owner actions over the database tables |
| `Reserves` | the budget properties of `Coordinator` (extends it) |
| `CreditLedger` | the abstract promise to a volunteer, implemented by `Coordinator` |
| `Maintenance` | execution guards, scheduled runs, health evidence, restores, the operator |
| `Totals`, `TotalsProofs` | what the numbers of a table add up to, and lemmas about it, about finite orders, the ranks that sort by them, and recursive functions |
| `CoordinatorProofs` | lemmas and theorems about `Coordinator` and `Reserves` |
| `MaintenanceProofs` | theorems about `Maintenance` |
| `Imports` | how units, their inputs and shared parts enter the platform |
| `Backup` | backups, export, restoration, retention, and the deletion of accounts (extends `Imports`) |
| `BackupProofs` | theorems about `Backup` |
| `Panel` | runners, retries and the operator over the worker directory of the study |
| `Replay` | replays, their audits and reports (extends `Panel`) |
| `Study` | the whole study: adds the evaluation and the archive (extends `Replay`) |
| `StudyProofs` | theorems about `Panel`, the whole study and its evaluation, replays and the archive |
| `Kernel` | the constants the kernel's modules share |
| `Search` | annealing and beam search, their requests, and a host that dies and resumes |
| `SearchProofs` | theorems about `Search`: both searches, their results and verification |
| `WorkUnits` | work units: validity, streams, seeds, results |
| `Generation` | hosted generation jobs beside native runs (extends `WorkUnits`) |
| `GenerationProofs` | theorems about `Generation` |
| `Sweep` | grids, threads, ledgers, refinement, calibration from a ledger |
| `SweepProofs` | theorems about `Sweep` |
| `Transcription` | the text of a transcription, views and corpora |
| `Manuscript` | partitions, targets, resamples and their files (extends `Transcription`) |
| `MCCoordinator`, `MCMaintenance`, `MCStudy` | values of the constants for TLC |
| `MCCredit`, `MCSearch`, `MCSweep` | values, and scenes that share one run |

### Coordinator

A variable per table or column group: `attempt`, `unit`, `limits`, `credit`,
`campaign`, `release`, `stopped`, `healthy`, `blocked`, and `month`. A process
per HTTP request (`call`) and per result check (`check`, with the scheduled run
as `Scheduler`) holds what the code holds in local variables between awaits: the
guest, the window read for the batch, the claim number, the trusted hash.
`ack` is history: the results a guest was told were received.

| Code | Actions |
|---|---|
| `lease` | `LeaseStart` (switches, `reserveWindow`), `LeaseCheck` (own live lease, second read of the month), `LeaseInsert` (the batch) |
| `submit` | `SubmitStart` (first read), `SubmitStore` (guarded UPDATE, reread, receipt) |
| `validateUnit` | `CheckStart`, `CheckBegin` (reads, `reserveWindow`), `CheckClaim`, `CheckUnfunded`, `CheckSave`, `CheckFail`, `CheckJudge` |
| `maintain` | `MaintainExhaust`, `MaintainPick`, then `validateUnit` |
| `ownerAction` | `Control`, `SetBudget`, `Moderate`, `WithdrawReport`, `RevokeRelease`, `SetCampaign`, `RetryValidation`, `ExtendDelivery` |
| time and failure | `LeaseExpires`, `ClaimExpires`, `MonthEnds`, `RecordRequest`, `HealthChanges`, `CallLost`, `CheckLost` |

Abstractions. A timestamp is the flag its guards ask for (`live`), except the
order of submissions (`at`). Reserves are counted in replays, because
`owner.ts:20` fixes `reserve_ms`. A result is its identity. Two reads without an
effect in between are one step when only exclusive work could change their
subject (the reads before `reserveWindow` in `lease` and `validateUnit`); every
step that writes is separate, as are the second read of the month and the
lookup before the insert. The UPDATE and the reread in `submit` are one step:
once a result is stored no other action changes it, so rereading later shows the
same. Which manuscript campaigns a withdrawal or a revocation pauses depends on
the reports, and is left open. Deployment constants are assumed to be in their
open setting. A database statement is assumed to succeed or to end the
invocation (the loss actions).

The guard of module `Maintenance` appears here as `NoExclusive`, `NoOrdinary`
and `Alone`: a request or background check begins only when no exclusive run is
in flight, maintenance and the owner only when nothing is. That this is what the
guard gives is `ExclusiveRunsAlone` in `Maintenance`. Restores are exclusive and
end with assignments stopped; what they do to the tables of `Coordinator` is not
modelled: a restored snapshot is an earlier state of them with all leases expired.

### Maintenance

`rows` is `maintenance_runs`, `health` is `operation_health` (the row of backups
opens nothing and is left out), `pc` the processes: requests, the background
checks they leave behind, owner requests with their preflight, and deliveries of
the schedule. Two deliveries may carry one invocation id, and some deliveries are
rehearsals. `part` is the progress of the siblings of a run. `entered`, `begun`
and `outcome` are history. Any process may die inside the guard; the operator
records the failure of a dead one (`OperatorClears`), and a hasty one (`hasty`,
chosen at the start) also of a live one, against the advice of
`docs/OWNER-SETUP.md:118`. `ExclusiveRunsAlone` and `GuardCoversWork` speak of the
careful operator, the other properties of both.

### Imports and Backup

`unit`, `shared` and `campaign` are the tables, `stored` and `parts` the objects under
`inputs/` and `shared/`, `task` the exclusive work in progress with its position. An
object is its identity; an input is stored compact, or full by an earlier release.
`people` holds the tables of accounts, sessions, guests and teams, `deleted` and
`backups` the objects of those names, `bundle` the last exported copy outside the
provider. A backup is its day, its time of upload, the schema and the rows.

| Code | Actions |
|---|---|
| `addUnit` | `StartImport`, per part `ReservePart`, `WritePart`, `MarkPart` (`writeShared`), `WriteInput`, `Settle` (`writeImmutableInput`), `OpenUnit` |
| `ownerAction` | `Import`, `Open`, `Control`, and the commands below |
| `backup`, `portableBackup`, `importBackupObject`, `restore` | `WriteBackup`, `PortableBackup`, `ImportObject`, `Restore` (one batch) |
| `dailyBackup` | `StartDaily`, `CheckToday`, `WriteToday`, `DeleteOld` object by object, `EndDaily` |
| deletion of an account (`auth.ts:30-39`) | `StartDeletion` (the record), `UnlinkAccount` (the batch), `RemoveAccount` (the library's deletion of the row with its cascades) |
| `claimGuest`, `changeTeam` | `Attach`, `CreateTeam`, also while a deletion is under way |
| the world | `RequestDies`, `TaskDies`, `DayPasses`, `Migrate`, `Disaster` (the provider is lost, the bundle is what remains) |

`gone`, `hidden`, `revoked` and `assured` are history. Assumptions, named where they are
used: exclusive work and volunteers' requests exclude each other, which is
`ExclusiveRunsAlone`; before the first restoration after a move the operator has
returned every deletion record of the bundle, as `platform/README.md:70` asks; a
daily backup ends within the retention period; one deletion is under way at a time.
Left out: new sign-ins and guests (a session that ended stays ended, a new one is
another), leaving and joining teams, the owner showing a hidden team again on
purpose, states of a unit beyond `open`, bounds on sizes, and what compacts or
validates an input.

### Panel, Replay, Study

Files are variables: `runs` (one record per planned search), `supplemental`,
`audits` (a sequence per target, the later ones being the numbered files under
`retries/`), `replayReport`, `evaluation` and `archive`; `lock` and `auditLock` hold
the process whose pid is in `.running`. A record is its status and its result, a
digest of a record the record, a result the score by which it is ranked.

| Code | Actions |
|---|---|
| `run_panel`, `retry_panel` | `StartTool`, `Skip`, `Stage` (the existence check), `Record` (the save, after the search ran), `Raise`, `End` |
| `replay_panel`, `replay_one` | `StartReplay` (the worker's lock), `OpenAudits`, `PassOver`, `Accept`, `StageReplay`, `Replayed`, `RejectReplay`, `FailReplay`, `WriteReport`, `Unlock` |
| `evaluate_panel` | `StartEvaluation`, `ReadRecord` per search, `WriteEvaluation` |
| `build_bundle`, `verify_archive` | `StartBundle` (locks), `LoadReports`, `CopyFiles` tree by tree, `Verify`, `Abandon` |
| the host and the operator | `Kill`, `KillReplay`, `ClearLock`, `ClearAuditLock`, `RecordInterruption` |

`RecordInterruption` is what `PANEL.md:47` asks of the operator; the other manual
step is the removal of a dead process's lock. Abstractions: the job digests,
kernel digests of the worker and schema checks compare constants of the study and
always agree; the row of a search at which a replay fails is left out of the
report, because a report with an error claims nothing; `retry-report.json` and the
`complete` flag of a replay report are read by nobody. One evaluation runs at a
time: `evaluate` has no lock, and a slow one that began early could replace the
report of a later one. `all_outputs_reproduced` is also true, of nothing, while
originals are missing, so `MismatchesStand` reads it beside
`all_recorded_successes_reproduced`, as `validate_ready` does. `rejected` is
history: the targets for which a replay refused an output.

### CreditLedger

Three variables, three actions: an attempt is answered once, a unit is decided
once, and an award credits exactly the correct answers of a decided unit.
`KeepsPromise` states the refinement mapping from `Coordinator`.

### Search

A state is one job, the checkpoint in the host's memory (`held`), the one it has
persisted (`file`), the request being computed (`call`) and the output buffer
(`out`). A call advances by one proposal or one beam level at a time, so that the
host may die inside it.

| Code | Actions and operators |
|---|---|
| `validate_job`, `valid_key`, `verify_candidate`, `checkpoint_matches` | `ValidJob`, `ValidKey`, `CandidateHolds`, `CheckpointMatches` |
| `initial`, `advance` | `Initial`, `Work`, `Proposal` (with `Patch`, `Affected`, `Improves`), `Propose`, `EndAdvance` |
| `beam` | `StartBeam`, `Order`, `Possible`, `Tries`, `Child`, `NextLevel`, `Complete`, `BeamResult`, `Expand` |
| `step`, `finish`, `run`, `verify` and the verification in steps | `AskStep`, `AskFinish`, `AskRun`, `AskVerificationFinish` |
| the host | `Read`, `Save`, `Crash`, `Restore`, `RestoreForeign` |

Random numbers are drawn from a stream named by the job's digest and the
iteration: they are chosen once, at the start of a behaviour (`stream`), and a
proposal reads those of its iteration. `luck` is the threshold that
`-delta` must stay under. Scores are small integers, as in the code, over an
alphabet of three letters. A digest is the thing it is taken of. `path` is
auxiliary: what a search visits that is never stopped, decoded and scored in
full; `ResumedIsUninterrupted` compares every checkpoint anywhere with it.

A level of the beam is what its two loops try before the budget ends: the pairs of a
place in the beam and a letter with room, those with fewer such pairs `Sooner` than the
budget has left. A sort is by ranks (`Ranked`): the code's orders are strict, on things
that are all different, so each place goes to the one that has as many before it.

### WorkUnits and Generation

`ValidUnit`, `StreamOf`, `RunWorkUnit`, `GenerateSeed` and `UnitDistance` translate
`vah-core/src/lib.rs`, `LayoutFrom` and `Truncated` the layouts a job is made
with. `Generation` is the host's view of the same work (`generation.rs`): `AskSeed`
computes one seed on a checkpoint, `AskWhole` finishes, `AskGenerate` does both at
once, `TakeReply`, `Store`, `Lose` and `Bring` are the host, which may bring back an
older checkpoint, one of another input, or one with a damaged distance.
`RunNative` and `ShowSeed` compute the same seeds elsewhere. A corpus is what its
generator was given, its stream included; `Statistics` maps it to a fingerprint
and `land` makes that map differ between behaviours, so that two computations
agree only if they really were given the same things. Statistics are integers;
a distance is its square times what all seeds of a unit share, which keeps every
comparison the code makes.

### Sweep

`next` is the atomic counter, `thread` where each thread is, `pushed` the entries in
the order of no one, `failure` the slot of the first error, `files` the ledger of
each level. Axis values are integers: `Unit` of them make 1.0, `Tidy` the tenth
decimal.

| Code | Actions |
|---|---|
| `run_grid` | `Begin`, `Fetch` (`fetch_add`), `Check` (the end of the grid, another's failure), `RunPoint`, `Join` (sort, or the error) |
| `write_ledger`, `BufWriter` | `Join` (create), `Flush` (any prefix, also of a line), `EndLevel` |
| `refine` | `Begin` (validation), `EndLevel` (best, steps, next grid, stop) |
| `calibrate --ledger` | `Calibrate`: header, length, indices, replicates, nearest point and rank |
| the system | `Crash` |

`Measured` says what the simulations give, per landscape; a value that is no number
makes the point fail (`Median`). `Point` and `Nearest` turn an index into one value per
axis and back: the last axis varies fastest, and `Rest` is what is left of the index
when the axes after one have taken theirs. `Grain` is what `number` rounds to, whole
units on a whole axis and the tenth decimal elsewhere. A step of a whole axis is rounded
when it shrinks, so the next may be larger than the last when the last was not whole
(the values of such an axis need not be equally far apart); `RefinementNarrows` says
that it never grows beyond the nearest whole one. Two details of the code are kept as
they are although a comment reads differently; see below. Not modelled: the other rules
of `calibrate`.

### Transcription and Manuscript

The text of a locus is a sequence of marks. `ParseItems` and `Render` are the item
grammar, `PagesOf` the pages, `Walk` the builder of `vah-corpus`, `BuildCorpus` a corpus
under a view. `Assign` is the greedy assignment of quires to roles, in percents instead
of fractions. `edition` is the transcription at hand, `folder` the files, `task` the
running command.

| Code | Actions |
|---|---|
| `partition` | `StartPartition` |
| `build-targets`, `plant`, `self-distance` | `StartBuild`, `StartPlant`, `StartSelfDistance`, then `Draw` and `EndSample` for each resample |
| the files of a target directory | `Open` (truncated), `Fill`, one file after the other, `EndCommand` |
| the world | `Die`, `Replace` (another edition of the transcription) |

A block is drawn by choice instead of by a random number. The statistics of a
target are left out; what is kept is which lines, from which source, view and
manifest, it was made of. Page names of an edition are distinct; a locus whose
identifier names no page before it opens a page of its own, without a quire.

### MCCredit, MCMaintenance, MCSearch, MCSweep

These compose scenes: behaviours that share one run because they share most of an
instance. In `MCCredit` two requests, two checks and the schedule race while the
owner's switches rest; when the owner begins by setting a budget, all owner actions
and switches interleave with the schedule and one request or check at a time.
In `MCMaintenance` some processes are left out under each of the two operators of
`Maintenance`, and three scenes restrict `Backup` to accounts, to imports or to the
passing of days. Scenes are action constraints on whole specifications, so a run checks
`Spec`, or `BackupSpec`, itself, restricted.
`MCSearch` is a search or a generation job behind the same interface,
`MCSweep` a sweep or a series of data commands of one program.

## 3. Runs

| Run | Asks | Instance |
|---|---|---|
| `credit` | types, credit, receipts, ownership, finality, refinement | 1 unit, 2 guests, 2 results; 2 requests, 2 background checks and the schedule, deaths, expiry, revocation, pause, retry; or, once the owner has set a budget, all owner actions and switches with the schedule and one request or check at a time |
| `capacity` | budgets and one lease per guest | 2 units, 3 guests, 2 requests; 3 assignments, 2 reserves, 2 in flight |
| `reserve` | funding over a month's end | 2 units, 2 guests, 2 months, 1 request, 1 check and the schedule |
| `liveness` | scheduled checking goes on | 2 units with a release each, deaths, revocation, retries |
| `rollover_lost`, `starved` | the disagreements below | 2 units, 2 months |
| `maintenance` | exclusion, guard coverage, single execution, evidence; late success after a hasty repair; nothing deleted returns, a backup stays, work is stored | a request with its check or a rehearsal, an owner, a run delivered twice; under a hasty operator 2 scheduled runs and an owner; 1 account and guest with 2 commands; 2 units of 1 input and part with 3 commands; 4 days, 2 schemas, retention of 2 days; provider lost in each of these |
| `search` | searches cut, lost and resumed; beams; verification; one corpus per seed; hosted against native | 11 jobs of both algorithms and all encodings, 3 letters, 3 or 6 symbols, 2 or 3 proposals, 1 death; 13 generation jobs, 3 seeds, 3 ways statistics may fall |
| `sweep` | complete ledgers, true calibrations, refinements that narrow; roles and paragraphs kept apart | grids of 2 or 3 x 2 points, 2 or 3 threads, 3 levels, 9 landscapes, 1 death; 3 editions, 3 commands, 1 replaced edition, 1 death |
| `study_records` | the worker directory and the evaluation | 3 searches, 2 results, budgets of 1 and 3, 2 processes started 3 times in all, 2 evaluations |
| `study_archive` | audits, reports and the archive | 2 searches, a runner or retry (2 starts), 2 replays of which one may mismatch, 1 evaluation, 1 build |
| `study_refused` | the disagreement below | 1 search, 2 executables, 2 replays |

Why the bounds are enough. Two copies complete a unit, so two guests on one unit
reach every combination of agreeing, disagreeing, early and late results. Two
replays of a unit (`MaxRuns` bounds those that may be disturbed) are the smallest
overlap of a stale and a current claim, and three validators let a third act in
between. Two units are needed for reserves that differ, for the choice of the
oldest and for a campaign that is not yet complete; two months for one carry.
`capacity` has one guest and one unit more than the budget admits. In
`maintenance` each kind of process is present once and the schedule often
enough for a duplicate id and a rehearsal. In its scenes of `Backup` one account,
one guest and one team suffice because a deletion treats each account alone; the two
units share their input and part, one may have been imported in full by an earlier
release, and the limit of 6 bytes leaves room for some combinations and not for
others; a retention of two days lets backups of the first day be deleted on the
fourth while two newer ones compete; three commands are an export, an import and a
restoration. `Events` names the interventions a run
explores, to keep the others' states apart; `Moderated`, `Budgets` and `LimitCap`
are bounds of the same sort. Symmetry is used in runs without temporal liveness
only. In the study one start runs, one retries and one is left for a race or a
resumption; two searches are the least for which one can succeed and one fail,
and for which files are read at different times; a budget smaller than the whole
is needed for partial coverage. Two replays are one that fails or is killed and
one that follows or races it.

In `search` two proposals are one that resumes on the other; `TraceEvery` is 2, so
that a trace entry falls inside a step, at its end and after a resumption; the
draws hold exchanges, a reassignment, a proposal of one symbol with itself,
accepted and refused losses; `QuadThree` makes different keys tie. The widths and
budgets of the beams leave room for everything or cut in the middle of a level.
Three seeds give units that overlap in one seed at different positions. In
`sweep` two threads on the larger grids and three on the line of three points are
the least for a thread that finds the grid exhausted while others still push; a
failing value makes some points fail and others not. Three levels are one
rounding on another. The editions differ in what moves a page to another quire,
in a word read differently, and in being well formed at all; three commands are
a manifest, an edition that replaces its own, and a target. The death falls
between any two writes.

Deadlock checking is off only in the `maintenance`, `study`, `search` and `sweep` runs,
where the processes run a bounded number of times and the system then stops.

### Fairness

`FairSpec` assumes that steps already begun are finished, or lost, but that a
scheduled run is not lost at the same await for ever (strong fairness of its
steps), that leases and claims expire, and that months end. The schedule fires
every five minutes but the guard has no queue, and `docs/OWNER-SETUP.md` says
"There is no fairness guarantee under sustained traffic": `Lulls` states what the
operator has to provide, that again and again no ordinary work is in flight.
Volunteers, background checks and the owner are not assumed to do anything.

### Disagreements with the documents

- `rollover_lost`: `lease` reads the month again after
  `reserveWindow` and keeps it across another await. When a month ends in
  between, a reserve is lost from the new month, or carried into it twice. With
  `QuietRollover` (no lease request between those reads when a month ends) the
  same two properties hold, which `reserve` shows. Without it `CarriedOnce`
  fails as well; that counterexample, the second half of the same defect, is not
  kept as a run.
- `starved`: an expired replay whose retry cannot be paid is not parked, because
  the parking statement asks for `state='open'`. `maintain` picks it for ever and
  later results wait, although their replays are paid for. `liveness` shows that
  with ample reserves all results are checked.
- `study_refused`: a replayed output that does not validate raises before the audit
  is saved. `PANEL.md:51` promises that the differing output is retained and
  cannot be dismissed; a replay with another executable finds no audit and may
  report full reproduction.

Met while modelling, without a run of their own:

- A team founded, or a guest attached, between the batch of `auth.ts:34-38` and the
  removal of the user row escapes the deletion: the row's cascades leave the team
  shown without an owner and the guest's proof valid (`WithoutUsers`). Both are ordinary
  requests (`community.ts:29-37`, `coordinator.ts:47-51`) that nothing excludes.
  `docs/SECURITY.md` says that deletion hides owned teams and revokes the proofs of
  attached guests; `NothingReturns` therefore speaks of what the deletion did reach.
- A restored snapshot brings back its own storage rows. Objects written after it are
  stored but no longer counted, so the reserve bounds what the rows say, not what is kept.
- After the provider was replaced, an imported snapshot of today counts as today's
  backup (`backup.ts:146-158`) although its inputs may not have been returned yet, and
  `restore` does not check that deletion records were. `ABackupStays` asks for inputs
  only where nothing was lost.
- `refine.rs:9-11` says that an integer axis whose step would drop below one is
  frozen. The step is rounded first, and 0.5 rounds to 1: such a step is 1
  for ever (`NextStep`), and a refinement goes on until its levels are used up.
- A refinement that stops before its last level never runs with
  `final_replicates`; its report is that of the coarse number.
- `vah-corpus/src/lib.rs:84-85` says that `filter_pages` drops pages that lost all
  their lines. It keeps every page the predicate keeps, with lines or without
  (`FilterPages`).
- `plant` and `build-targets` write up to five files one after the other
  (`main.rs:805`). A death in between leaves a target beside the layout and
  resources of an earlier one; `calibrate` compares none of them (`main.rs:846-849`).
  `RolesKeepApart` therefore speaks of the target alone.

## 4. Proofs

For all values of the constants that satisfy `ConstantsOK`:

| Theorem | States |
|---|---|
| `TypeCorrect` | `Spec => []TypeOK` |
| `Invariance` | `Spec => []Inv`, the inductive invariant |
| `CreditCorrect` | `Spec => []CreditIsEarned` |
| `ReceiptsCorrect` | `Spec => []ReceiptsStand` |
| `OwnershipCorrect` | `Spec => []OneOwner` |
| `VerdictsFinal` | `Spec => VerdictsStand` |
| `PromiseKept` | `Spec => KeepsPromise`, the refinement |
| `StaleReplayCorrect` | `Spec => StaleReplayIsSilent` |
| `CompletionCorrect` | `Spec => []CompletionAgrees` |
| `FundInvariance` | `Spec => []FundInv` of `CoordinatorProofs`, the inductive invariant of the budget |
| `CapacityCorrect`, `LeasesCorrect`, `ReplaysFunded` | `Spec => []CapacityHeld`, `[]OneLeasePerGuest`, `[]EveryReplayFunded` |
| `RollInvariance` | under `QuietRollover`, `Spec => []RollInv`, the inductive invariant of carried reserves |
| `ObligationsCarried`, `CarriedOnceCorrect` | under `QuietRollover`, `Spec => []ObligationsFunded`, `[]CarriedOnce` |
| `MaintenanceTypeCorrect` | `Spec => []TypeOK` of `Maintenance` |
| `GuardInvariant` | `Spec => []GuardInv`, its inductive invariant |
| `ExclusiveAlone`, `WorkCovered`, `InvocationsRunOnce` | `Spec => []ExclusiveRunsAlone`, `[]GuardCoversWork`, `[]RunsOnce` |
| `OpeningCorrect` | `Spec => OpeningNeedsSuccess` |
| `LateSuccessIsHarmless` | `Spec => []LateSuccessHidesNothing` |
| `DeletionInvariant`, `DeletedNeverReturn` | `BackupSpec => [](DInv /\ RevokedStay)`, `[]NothingReturns` |
| `BackupInvariant`, `AssuredBackupStays` | `BackupSpec => [](DInv /\ BInv)`, `[]ABackupStays` |
| `WorkIsLoadable`, `StorageInvariant` | `BackupSpec => []Stored`, `[]SInv`: the parts of `WorkIsStored` about objects, and about the limit and open campaigns |
| `WorkStaysStored` | under `CompactIsSmaller`, `BackupSpec => []WorkIsStored` |
| `PanelTypeCorrect`, `AttemptsBelongAlways`, `RecordsStandAlways` | `PanelSpec => []PanelTypeOK`, `[]AttemptsBelong`, `RecordsStand` |
| `StudyImplementsPanel` | every behaviour of the study is one of `Panel` |
| `StudyKeepsRecords`, `StudyAttemptsBelong` | the same two facts for the whole study |
| `EvaluationInvariant`, `EvaluationIsFinalAlways` | `Spec => []EvaluationInv`, `EvaluationIsFinal` of `Study` |
| `EarliestBestAlways` | `Spec => []EarliestBestStands` |
| `ReplayInvariant` | `Spec => [](PanelInv /\ ReplayInv)`, the inductive invariant of replays |
| `MismatchesStandAlways`, `ReportsStayTrue` | `Spec => []MismatchesStand`, `[]ReportsAreTrue` |
| `ArchiveStaysClosed` | `Spec => []ArchiveIsClosed` |
| `SearchInvariance` | `Spec => []SearchInv` of `SearchProofs`, the inductive invariant of the annealing search |
| `ResumedCorrect`, `BestCorrect` | `Spec => []ResumedIsUninterrupted`, `[]BestIsBestVisited` of `Search` |
| `VerifyInvariance` | `Spec => []VerifyInv` of `SearchProofs`, the inductive invariant of results of both searches |
| `ResultsCorrect`, `BeamCorrect` | `Spec => []ResultsVerify`, `[]BeamFindsBest` of `Search` |
| `GenerationInvariant` | `GenerationSpec => []GenerationInv`, the inductive invariant of hosted generation |
| `HostedResultIsWhole`, `SeedsAreOneCorpus` | `GenerationSpec => []HostedIsWhole`, `[]SeedIsOneCorpus` |
| `SweepInvariance`, `RunsComplete` | `Spec => []SweepInv`, the inductive invariant of racing threads, `[]RunIsComplete` of `Sweep` |
| `LedgerInvariance`, `CalibrationCorrect` | `Spec => []LedgerInv`, the inductive invariant of ledgers, `[]CalibrationIsTrue` |
| `NarrowInvariance`, `RefinementsNarrow` | `Spec => []NarrowInv`, the inductive invariant of a refinement, `[]RefinementNarrows` |

`ConstantsOK` says that guests and units are finite and not empty, units are
numbered, NULL is no result, each unit has a campaign and a release, and the
schedule is not a background check. Every run evaluates it.

The argument. `CreditIsEarned` is not inductive: a judging check uses a trusted
result it read some steps before, and a running replay relies on a claim number
that others may pass. `Inv` adds that a stored result and the state of an attempt
go together (`HashMatchesState`), that a call about to store has an attempt to
store into (`StoresHaveRows`), that a judging check holds the unit's trusted
result (`JudgesAgree`), and that the claim number of a running replay was issued
and belongs to it alone (`TokensIssued`, `OneOwner`). Most actions touch none of
this: `QuietKeeps` disposes of them at once, and one lemma treats each of insert,
store, claim, save and judge. The same split carries the refinement: a quiet
step is a stutter of the ledger, a store an `Answer`, a save a `Decide`, a
judgement an `Award`. The first lemmas say what each UPDATE does to its row and
that every action keeps the types.

For the budget nothing is assumed beyond `ConstantsOK`. Sums are not folds but
cardinalities: a number is counted by as many pairs (`Totals`), so that what one UPDATE
does to a `SUM` follows from the theorems about finite sets, without induction.
`FundInv` says that months to come are untouched and past ones hold their charges
(`WindowsPast`), that a replay that runs was reserved when its unit was leased
(`RunsOwed`), that reserves cover what ran and what is still owed (`Funded`), and that
each month's budget was given to it (`BudgetsSet`). Most steps are `Steady`: they lease
nothing, claim nothing and end no month; one lemma each treats the carry, the hand-out,
the insert, the claim and the month's end. `CapacityHeld` speaks of every month and of
whichever budgets the owner set in it. For the carry `RollInv` adds what a lease request
between its reads knows of the month. That needs `QuietRollover`, and the run
`rollover_lost` shows that without it the code does lose a reserve: the two theorems
say that this interleaving is the only way to. `CompletionAgrees` needs that a unit is complete
exactly when its judgement counts enough checked attempts in the same batch, and that units
of a draft campaign are untouched (`DraftsUntouched`).

For the guard the assumption is `MaintenanceConstantsOK`: owners, deliveries
and the ordinary requests and checks are different processes, and only
deliveries may carry one invocation id among them. The rows exclude each other
(`RowsExclude`), and as long as nobody clears live work each process at work has
its row, in its mode (`GuardCoversWork`, `ModesFit`); together these give
`ExclusiveRunsAlone`. Two deliveries with one id could share a row and one could
remove the other's: the row of an admitted delivery is never removed
(`NeverAgain`), so the second is refused (`RunsOnce`). None of this needs the
processes to be few. For the evidence the invariant is that the health row names
the newest recorded run (`RowIsNewest`): the end of an older one then changes
nothing.

For backups the assumptions are `ImportsAssumption` and `BackupAssumption`. That no
deleted account returns is not inductive: a snapshot older than the deletion holds the
account, and it is the deletion record that takes it out again. `DInv` adds that what
was deleted or hidden is recorded, among the records at hand or, after a move, those of
the bundle (`DeletionsRecorded`), and that a team shown without its founder, here or in
any snapshot, was founded while its founder was being deleted and so never hidden
(`TeamsAccounted`): restored rows are cleared with the founder still there. Proofs only
become fewer, and a restoration leaves none. `BInv` says of a backup that `assured`
speaks of that its day is not old: a daily backup ends within the retention period, so
when it deletes what is old the backup of its own day stays; and objects under `inputs/`
and `shared/` are never deleted, so what a backup needs stays stored. The same
invariant gives `WorkIsLoadable`. That the rows never reserve more than the limit holds
because a snapshot is of rows that were within it and an import holds what it has
reserved (`SInv`). That an open unit reserves at least its size is about forms: after a
move, an input that came back compact may be needed by rows of the full form, and the
other way round. `FitInv` says that rows fit both what is stored and what the bundle may
bring back, and that an input which is not stored yet is missed by rows of the bundle
only. It rests on `CompactIsSmaller`: `compactInput` does not compare the two lengths,
and for an input smaller than its references a full row restored over the compact form
would reserve too little.

For the study the assumptions are `PanelAssumption`, `ReplayAssumption` and
`StudyAssumption`: the largest budget covers all searches, and the sets of
processes and results are arbitrary. What a runner or retry found missing is
still missing when it saves, because the lock is its own for as long as it, or its corpse, has
not been cleared away: that is `PanelInv` of `StudyProofs`. Replays,
evaluations and builds leave those files alone, so `Study` implements `Panel` and
inherits its theorems. What an evaluation read and found recorded is still
recorded (`ReadIsRecorded`); when it missed nothing it therefore holds exactly the
records, and every later one reads the same (`CompleteIsCurrent`). That a budget
is covered only when all its searches are recorded is a cardinality argument. That
a budget has a best result at all is shown by a smallest set of searches without
one (`SomeIsPreferred`); with it the earliest best of a larger budget is that of
the smaller, or better.

A replay reads records, attempts and audits one by one while runners and retries
work, so what it listed must not grow false before its report is written, or after.
`ReplayInv` says that each listed row is true of the files (`RowFits`): the original
and the attempt it read stand, by the theorems above, and the audit it rests on stays
the last of its target. The last holds because a target being executed has no audit with
an output (`TargetFits`), and nobody else can save one: a replay past `opening` is
the one the audit lock names, alive or dead (`LocksHeld`). Every audit but the last
was an attempt without output (`AuditFits`), so a mismatch stays the last for ever
and no row can call its target exact. For the archive (`ArchiveInv`), the loaded
reports cover every search, so nothing records any more and each file copied
later is still what the reports speak of; the rows of the copied replay report rest
on their own contents (`RowSound`), and `Verify` finds their audits among the copies.

For the annealing search the assumptions are `SearchBounds` and `SearchData`: the score table
has a whole number for every window of four letters, random draws are naturals, and
the alphabet, the texts, the keys, the budget and the sizes of steps are arbitrary.
`SearchInv` says that every checkpoint of the job, held, persisted, in the output buffer or
under a running call, is `Good`: its key and score are those of `path` after as
many proposals, its trace has the entries of the path so far, and its best key was
visited and is ahead of all others that were. A running call also has the plaintext
of its key at hand. One proposal keeps that for three reasons, each a lemma:
patching a plaintext is decoding the new key, and patching back the old one
(`Patching`, `Unpatching`); the windows outside `Affected` do not change, so
the difference over the affected ones is the difference of the full scores
(`Rescoring`); and the order of candidates is total and transitive, so the best of
the visited is kept by comparing with the best so far (`LeadsOn`). Sums over
windows and the path are recursive functions. What such a function computes is unfolded from
its definition (`Recursion`), and two of them are compared by looking at the least
place where they differ (`LeastOf`, `Agreement`), which needs no rule of induction.
Checkpoints of other jobs are outside the invariant: `CheckpointMatches` refuses them.

That a verification never disagrees is about determinism: a job has one end. `VerifyInv`
adds to `SearchInv` that every result, in the buffer or received, is that end (`Ended`):
of the annealing search a `Good` checkpoint when its budget is spent, all of which give the
same record because the path decides key and trace and the order of candidates decides the best
key (`FinishedAgree`); of the beam search the beam that levels lead to from `StartBeam`
(`Reached`), and two such beams are the same because the least level where they differ would
have the same beam before it (`LevelsAgree`). A running call is on the way there. The candidate
check of such a record is a matter of lengths and ranges (`FinishedHolds`, `BeamHolds`).
For the beam that needs `BeamFits`: each partial key is one of the job with no letter used
more than its share, so that a completion has as many places left as blanks: `PlacesFilled`
counts both, and the places are given out in order, one each (`CompleteValid`). What a sort
returns is shown of ranks: in a finite strict total order (`Orders`) each rank below the
cardinality is taken once (`RanksGrow`, `RanksFilled`), so `Ranked` lists each element once,
in order (`RankedIs`). `BeamFindsBest` rests on `Full`: a beam that never had to cut holds
every partial key whose known symbols are those of its level, once. Nothing is cut because such keys are
no more than all keys (`FewMet`), and nothing stays untried because the budget covers
all pairs of every level (`AllTried`); each key of the next level is a child of one of this
(`ParentMet`), and at the last level the partial keys are the valid keys (`FullEnds`).
`RoomForAll` is generous, and the deployed limits (23 letters, a width of at most 64)
never grant it: that part of the property is about the loops, the sorts and the completion of `beam`
for any alphabet and width, not about a campaign. Its other part, a valid key within the budget,
holds of every beam.

For generation the assumptions are `GenerationBounds` and `GenerationData`: seeds are
naturals, the numbers of a target and the statistics of a corpus are integers. The
statistics are otherwise any function of a landscape and a corpus, and units, targets and
layouts may be valid or not. `GenerationInv` says that every checkpoint, in memory, stored
or on its way, holds a first part of the seeds of a unit, each with the statistics of its
own corpus (`Sound`); of which unit, and with which distances, is not said, because a host
may bring back the work of another input or a damaged one (`DamagedSound`). What refuses
those is `finish`, which compares the input and recomputes each distance (`FinishWhole`).
A hosted seed is computed in a unit of its own, which is the science of the whole unit
(`SingleIsPart`). The hosted leader is chosen by distance and then by seed, the native one
is the first that is closer than those before: the same seed (`FirstClosestLeads`,
`ClosestIsFirst`). A distance is a sum over the rows of the precision matrix, a
recursive function whose type is shown by the least place at which it would fail
(`SumIsInt`). This proof found a mistake of the model: `ValidTarget` accepted a precision
matrix with more rows than there are statistics, which `vah-stats/src/lib.rs:195` refuses.

For the sweep the assumptions are `SweepBounds` and `SweepData`; the grids, the number of
threads, the landscape, the shrink factor, the number of levels, the deaths and what a
calibration is given are otherwise arbitrary. `SweepData` says that a grid has lists of
values, numbers where an axis is not of words, that no median is the missing one, and of
the first grid of a run that its values have no more decimals than are kept and are whole
on an axis that is declared whole. The code checks neither of the last two: `number`
rounds the values it makes, and would move a finer one beyond the end of its range.
`SweepInv` says of a level's threads that every index below the counter is at one
thread, was pushed once, or was dropped because a point failed (`PointsTaken`,
`PointsDone`); a run that joins without a failure therefore pushed each point once. The
entries, a concatenation of lists of at most one, are then those of `Complete`
(`SinglesFlatten`). `LedgerInv` says that the entries of a file are a first part of a
complete run of the grid in its header, whoever wrote it and died: one that has as many
entries as its grid has points is whole, which is all that `Fits` asks. That a hidden
point of the grid is recognised is about mixed radices: an index and its places determine
each other (`RestIs`, `IndexExists`, `PointOfIndex`), and the nearest value to one that
is on an axis is that value (`ClosestOnAxis`). For the refinement, `NarrowInv` says that
the level at work (`Working`) and each one reported look around the best point of the
one before: since clamping and rounding leave a value alone that is in the range and
rounded (`NumberIs`), that point is again one of the next grid, it has the same median
with as many replicates, and the best of the level is none worse. Where rounding goes is
shown from division alone (`RoundIs`, `RoundMonotone`).

Only model-checked:

- `RefusedOutputsStand` is refuted.
- `RolesKeepApart` and `ParagraphsStand` of `Manuscript`: its corpora come from `Transcription`, where the
  nested items of a transcription are RECURSIVE operators.
- Liveness under fairness is beyond the prover.

## 5. Plan

What is left, in this order; each module comes with its runs.

1. `Reports`: publication, withdrawal and revocation against manuscript
   campaigns; replaces the open choice of `Pause` in `Coordinator`.
2. `Client`: saved lease, checkpoint and result, stop, resume, two tabs;
   composed with an abstract server (`CreditLedger`), every finished result is
   submitted or still saved.
3. `Accounts`: provisioning, sign-in, membership, rate windows.
4. The statistical rules of `calibrate` over a ledger, and failing statements
   inside a guard.

`Search`, `WorkUnits`, `Generation`, `Sweep`, `Transcription`, `Manuscript`, `Imports` and
`Backup`, which were on this list, are done.

## 6. Not modelled, and why

- What a generator writes and what a fingerprint measures (`vah-generators`,
  `vah-stats`, `vah-naibbe`): floating-point functions without interaction, left open as
  `Statistics` and `Measured`. So are the training of the letter model and the arithmetic of target scales;
  of the latter the resamples are modelled.
- The rules, controls and acceptance of `calibrate`, `compare`, `golden`, `candidates` and
  `fingerprint`: they print what they compute from one input.
- Header fields, locus identifiers and page variables of a transcription, canonical
  JSON, schema validation, digests: data conversions; a digest is treated as the
  identity of its value, which is what its uses ask of it.
- Interruption of the kernel's commands other than by death: they handle none.
- Cookies, OAuth and the workflow token: library protocols; module `Maintenance`
  starts with an authenticated caller.
- The audit row of an owner action, written by a statement of its own after the action
  (`owner.ts:86`): nothing reads it, and a death in between leaves the action without one.
- Pages, packaging, static verifier, continuous integration: no state of the
  system.
- Failing database statements inside a live invocation: a failed statement ends
  the invocation here. `maintenance-guard.ts:23-30`, where a failure to record
  success is recorded as a failure of the run, is therefore not modelled: leasing then
  stays closed until the next run.
