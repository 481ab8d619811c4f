# MarkOrbit Data Engine: TLA+ specifications

The MarkOrbit data engine turns trademark source packages (CN, US Application, US
Assignment, US TTAB, further countries) and contact files into durable ClickHouse and
PostgreSQL data. Its correctness rests on what happens when an import is stopped in the
middle: which rows, checkpoints and ledger entries a dead process leaves, who finds them,
and what the next attempt keeps or redoes. These specifications model that part of the
code, `src/` being the reference: every definition is translated from the lines that
`PROJECT.json` maps it to.

Contents: [inventory](#inventory) · [modules](#modules) · [runs](#runs) ·
[fairness](#fairness) · [proofs](#proofs) ·
[what the code does not guarantee](#what-the-code-does-not-guarantee) ·
[not modelled](#not-modelled) · [plan](#plan)

## How to run

    tlc -config CnIngestSafe.cfg MCCnIngest     # a run of the table below
    tlapm CnIngestProofs.tla                    # the proofs of a module

`MC*.tla` are the modules TLC starts from, `*.cfg` the instances, `*Proofs.tla` the
proofs. `PROJECT.json` lists components, runs, mutants, hazards and theorems.

## Inventory

### Processes and shared state

* **Worker** (`app/worker.py`, one container, `restart: unless-stopped`): recovers the
  Admin queue when it starts, then loops: mutation lock, claim, execute, finish. Between
  tasks it runs the scheduled CN cycle.
* **API** (`app/main_core.py`, `app/admin_domain_tasks.py`, `app/contact_ingest/admin_api.py`):
  queues and stops domain tasks, starts CN scans, runs and retries in its own process, and
  imports contact files in background threads.
* **One-shot containers** (`scripts/run-cn.ps1`, `app/cn/guarded_run_once.py`,
  `app/cn/full_replay.py`, `app/cn/requeue_package.py`): the same pipeline from a terminal.
* **Host worker** (`app/us/target_bulk_host_worker_v2.py`, started again and again by a
  supervisor): prepares and executes the approved US bulk plans; each plan is run by child
  processes (`app/us/target_bulk_replay.py`) that outlive it.
* **US replay** (`app/us/replay_executor.py`, `app/us/jobs.py`): one-shot containers that
  ingest US Application packages; **country inference** (`app/contact_ingest/
  country_inference_work.py`): operator commands over the contact entities.

They share PostgreSQL (registry, job rows, checkpoints, ledgers, session advisory locks),
ClickHouse (rows; no transactions, so any multi-statement change can stop half way) and the
`incoming`/`archive` directories. Nothing else coordinates them: no queue broker, no leader.
An advisory lock belongs to a session and is freed by the server when the session ends.

### Components

| component | state | operations | what makes it correct |
|---|---|---|---|
| Admin task queue and worker loop | `control.job_run` rows, mutation lock | queue, stop, recover, claim, gate, package boundary, finish | one active task per domain, one mutating worker, a stop holds across crashes, every task ends |
| CN package ingestion | package status, raw stage, stage checkpoint, publish stages, publish checkpoint, range ledger, durable rows | lock, recover, select, resume or clean, parse, publish, accept, clean up, fail, requeue | SUCCESS means complete rows; nothing is computed from damaged rows; finished work is not redone; a retry converges |
| CN final publication | cutover markers, range ledger, rows per node and range | cut over, skip, mark running, write, mark success, assert complete | complete when finished, one mode per node, committed ranges not repeated |
| CN corpus replay and guard | package registry, files, cycles of several processes | scan, guard, one-shot / scheduled / retry / full replay, pick, archive, accept, fail | order by rank, one package at a time, COMPLETE is true, the corpus completes |
| Contact task queue | `contact.ingest_task`, incoming and archived files, import threads | discover, apply, batch apply, check, plan, import, archive, finish, start-up recovery | one import at a time, SUCCESS means imported and archived, no file lost |
| US Application replay | registry, frozen preflight, plan, files, fact rows | scan, recover, preflight, plan, choose, hash, publish, archive, accept, fail, stage sources | acceptance in rank order, rows and archive are the registered bytes, COMPLETE is true |
| US target bulk child | plan journal, package journal, staging tables, final tables | stage, commit table by table, verify, drop, resume | no INSERT twice, the stage lasts until the copy is verified, accepted means whole |
| US target bulk host tasks | task rows, plans, approvals, child | prepare, approve, run, stop, resume, recover, audit | fail closed after a restart, nothing runs unapproved, rows are true |
| US Assignment / TTAB replay | registry, plan | plan, ingest, recover | as for US Application |
| Contact country inference | run row, work-unit ledger, inference rows | start, resume, reconcile, select, commit, mark, audit, activate | nobody is skipped, nothing is evaluated twice, a shown country stays |
| Snapshot delta (IPOS), trademark framework, country stores, QCC / TSDR | snapshots, acquisition pages, load runs | acquire, compare, load | no page lost or doubled, a delta against the right predecessor |
| Work DAG, range and bucket planners | none (pure) | plan | order and cover |
| Gates, audits, acceptance, storage headroom | none (read-only verdicts) | evaluate | inputs of the modelled guards |
| Parsers, SQL, semantics, read APIs | none of their own | convert, query | data, not protocol |

### What is hard here

* A process dies between two writes to different stores: archive move and status write,
  rows and ledger, publish stage and checkpoint, mark_running and mark_success.
* Guards are evaluated outside the lock they protect (execution guard, SHA-256 check).
* Recovery decides from rows who is dead; overlapping processes and lost sessions make it
  wrong.
* Temporary rows have a TTL, checkpoints that vouch for them may not.
* Except blocks run the same cleanup as the success path, on a package that may be accepted.
* A statement outlives the client that sent it: the journal says INSERT_STARTED and nobody
  knows whether rows are still coming (US target bulk).
* A child process outlives the worker that waits for it and keeps the mutation lock.
* A decision is read once and used for hours: the frozen source preflight, the frozen bulk
  plan, the run row of the country inference read before its lock.

`PROJECT.json` lists each of these at its line (`hazards`) with the properties that look at
it.

## Modules

One module per component, each with its MC module and its proofs. The proofs of the two
components of `app/contact_ingest` share a module, `ContactProofs`, which extends both. Their
names differ for that reason: `CountryInference` has `CountrySpec`, `CountryTypeOK`, `Cmds`,
`cmd`, `fails`, `runLock` where the other modules have `Spec`, `TypeOK`, `Procs`, `proc`,
`faults`, `lock`.

| module | models | abstracts |
|---|---|---|
| `AdminTasks` | `app/admin_domain_tasks.py`, `app/worker.py` | the ingest calls of a task are one step (a package); gates are a nondeterministic verdict |
| `CnIngest` | `app/cn/ingest_m16.py`, `ingest.py`, `stage_resume.py`, `publish_subtasks.py`, `run_guard.py`, `requeue_package.py` | the rows of a table to none / part / full / dirty, durable rows to none / part / good / bad |
| `CnFinalPublish` | `app/cn/final_publish.py`, `publish_subtasks.py`, the `native_*` clients, `app/work_engine.py` | a range's rows to the set of modes that wrote them |
| `CnReplay` | `app/jobs.py`, `app/cn/full_replay.py`, `guarded_run_once.py`, `run_guard.py` | a package to its rank, an attempt to its status writes and file move |
| `ContactTasks` | `app/contact_ingest/task_queue.py`, `task_migrations.py`, `repository.py`, `admin_api.py` | a file to its content, contacts to the content they came from |
| `UsReplay` | `app/us/replay_executor.py`, `jobs.py`, `ingest.py`, `run_guard.py`, `source_preflight.py`, `stage_sources.py` | a package to its rank, a file to registered or other bytes, rows to content and batch |
| `UsTargetChild` | what `app/us/target_bulk_replay.py` promises its caller | a package to begun and accepted, a plan's journal to none / open / complete |
| `UsTargetCommit` | `app/us/target_bulk_replay.py` and the journals and staging it calls | rows of a table to a number of visible blocks |
| `UsTargetTasks` | `app/us/target_bulk_tasks.py`, `target_bulk_task_control.py`, `target_bulk_host_worker*.py`, the routes of `admin_task_api.py` | a plan to generation, repository commit, range and corpus size; a sealed file to its content |
| `CountryInference` | `app/contact_ingest/country_inference_work.py`, `country_inference_work_guard.py`, `country_inference_run_audit.py`, `country_inference_run_activate.py` | evidence to its verdict (safe, deferred, other), a fingerprint to the set of members |

How they fit together: the Admin task of `AdminTasks` ingests packages, one step each.
`CnReplay` opens that step: which package a cycle takes, and what the cycle makes of the
result. `CnIngest` opens the attempt at one package. `CnFinalPublish` opens the range tasks
of `CnIngest`. These modules do not share variables: each takes the other's part as the
nondeterministic outcome that part can produce.

The US target bulk is composed formally. `UsTargetChild` is the abstract specification of a
child operator: a lock, packages begun and accepted (the bridge first), a plan journal.
`UsTargetTasks` contains it (`Child == INSTANCE UsTargetChild WITH Plans <- ChildPlans, ...`):
the worker's child takes `Child!Step` steps, and goes on after the worker's death.
`UsTargetCommit`, the child in detail, implements it: `Contract` is the same module under a
refinement mapping (`begun` is the set of packages with a package journal, `accepted` of those
whose journal is COMPLETE, a plan's journal is OPEN unless COMPLETE); the run checks and
`UsTargetCommitProofs` proves `KeepsContract == Contract!Spec`. So what the task run assumes of a child is what the detailed
child does.

**AdminTasks.** `status`, `domain`, `kind`, `stop` and `startedAt` are columns of a job row,
`stopRows` the rows an open recovery transaction has locked, `pending` the packages a domain
has left. `QueueTask` and `RequestStop` are the API; `StartWorker`, `RecoverStopped`,
`RecoverRunning` (the two UPDATEs of the recovery, each with a READ COMMITTED snapshot of
its own), `AcquireGuard`, `ClaimTask`, `NothingToClaim`, `RunScheduledCn`, `PassGate`,
`BeforePackage`, `BeginPackage`, `ReplayComplete`, `PackageDone`, `FinishTask`, `FinishLost`
and `ReleaseGuard` are a worker, `Crash` its death.

**CnIngest.** One action per statement group that can stop alone: the lock and the
recovery, `Select`, `Enter` (which checkpoints are usable), `Start`, the two cleanups,
`Parse`, `Quality` (stage checkpoint), `BeginPublish` / `RefusePublish`, `PublishGoods`,
two materializations, `SavePublishCheckpoint`, the range tasks, `FinishPublish`, `Accept`,
the four deletes after SUCCESS, the except blocks (`FailStage`, `FailOutputs`,
`MarkPackageFailed`). `Fault` raises into the handler the code has at that place (`Handler`)
or kills the process. Around it: `Requeue`, checkpoint age, table TTL.

**CnFinalPublish.** `Begin` finds the checkpoint or not, `KeepMode` / `MarkerRunning` /
`MarkerSuccess` are the client of each node in the order they are built (the auxiliary one
first), then the nodes are published range by range and `Complete` runs the two completion
checks. A publication may be new or begun by the release before the cutover
(`OldPublication`). The seventeen `native_*` clients share one rule and are `Nodes`.

**CnReplay.** A cycle has an entry point (`kind`): scan, run, scheduled, retry, full replay,
full replay with repair, Admin continuation. `GuardClean`, `GuardRetry`, `GuardContinue` are
the modes of the execution guard, `Register` the scan, then `ingest_pending_cn` with limit 1
under the lock, then what the caller makes of the result.

**ContactTasks.** `Scan` is a discovery cycle (one transaction under an advisory lock).
A thread claims (`Claim`), hashes (`CheckSource`), reads again (`BuildPlan`), waits for the
apply lock, imports, archives and writes the outcome; operators change files at any time
(`ChangeFile`), processes die and start, an upgrade re-evaluates tasks.

**UsReplay.** A runner is a one-shot cycle, a retry cycle or the replay. The one-shot cycles
scan (`Scan`), take the session lock (`Lock`, `pg_try_advisory_lock`: a busy lock ends the
cycle), recover and list candidates (`Recover`), then choose the first package with a file
(`Choose`). The replay locks, recovers, freezes the preflight (`Preflight`) and for every
package plans again (`Plan`, `Blocked`), may be paused at the boundary, registers what it finds
(`Discover`) and works from the frozen location. From `Hash` on the ingestion is shared: SHA-256
against the registry, monotonic rank check, begin, batches of rows, archive move, SUCCESS, job
row; `CleanUp` and `MarkFailed` are the except block. `Arrive`, `Disturb`, `Restore` and `Stage`
are the files.

**UsTargetCommit.** One action per durable write of a child: the plan journal
(`OpenJournal`, `MarkRunning`), the package journal (`InitCanary` ... `MarkStaged`), the
commit of each table (journal INSERT_STARTED, send, count, journal COMMITTED), the
verification, the drop of the staging tables and the two completion marks. `Refused` collects
the checks that raise, place by place. The server is a process of its own: `ApplyBlock`,
`AbortInsert`, `Merge`.

**UsTargetTasks.** The API: `Ask` and `QueuePrepare` (RUN and CONTINUE, two queries),
`Approve`, `RequestStop`, `Resume`, `RecoverFinalAudit`. The worker: `Recover` (RUNNING rows of
the dead predecessor), `Claim`, `Prepare`, `OpenPlan`, `CheckStop`, `LaunchChild`, `Checkpoint`,
`FinalAudit` and their failures, `Crash`. The host: `NewSource` (a package arrives), `NewMain`
(the repository moves, which makes frozen plans refuse).

**CountryInference.** `StartNew`, `StartResume` and `StartActivation` are an operator's
commands; `TakeLock` / `LockBusy` follow, after the run row was read. `Reopen` is the
reconciliation of the ledger with the inference rows (`Reconciled`, `Partial`, `Disordered`),
`Select`, `MarkRunning`, `CommitBatch`, `MarkSuccess` the four transactions of a batch,
`TriggerAllows` the membership guard of the ledger, `Activate` the activation of a preview
whose audit (`IntegrityReady`) is clean, `ContactImport` a contact import at any time.

Operators whose comment begins with "Bug:" stand before the definition they imitate: each
is a plausible mistake, used by a mutant of `PROJECT.json` to show that a property notices.

## Runs

| run | instance | states | checks |
|---|---|---|---|
| `admin_two_workers` | 2 workers, 2 domains, 2 tasks, 2 packages, a crash, a lost outcome write | 3.1 M | `OneActivePerDomain`, `MutationExclusive`, `StopHonoured` |
| `admin_one_worker` | 1 worker, 2 crashes, every outcome write succeeds | 793 k | `EveryTaskFinishes` |
| `cn_ingest_safe` | 2 processes, 4 range tasks (one per source table), 3 faults, a requeue, TTL | 426 k | `SuccessIsComplete`, `NothingMixed`, `DurableWork`, `AcceptedRowsKept`, `OnlyAbandonedRecovered`, `InterruptedWorkEnds`, `RetryConverges` |
| `cn_error_after_accept` | errors in the cleanup after SUCCESS | | `AcceptedRowsKept` violated |
| `cn_publish_safe` | 4 nodes, 3 ranges, 3 stopped attempts, new and old publications | 13 k | `DoneIsPublished`, `OneMode`, `NoRework`, `Converges` |
| `cn_replay_two` | 2 runners of 3 kinds, 2 packages, a crash, a failure, a lost file | 804 k | `SuccessNotRepeated` |
| `cn_replay_one` | 1 runner, all 7 kinds, 3 packages, a crash, 2 failures, a lost file | 485 k | `OrderedReplay`, `CompleteIsComplete`, `CorpusCompletes` |
| `contact_safe` | 1 process, 2 threads, 2 contents, 2 paths, 2 file changes, a fault, a lost write, a crash, an upgrade | 290 k | `OneApply`, `SuccessIsDone`, `TakenIsImported`, `ApplyEnds` |
| `us_target_commit` | 2 plans that share the bridge, 2 tables, 2 crashes, 2 faults, a merge | 74 k | `InsertedOnce`, `StageUntilCommitted`, `AcceptedIsWhole`, `KeepsContract`, `Settles` |
| `us_target_tasks` | 2 tasks, 2 plans, a corpus of 3 that grows to 4, 2 repository commits, a fault | 1.4 M | `RowsAreTrue`, `StopHonoured`, `OperatorStarts`, `ApprovedPlanOnly`, `EveryRunEnds` |
| `us_replay` | 2 runners of 3 kinds, a baseline and a daily package, 2 batches, a fault, a crash, 2 one-shot cycles, a file disturbed | 624 k | `SuccessIsWhole`, `AcceptedInOrder`, `CompleteIsComplete`, `Settles` |
| `country_inference` | 2 processes, 2 runs (preview or apply, limited or not), 4 entities in batches of 2, 2 faults, an import | 5.7 M | `SuccessIsComplete`, `NeverReevaluated`, `ShownIsKept` |

Every module has a `TypeOK` (`CountryTypeOK` in `CountryInference`). It is proved; the runs do
not repeat it. The invariants `OneProcessing` (`CnReplay`) and `OnlyDiscovered`
(`ContactTasks`) are proved and not run.

What the four US and country runs show:

* `us_target_commit`: a child dies between any two writes, a statement it sent is applied in
  part, later, or never, and a merge removes rows a later package replaced. No INSERT is ever
  sent twice for a package and a table; a staged copy exists until the final rows are
  verified; a package whose journal is COMPLETE has all its rows (but for merged ones); and a plan
  that is launched again completes, unless an INSERT of unknown outcome or a merge leaves a
  package that the code hands to an operator (`Uncertain`).
* `us_target_tasks`: whatever state a dying worker leaves, the next one never mutates the
  target without a new operator decision (`OperatorStarts`), only the approved plan runs, no
  more than the child already decided on starts after a stop, a checkpoint and a SUCCESS are
  true of the target, and no row stays RUNNING.
* `us_replay`: replay, one-shot run and retry interleave with files that arrive, disappear
  or are replaced after the preflight was frozen.
* `country_inference`: two operators start, resume and activate at will while contacts are
  imported.

### Why the bounds are enough

* Two workers, runners or processes are the smallest number at which recovery can take
  something from a live process; the locks treat all others alike. Two threads likewise.
* Two tasks in two domains let a domain's task meet its own successor or another domain's.
  Three packages give a lower rank, the one at work and a higher one.
* In `cn_ingest_safe` each source table (raw, case, scope, party) has one range task, and
  four faults allow an attempt to stop in the publication, its retry to stop in the cleanup
  and a third to stop again.
* In `cn_publish_safe` two stage nodes, a node without a legacy ledger and the auxiliary
  node are the four rules of the code; three ranges give a first, a middle and a last one.
* In `us_target_commit` two plans name the same suffix package (the second was frozen by a
  later generation), so both journals of a package are shared between plans, and the suffix
  package is the later one whose rows can replace those of the bridge; two
  tables give a committed one and the one at work; one package has a table of two blocks, so
  that an INSERT can be partly visible, and one a table without rows.
* In `us_target_tasks` two tasks and two plans let an overtaken plan meet a newer one; a
  corpus that grows lets a frozen plan miss a package. Deaths, failures and moves of the
  repository share `MaxFaults`.
* In `us_replay` the first package is the historical baseline, the second the daily one that
  depends on it: each blocking rule of the plan occurs.
* In `country_inference` four entities in batches of two give a full batch, a resumed batch
  and a shrunken one; the third entity becomes a contact later, in the middle of a range.
* Two contents and two paths give duplicates, replacement and removal. The safety
  properties of this run are proved for every size (below).
* Bounds are in the guards of the actions and are constants named `Max...`.
* Workers and runners are symmetric in the runs that check safety only; runs with liveness
  properties use no symmetry.

Deadlock is checked everywhere but in `country_inference`, where the bounded number of runs
is used up in the end.

## Fairness

* Worker, runner and thread steps are weakly fair: containers restart (`docker-compose.yml`,
  `restart: unless-stopped`), the worker polls every two seconds, calls return or raise.
* `CnIngest!Fairness`: cycles begin again and normal cycles select the package infinitely
  often if they can (strong fairness, because a cycle of the other kind may take the lock
  in between). Faults and requeues are bounded, so they stop in the end.
* `CnIngest!Retries` and `ContactTasks!RetrySpec`, and the `resume` cycles of
  `CnReplay!FairSpec`: somebody keeps retrying what failed. The code leaves this to
  operators; it is a hypothesis of the properties that need it (`RetryConverges`,
  `CorpusCompletes`, `RetriedSucceeds`) and of no other.
* `CnReplay!FairSpec` also assumes that a lost file is delivered again.
* `UsTargetTasks!Fairness`: the worker (the supervisor starts the next one) and the exit of a
  child process. Nothing of operators: a task that waits for approval may wait for ever, a
  RUNNING one may not (`EveryRunEnds`).
* `UsTargetCommit!Fairness`: the child and the server's application of blocks are weakly
  fair; every plan is launched again infinitely often when the lock is free (strong: another
  plan's child takes the lock in between). That is the operator's resume, a hypothesis of
  `Settles` only.
* `UsReplay!Fairness`: runners go on, the operator puts files back and begins the replay again
  and does not pause it for ever (strong fairness of `Discover`, which follows the boundary
  where it may be paused). One-shot cycles are bounded (`MaxOneShots`): the try-lock is not
  queued, so an unbounded stream of them could starve the replay.
* `CountryInference` has no liveness property: its try-lock can be lost for ever, and several
  states need an operator (below).
* Nothing is assumed of operators in `AdminTasks` (`EveryTaskFinishes`), in
  `InterruptedWorkEnds` or in `ApplyEnds`.

Five liveness properties are conditional, because the code does not provide the condition
(see below): `RetryConverges` (publish-stage rows last until the retry), `Converges` (no
attempt stops between the two writes of the auxiliary marker), `ApplyEnds` (the outcome
write of an import does not fail; otherwise the task stays PROCESSING until a restart),
`UsTargetCommit!Settles` (no INSERT of unknown outcome, no merge) and `UsReplay!Settles` (no
package was passed over).

## Proofs

`tlapm` proves the following for every value of the constants that satisfies the module's
`ASSUME` (any number of workers, packages, ranges, files, faults, crashes). Each was checked
on a small instance first.

| module | theorem | states | hypotheses |
|---|---|---|---|
| `AdminTasksProofs` | `TypeCorrect`, `OneActive`, `Exclusive`, `StopIsHonoured` | `TypeOK`, `OneActivePerDomain`, `MutationExclusive`, `StopHonoured` | none |
| `CnIngestProofs` | `PipelineTypes`, `AcceptedIsComplete`, `DurableRowsAreSound`, `AcceptedRowsStay`, `CommittedWorkStays` | `TypeOK`, `SuccessIsComplete`, `NothingMixed`, `AcceptedRowsKept`, `DurableWork` | nothing raises after the SUCCESS write (`~ErrorsAfterAccept`) |
| | `AbandonedRecovered` | `OnlyAbandonedRecovered` | none (the lock's session lasts: `Spec`, not `LostSessionSpec`) |
| `CnFinalPublishProofs` | `PublishTypes`, `FinishedIsPublished`, `NoNodeSwitches`, `CommittedNotRepeated` | `TypeOK`, `DoneIsPublished`, `OneMode`, `NoRework` | none |
| `CnReplayProofs` | `ReplayTypes`, `AtMostOneProcessing`, `AcceptedNotRepeated` | `TypeOK`, `OneProcessing`, `SuccessNotRepeated` | none |
| | `ReplayIsOrdered`, `CompleteMeansComplete` | `OrderedReplay`, `CompleteIsComplete` | one runner at a time (`OneRunner`) |
| `ContactProofs` | `ContactTypes` | `TypeOK` of `ContactTasks` | none |
| | `OneImportAtATime` | `OneApply` | one API process |
| | `SuccessMeansDone`, `ImportedWasDiscovered`, `TakenWasImported` | `SuccessIsDone`, `OnlyDiscovered`, `TakenIsImported` | one API process; a file stays as it is during its import (`~FileChanges`) |
| | `CountryTypes`, `AcceptedCountriesAreKept` | `CountryTypeOK`, `ShownIsKept` | none |
| | `SuccessSkipsNobody`, `NobodyIsReevaluated` | `SuccessIsComplete`, `NeverReevaluated` | no run is resumed before its creator has tried the lock (`~EarlyResume`) |
| `UsTargetCommitProofs` | `CommitTypes`, `NoInsertRepeated`, `StagedCopyLasts`, `VerifiedIsWhole` | `TypeOK`, `InsertedOnce`, `StageUntilCommitted`, `AcceptedIsWhole` | none |
| | `Implements` | `KeepsContract`: the child implements `UsTargetChild` | none |
| `UsTargetTasksProofs` | `TaskTypes`, `RowsStayTrue`, `StopIsHonoured`, `ExecutionIsAskedFor`, `OnlyApprovedPlans` | `TypeOK`, `RowsAreTrue`, `StopHonoured`, `OperatorStarts`, `ApprovedPlanOnly` | none |
| `UsReplayProofs` | `ReplayTypes`, `NeverBehindLater`, `CompleteMeansComplete` | `TypeOK`, `AcceptedInOrder`, `CompleteIsComplete` | none |
| | `AcceptedStaysWhole` | `SuccessIsWhole` | nothing raises after the SUCCESS write (`~LateErrors`) |

The arguments:

* **AdminTasks.** None of the invariants is inductive alone. The strengthening adds that a
  worker inside the guard holds the lock, that an executing worker has a task and an
  outcome when it finishes, and (for the stop) that a package counted after the stop
  belongs to a stopped task and that no worker stands between a boundary check and a
  package of such a task. The recovery may requeue a stopped task, but its next boundary
  check finds the flag, so the count stays at one.
* **CnIngest.** What the rows are is a function of the place: `StageInv` and `PublishInv`
  say, place by place, what the raw stage, the publish stages and the ledger hold;
  `ControlInv` ties the place to the lock, the try block and the status; `CheckpointInv`
  says that checkpoints and ledger vouch only for what is there, and `RegisteredIsEmpty`
  that an untouched package has left nothing. A fault at any place needs only the last
  three, because the except blocks and the next attempt rely on nothing else: that is the
  recovery design, and `AbortProc` is its proof. The action properties follow from the same
  invariant: a place that writes durable rows belongs to an attempt that has not accepted
  the package; a task at `execute` is RUNNING in the ledger, so neither its success nor its
  failure touches a SUCCESS row; and outputs are deleted only without a publish checkpoint,
  when the ledger is empty. `OnlyAbandonedRecovered` needs less and holds also when errors
  follow SUCCESS: `GuardInv` says that a process in a cycle holds the lock and that none has
  a try block open at the recovery.
* **CnFinalPublish.** `OneMode` needs to know why a client decided as it did: native rows
  come with a SUCCESS marker, legacy rows with a checkpoint and, for the auxiliary node,
  with a ledger that has begun (`MarkerInv`); the mode of a built client agrees with the
  marker in the same way (`ModeInv`); before a marker is written the node has no legacy
  rows (`FreshInv`). `DoneIsPublished` follows from `ProgressInv`: everything before the
  attempt's position has rows in the node's own mode, written or found.
* **CnReplay.** The lock is held exactly inside the guard, and after recovery its holder
  knows the only PROCESSING package; candidates read under the lock stay unaccepted until
  it is released. For one runner two more parts: `BarrierInv` (past the guard nothing is
  FAILED or MISSING_FILE but what the call itself has met, and that is in its result) and
  `QueueInv` (the candidate list is the whole queue, and an empty result means an empty
  queue). Both are false for two runners, because the guard looks outside the lock; that is
  `CnReplayStaleGuard.cfg` below.
* **ContactTasks.** Three layers. Types. Then, with one process: threads are at work only
  in a process past its recovery, and the task of a thread at work is PROCESSING, so no
  claim and no scan takes it. Then, if files stay: from the hash check to the archive the
  file at the path is the task's content, the plan is that content, and it is imported
  before it is archived.
* **UsTargetCommit.** `InsertedOnce` is not inductive: that a resumed child does not send an
  INSERT again depends on what the journal said before it was sent. `TableInv` ties the three
  together, table by table: PENDING means not sent, not sent means no row anywhere, what is
  visible, on its way or merged never exceeds what the table has, and COMMITTED means that
  all of it has arrived and nothing is on its way. `PlaceInv` says what the journal of the
  package says at each place of the child, `JournalInv` what it says about tables and staging,
  `PlanInv` what a plan's journal says about its packages, and `ControlInv` that a child works
  on a package its plan has not completed, the bridge first. Server steps (a block applied, a
  statement aborted, a merge) touch one table and no journal. The refinement rests on the same
  invariant: the contract sees three things of the child, the packages begun, those
  accepted and the state of the plan journal; `StepContract` shows for each action that these
  stay or change as one action of `UsTargetChild` allows.
* **UsTargetTasks.** The child is its contract here. `SoundRow` and `TrueRow` are about one
  row; `WorkerInv` says that the row of a working worker stays RUNNING, with the approval it
  was claimed with and the checkpoint the worker wrote: a route changes no more of a RUNNING
  row than its stop flag, and recovery runs before a worker has claimed a task. `ExitInv` gives the checkpoint its truth (a child reports success only once
  its journal is COMPLETE, and the journal stays COMPLETE), `GrantInv` the execution its
  operator, `LateInv` the stop its bound: after the child that was already decided on, the
  next check finds the flag. `TypeOK` bounds the range of every frozen plan, so that a plan's
  packages are packages of the corpus.
* **UsReplay.** In two layers. Without a hypothesis: types, the lock, and `OrderInv` (the
  answer of the order check stays true until the SUCCESS write, because accepting needs the
  lock). With `~LateErrors`: `StatusInv`, `FileInv` and `RowsInv` say place by place what the
  package at work says, which bytes it is read from and which batches it has; `PackageInv`
  that only registered bytes are archived and a package never attempted has no rows. The scan
  and the file operations run beside the lock, and must keep every runner's part: a file may
  be lost or replaced under an attempt, but what is loaded was checked to be the registered
  bytes and only a file with these bytes is archived.

* **CountryInference.** Two layers as well. Without a hypothesis, `RunInv`: types, finite
  ledgers, at most one holder of the lock, and `BatchInv` (until it is committed, nobody in a
  batch shows a country, because committing and activating both need the lock), from which
  `ShownIsKept` follows. With `~EarlyResume`, `LedgerInv` says what the three tables mean
  together. `OrderInv`: the units of a run follow each other and only the last may be open.
  `CoverInv`: who has been a candidate all the time and lies before a unit is evaluated, and so
  is who lies in a unit that is SUCCESS or has a row. `OwnerInv`: every row lies in a unit
  of its run. `Loop` is the same from the process at work: everybody up to its cursor is
  evaluated, its batch leaves no steady candidate out, and every unit is either passed (SUCCESS,
  at or before the cursor) or the current one, which owns no row before the commit.
  A crash keeps the first three and forgets `Loop`; resuming has to
  establish it again from the ledger alone, which is what `resume_state`'s refusals are
  for: a ledger without a gap in its indices and with one open unit gives back the cursor, the
  index and the pending range (`ReopenLedgers`). `CreatorInv` is where `~EarlyResume` is used:
  a creator that gets the lock finds no unit of its run, so it may begin at the first entity.
  The lemmas below it are about the operators: the least and the greatest member of
  a set (`Least` uses that the naturals are well founded), the first k members (`FirstOfFacts`:
  a prefix, of at most k, empty only if there is nothing or k is 0, which is why an empty batch
  means the end), what rewriting a ledger returns, and what `resume_state` reads from it.

Only model-checked: the liveness properties, which are outside the prover's temporal reach.
Every invariant and every action property of the runs, and the refinement, is proved.

## What the code does not guarantee

One run expects a violation, `cn_error_after_accept`: it compares the code with a sentence
of the repository (quoted in `PROJECT.json`, `findings`). An error in the cleanup after the
SUCCESS write enters the except block, whose cleanup drops the publish checkpoint and then
deletes every durable row of the accepted package (`ingest.py:1824-1847`).

Further instances, kept as configurations because they show which hypotheses the results
above need. TLC reports the violation in each.

| configuration (module) | property | what happens |
|---|---|---|
| `AdminStopRace` (`MCAdminTasks`) | `StoppedNotRequeued` | a stop accepted between the two UPDATEs of the recovery is requeued, against the docstring at `admin_domain_tasks.py:190`; `StopHonoured` bounds the harm: its replay ends at the first boundary |
| `CnPublishWedge` (`MCCnFinalPublish`) | `Finishes` | an attempt stops between mark_running and mark_success of the auxiliary marker; the next one leaves the marker RUNNING and every completion check refuses it (`final_publish.py:299-313`) |
| `CnReplayMissing` (`MCCnReplay`) | `MissingIsBarrier` | a missing file is skipped inside one `ingest_pending_cn` call and a higher rank is ingested past it (`jobs.py:159-173`) |
| `ContactRetry` (`MCContactTasks`) | `RetriedSucceeds` | a process dies between the archive move and the SUCCESS write; the retry finds no file and ends as MISSING_FILE for good, although the import is committed (`task_queue.py:445-446`) |
| `UsLateError` (`MCUsReplay`) | `SuccessIsWhole` | an error after the SUCCESS write enters the except block, which deletes the rows of the accepted package |
| `CountryEarlyResume` (`MCCountryInference`) | `NeverReevaluated` | a run is resumed before its creator has tried the lock: both work on it, one after the other, from the same cursor |
| `CnErrorWedge` (`MCCnIngest`) | `RetryAccepts` | the same error as in `cn_error_after_accept`, between the deletes of the publish stages and the clearing of the checkpoint: every retry refuses the checkpoint (`ingest_m16.py:301`, against `:256-258`) |
| `CnLateExpiry` (`MCCnIngest`) | `NothingMixed` | publish-stage rows expire after their counts were compared; the publish checkpoint has no age limit (`ingest_m16.py:80`, against `:86-89`) |
| `CnRequeue` (`MCCnIngest`) | `RequeueReplays` | a requeued package is accepted from old checkpoints without the ZIP replay its message announces (`requeue_package.py:36-42`) |
| `CnLostSession` (`MCCnIngest`) | `OnlyAbandonedRecovered` | the lock's session ends under a live process and a second process recovers its package (`run_guard.py:61-66`) |
| `CnReplayStaleGuard` (`MCCnReplay`) | `OrderedReplay` | the guard is evaluated before the lock; a failure of another runner in between is not seen (`guarded_run_once.py:201`) |
| `ContactTwoApis` (`MCContactTasks`) | `OneApply` | the start-up recovery of a second API process fails the imports of a live one, and they can be started again (`task_migrations.py:66-75`) |
| `ContactChanged` (`MCContactTasks`) | `OnlyDiscovered` | a file replaced between its hash and its plan is imported under the old task (`task_queue.py:440-443`) |
| `ContactTaken` (`MCContactTasks`) | `TakenIsImported` | a file dropped under the same name while the import runs is archived unimported (`task_queue.py:445`) |

Behaviour of the US and country modules that their properties are stated around, because the
code allows it:

* US replay: a package that was missing, or registered late, is passed over by the one-shot
  cycles; afterwards the monotonic check refuses it for ever and the plan stays blocked
  (`PassedOver`).
* Target bulk tasks: RUN and CONTINUE look for a resumable task outside the queue lock, and
  `Resume` takes none, so two live tasks are possible. A bounded batch that does not reach
  the end of the corpus cannot pass the final audit, and while it is resumable no new RUN or
  CONTINUE is accepted. A plan overtaken by a larger corpus fails its audit until
  `RecoverFinalAudit`.
* Target bulk child: merges remove rows of earlier packages once a later one has newer rows,
  after which the cardinality checks of the next child refuse the bridge, although the comment
  at `target_canary_journal.py:60-62` says that acceptance does not race merges. An INSERT_STARTED
  table with a part of its rows is refused until somebody reconciles it by hand.
* Country inference: "New work refuses to start while another" run is unfinished
  (`country_inference_work.py:670`) is checked before the lock, so two starters can both pass
  it. A resume reads the status before the lock and can set a SUCCESS run back to RUNNING.
  Two such runs take rows from each other (`last_run_id`), and the audit of the older fails. A
  run whose ledger is partial or has drifted blocks all new runs. An import between the
  SELECT of a batch and its fingerprint makes a later resume refuse for ever.

## Not modelled

`PROJECT.json` lists every component with the reason. In short: parsers, SQL text, column
mapping, date and status rules, read APIs and reports have no protocol state. Within the
modelled components:

* CnIngest: quality issues, entity resolution, telemetry; `job_run` rows of an attempt
  (nothing reads them); the archive move (in `CnReplay`).
* CnFinalPublish: a change of the SQL text between attempts, which changes task keys; the
  content of the range plan (same stage, same plan).
* CnReplay: the rules of the input policy and the clean-replay preflight (a verdict).
* ContactTasks: the command-line import, which bypasses the queue; the rows an import
  writes, beyond whether its transaction committed.
* UsReplay: nobody replaces a file while it is being parsed; changed bytes occur only for
  registered packages; the lock's session is not lost; the semantic content of a batch.
* UsTargetCommit: the lost session of the mutation lock; the content of rows; capacity, schema
  and storage checks (one `Fault`).
* UsTargetTasks: the loop mode of the v2 worker and two concurrent host workers (the
  supervisor starts one worker at a time); the bound of a CONTINUE (a RUN that is
  bounded stands for both); `target_bulk_acceptance_bridge.py`; the stage 1 and 2 canary tools.
* CountryInference: the V1 command `run_country_inference`; what the evidence rules conclude (an
  arbitrary function, `Evidence`); entities go from absent to unknown to sourced and not back.
  `EarlyResume = FALSE` because a run id is printed only once the run has worked.
* US Assignment and TTAB replay follow the US Application design with tables of their own.
* ClickHouse and PostgreSQL are external: a statement is atomic, a group of ClickHouse
  statements is not, a PostgreSQL transaction is, advisory locks end with their session.

The mapped lines are a small share of the implementation, and most of the rest has no
behaviour that a state machine can say anything about: fact SQL, column maps, XML parsers, read
models and reports, audits that read and print, and some sixty activation scripts of the form
"count, create, insert, count". The components that coordinate processes, retries and stores
are the ones modelled; the largest left are the US Assignment and TTAB replays, the
snapshot delta and the paged acquisition.

## Plan

1. **WorkEngine**: an abstract ledger of units (committed units are never redone, done means
   all committed), implemented by the range tasks of `CnIngest` and `CnFinalPublish`, and by
   the work units of `CountryInference`.
2. **SnapshotDelta** and the paged acquisition of the trademark framework; the US Assignment and
   TTAB replays.
3. **RangePlanner**: the bounds of the range tasks cover every row exactly once, against a
   reference definition.
