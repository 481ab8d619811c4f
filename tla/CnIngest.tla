------------------------------ MODULE CnIngest ------------------------------
(***************************************************************************)
(* One CN source package across its ingestion attempts: app/cn/ingest_m16  *)
(* on top of app/cn/ingest and app/cn/stage_resume, driven by              *)
(* ingest_pending_cn of app/jobs.                                          *)
(*                                                                         *)
(* An attempt parses the ZIP into raw stage tables, checkpoints the stage, *)
(* publishes the goods, materializes three publish-stage tables,           *)
(* checkpoints those, runs the final publish as a ledger of range tasks    *)
(* and accepts the package; then it drops the temporary data.  Any call    *)
(* may raise and the process may die anywhere; the next attempt decides    *)
(* from the checkpoints and the ledger what to keep and what to replay.    *)
(* Rows live in ClickHouse (no transactions), checkpoints and ledger in    *)
(* PostgreSQL.  A table's rows of this package are abstracted to none,     *)
(* part, full, or dirty (rows of two parses on top of each other).         *)
(***************************************************************************)
EXTENDS Integers

CONSTANTS
    Procs,              \* processes that may run an ingestion cycle
    NoProc,             \* the ingestion lock is free
    NumTasks,           \* range tasks of the final publish
    StageTable,         \* the table each range task reads
    MaxFaults,          \* bound: calls that raise and processes that die
    MaxRequeues,        \* bound: operator requeues
    MaxLostSessions,    \* bound: lock sessions lost under a live process
    Expiry,             \* whether a failed package may wait for the 7-day table TTL
    ErrorsAfterAccept   \* whether a call may raise between SUCCESS and the return

ASSUME CnConstants ==
    /\ NoProc \notin Procs
    /\ NumTasks \in Nat /\ MaxFaults \in Nat
    /\ StageTable \in [1..NumTasks -> {"case", "scope", "party", "raw"}]
    /\ MaxRequeues \in Nat /\ MaxLostSessions \in Nat
    /\ Expiry \in BOOLEAN /\ ErrorsAfterAccept \in BOOLEAN

VARIABLES
    status,       \* control.source_package.status
    lock,         \* holder of the advisory lock markorbit:cn:package-ingestion
    pc,           \* where each process is
    retrying,     \* argument of ingest_cn_package
    resuming,     \* the attempt runs resume_staged_package, not the legacy path
    trying,       \* the attempt is inside its try block, not its except block
    finalResume,  \* the publish started from a publish checkpoint
    task,         \* the range task the publish has reached
    stage,        \* raw stage rows
    stageCkpt,    \* stage checkpoint: {} or the row counts it recorded
    ckptAged,     \* the stage checkpoint is older than CHECKPOINT_MAX_AGE
    pub,          \* publish-stage rows, by table
    pubCkpt,      \* publish checkpoint: {} or the row counts it recorded
    ledger,       \* control.cn_publish_subtask.status of each range task
    goods,        \* durable goods rows
    out,          \* durable rows of each range task
    mustReplay,   \* history: requeued and not parsed since
    faults, requeues, lostSessions

procVars == <<pc, retrying, resuming, trying, finalResume, task>>
stageVars == <<stage, stageCkpt, ckptAged>>
pubVars == <<pub, pubCkpt, ledger>>
outVars == <<goods, out>>
dataVars == <<stageVars, pubVars, outVars>>
boundVars == <<faults, requeues, lostSessions>>
vars == <<status, lock, procVars, dataVars, mustReplay, boundVars>>

Tasks == 1..NumTasks
PUBLISH_STAGE_TABLES == {"case", "scope", "party"}
Rows == {"none", "part", "full", "dirty"}
Durable == {"none", "part", "good", "bad"}
AllRows(r) == [t \in PUBLISH_STAGE_TABLES |-> r]
NoLedger == [i \in Tasks |-> "none"]
NoOutputs == [i \in Tasks |-> "none"]

\* Statuses ingest_pending_cn selects in a normal and in a retry cycle.
NormalCandidates == {"INTERRUPTED", "REGISTERED"}
RetryCandidates == {"INTERRUPTED", "FAILED"}
Statuses == {"REGISTERED", "PROCESSING", "INTERRUPTED", "FAILED", "SUCCESS"}

Dropping == {"dropStage", "dropPublishStages", "dropPublishCheckpoint",
             "dropStageCheckpoint"}
Pcs == {"idle", "recover", "select", "enter", "start", "cleanStage",
        "cleanOutputs", "parse", "quality", "publish", "goods",
        "materializeCase", "materializeParty", "checkpoint", "range", "execute",
        "accept", "failStage", "failOutputs", "failed", "release"}
       \cup Dropping

Init ==
    /\ status = "REGISTERED"
    /\ lock = NoProc
    /\ pc = [p \in Procs |-> "idle"]
    /\ retrying = [p \in Procs |-> FALSE]
    /\ resuming = [p \in Procs |-> FALSE]
    /\ trying = [p \in Procs |-> FALSE]
    /\ finalResume = [p \in Procs |-> FALSE]
    /\ task = [p \in Procs |-> 1]
    /\ stage = "none" /\ stageCkpt = {} /\ ckptAged = FALSE
    /\ pub = AllRows("none") /\ pubCkpt = {} /\ ledger = NoLedger
    /\ goods = "none" /\ out = NoOutputs
    /\ mustReplay = FALSE
    /\ faults = 0 /\ requeues = 0 /\ lostSessions = 0

-----------------------------------------------------------------------------
(* Control helpers: going on, raising, dying.                              *)

Goto(p, l) == pc' = [pc EXCEPT ![p] = l]

\* Where an exception raised at the process's present place is handled.  In the
\* try block it enters the except block, which swallows its own errors; before
\* the try block it leaves ingest_cn_package.
Handler(p) ==
    CASE trying[p] -> IF resuming[p] THEN "failOutputs" ELSE "failStage"
      [] ~trying[p] /\ pc[p] \in {"failStage"} \cup Dropping -> "failOutputs"
      [] ~trying[p] /\ pc[p] = "failOutputs" -> "failed"
      [] OTHER -> "release"

Raise(p) ==
    /\ pc[p] \in Dropping /\ trying[p] => ErrorsAfterAccept
    /\ Goto(p, Handler(p))
    /\ trying' = [trying EXCEPT ![p] = FALSE]
    /\ UNCHANGED <<lock, retrying, resuming, finalResume, task>>

\* The cycle's local state is gone.
EndCycle(p) ==
    /\ Goto(p, "idle")
    /\ retrying' = [retrying EXCEPT ![p] = FALSE]
    /\ resuming' = [resuming EXCEPT ![p] = FALSE]
    /\ trying' = [trying EXCEPT ![p] = FALSE]
    /\ finalResume' = [finalResume EXCEPT ![p] = FALSE]
    /\ task' = [task EXCEPT ![p] = 1]

\* The process dies; PostgreSQL ends its session and frees the lock.
Die(p) ==
    /\ lock' = IF lock = p THEN NoProc ELSE lock
    /\ EndCycle(p)

Fault(p) ==
    /\ faults < MaxFaults
    /\ faults' = faults + 1
    /\ Raise(p) \/ Die(p)
    /\ UNCHANGED <<requeues, lostSessions>>

\* A step that succeeds: the process moves on to l.
Continue(p, l) ==
    /\ Goto(p, l)
    /\ UNCHANGED <<lock, retrying, resuming, trying, finalResume, task, boundVars>>

\* A statement raises, or the process dies, before it changed anything.
Interrupt(p) ==
    /\ pc[p] \notin {"idle", "release"}
    /\ Fault(p)
    /\ UNCHANGED <<status, dataVars, mustReplay>>

\* Rows left by a multi-statement delete that stopped in the middle.
Torn(r) == IF r = "none" THEN "none" ELSE "part"

-----------------------------------------------------------------------------
(* The ingestion cycle: lock, recovery, selection.                         *)

\* Bug: the result of pg_try_advisory_lock is not looked at.
LockIgnored == TRUE

LockIsFree == lock = NoProc

\* cn_ingestion_guard: pg_try_advisory_lock; the loser reports busy.
Acquire(p) ==
    /\ pc[p] = "idle"
    /\ LockIsFree
    /\ lock' = p
    /\ Goto(p, "recover")
    /\ UNCHANGED <<status, retrying, resuming, trying, finalResume, task,
                   dataVars, mustReplay, boundVars>>

\* Bug: the orphaned package is not recovered.
RecoverNothing(p) ==
    /\ pc[p] = "recover"
    /\ Continue(p, "select")
    /\ UNCHANGED <<status, dataVars, mustReplay>>

\* recover_interrupted_cn_ingestions.
Recover(p) ==
    /\ pc[p] = "recover"
    /\ status' = IF status = "PROCESSING" THEN "INTERRUPTED" ELSE status
    /\ Continue(p, "select")
    /\ UNCHANGED <<dataVars, mustReplay>>

\* pending_packages finds the package in a cycle with these candidates.
Select(p, candidates) ==
    /\ pc[p] = "select"
    /\ status \in candidates
    /\ retrying' = [retrying EXCEPT ![p] = status # "REGISTERED"]
    /\ Goto(p, "enter")
    /\ UNCHANGED <<status, lock, resuming, trying, finalResume, task, dataVars,
                   mustReplay, boundVars>>

\* The package is not a candidate of this cycle.
SelectNothing(p) ==
    /\ pc[p] = "select"
    /\ ~ (status \in NormalCandidates \cap RetryCandidates)
    /\ Continue(p, "release")
    /\ UNCHANGED <<status, dataVars, mustReplay>>

\* The finally block of cn_ingestion_guard.
Release(p) ==
    /\ pc[p] = "release"
    /\ lock' = IF lock = p THEN NoProc ELSE lock
    /\ EndCycle(p)
    /\ UNCHANGED <<status, dataVars, mustReplay, boundVars>>

-----------------------------------------------------------------------------
(* Checkpoints.                                                            *)

\* load_stage_checkpoint: an aged row loads as None.
LoadStageCheckpoint == IF ckptAged THEN {} ELSE stageCkpt

ClearStageCheckpoint == stageCkpt' = {} /\ ckptAged' = FALSE

\* Bug: the range tasks of the package stay in the ledger.
ClearCheckpointOnly == pubCkpt' = {} /\ UNCHANGED ledger

\* clear_publish_checkpoint: ledger and checkpoint in one transaction.
ClearPublishCheckpoint == pubCkpt' = {} /\ ledger' = NoLedger

HasPublishCheckpoint == pubCkpt # {}

\* Bug: the recorded counts are not compared with the tables.
PublishCheckpointAssumedUsable == TRUE

\* publish_checkpoint_is_usable: the recorded counts are the present ones.
PublishCheckpointIsUsable == pub \in pubCkpt

\* Entry of ingest_m16.ingest_cn_package: resume from a usable stage
\* checkpoint, otherwise drop it and take the legacy path; a package that was
\* never tried also starts without a publish checkpoint.
Enter(p) ==
    /\ pc[p] = "enter"
    /\ LET usable == retrying[p] /\ stage \in LoadStageCheckpoint
       IN  /\ resuming' = [resuming EXCEPT ![p] = usable]
           /\ IF usable THEN UNCHANGED <<stageCkpt, ckptAged>>
              ELSE ClearStageCheckpoint
    /\ IF retrying[p] THEN UNCHANGED <<pubCkpt, ledger>> ELSE ClearPublishCheckpoint
    /\ trying' = [trying EXCEPT ![p] = TRUE]
    /\ Goto(p, "start")
    /\ UNCHANGED <<status, lock, retrying, finalResume, task, stage, pub,
                   outVars, mustReplay, boundVars>>

\* The status write that opens the try block of both paths.
Start(p) ==
    /\ pc[p] = "start"
    /\ status' = "PROCESSING"
    /\ Continue(p, IF resuming[p] THEN "cleanOutputs"
                   ELSE IF retrying[p] THEN "cleanStage" ELSE "parse")
    /\ UNCHANGED <<dataVars, mustReplay>>

-----------------------------------------------------------------------------
(* Cleaning what an earlier attempt left.                                  *)

\* Deleting the raw stage rows of the package, table by table.
DeleteStage(p, next) ==
    \/ stage' = "none" /\ Continue(p, next)
    \/ stage' = Torn(stage) /\ Fault(p)

\* checkpoint_aware_stage_cleanup when the status is not SUCCESS.
CleanStageKeepingCheckpoint(p, next) ==
    /\ IF LoadStageCheckpoint # {}
       THEN UNCHANGED stage /\ Continue(p, next)
       ELSE DeleteStage(p, next)
    /\ UNCHANGED <<status, stageCkpt, ckptAged, pubVars, outVars, mustReplay>>

CleanStage(p) ==
    /\ pc[p] = "cleanStage"
    /\ CleanStageKeepingCheckpoint(p, "cleanOutputs")

\* Deletes of the durable rows, then of the publish stages.
DeleteOutputs(p, next) ==
    \/ /\ goods' = "none" /\ out' = NoOutputs /\ pub' = AllRows("none")
       /\ Continue(p, next)
    \/ /\ out' = [i \in Tasks |-> Torn(out[i])]
       /\ \/ UNCHANGED <<goods, pub>>
          \/ goods' = Torn(goods) /\ pub' = [t \in PUBLISH_STAGE_TABLES |-> Torn(pub[t])]
       /\ Fault(p)

\* _cleanup_partial_outputs_m16: nothing is deleted once final-publish
\* progress exists.
CleanPartialOutputs(p, next) ==
    /\ IF HasPublishCheckpoint
       THEN UNCHANGED <<goods, out, pub>> /\ Continue(p, next)
       ELSE DeleteOutputs(p, next)
    /\ UNCHANGED <<status, stageVars, pubCkpt, ledger, mustReplay>>

CleanOutputs(p) ==
    /\ pc[p] = "cleanOutputs"
    /\ CleanPartialOutputs(p, IF resuming[p] THEN "quality" ELSE "parse")

-----------------------------------------------------------------------------
(* Parsing and publishing.                                                 *)

\* Rows written on top of r by a complete, and by an interrupted, write.
Written(r) == IF r = "none" THEN "full" ELSE "dirty"
HalfWritten(r) == IF r = "none" THEN "part" ELSE "dirty"

\* The parse loop over the ZIP members up to writer.close().
Parse(p) ==
    /\ pc[p] = "parse"
    /\ mustReplay' = FALSE
    /\ \/ stage' = Written(stage) /\ Continue(p, "quality")
       \/ stage' = HalfWritten(stage) /\ Fault(p)
    /\ UNCHANGED <<status, stageCkpt, ckptAged, pubVars, outVars>>

\* bounded_quality: the stage boundary is recorded unless a checkpoint loads;
\* capture_stage_snapshot refuses an empty stage.
Quality(p) ==
    /\ pc[p] = "quality"
    /\ IF LoadStageCheckpoint # {}
       THEN Continue(p, "publish") /\ UNCHANGED <<stageCkpt, ckptAged>>
       ELSE IF stage = "none"
       THEN Raise(p) /\ UNCHANGED <<stageCkpt, ckptAged, boundVars>>
       ELSE Continue(p, "publish") /\ stageCkpt' = {stage} /\ ckptAged' = FALSE
    /\ UNCHANGED <<status, stage, pubVars, outVars, mustReplay>>

FirstTask == 1

\* Beginning of _publish_m16: continue the final publish from a usable
\* checkpoint; without a checkpoint publish from the beginning.
BeginPublish(p) ==
    /\ pc[p] = "publish"
    /\ HasPublishCheckpoint => PublishCheckpointIsUsable
    /\ finalResume' = [finalResume EXCEPT ![p] = HasPublishCheckpoint]
    /\ task' = [task EXCEPT ![p] = FirstTask]
    /\ Goto(p, IF HasPublishCheckpoint THEN "range" ELSE "goods")
    /\ UNCHANGED <<status, lock, retrying, resuming, trying, dataVars,
                   mustReplay, boundVars>>

\* The checkpoint exists but the counts no longer match: the code raises.  It
\* is not a fault of the environment, so no fault is counted.
RefusePublish(p) ==
    /\ pc[p] = "publish"
    /\ HasPublishCheckpoint /\ ~PublishCheckpointIsUsable
    /\ Raise(p)
    /\ UNCHANGED <<status, dataVars, mustReplay, boundVars>>

\* Durable rows computed from source rows s on top of durable rows r.
Published(r, s) == IF s = "full" /\ r # "bad" THEN "good" ELSE "bad"

\* publish_goods_lifecycle: chunk by chunk, the durable goods rows and the
\* scope publish stage.  Goods deltas are computed against the current rows, so
\* they need a clean start; so does the scope stage, which is not cleaned here.
PublishGoods(p) ==
    /\ pc[p] = "goods"
    /\ \/ /\ goods' = IF goods = "none" THEN Published(goods, stage) ELSE "bad"
          /\ pub' = [pub EXCEPT !["scope"] = IF stage = "full" THEN Written(@) ELSE "dirty"]
          /\ Continue(p, "materializeCase")
       \/ /\ goods' = IF goods = "none" /\ stage = "full" THEN "part" ELSE "bad"
          /\ pub' = [pub EXCEPT !["scope"] = HalfWritten(@)]
          /\ Fault(p)
    /\ UNCHANGED <<status, stageVars, pubCkpt, ledger, out, mustReplay>>

\* materialize_case_publish_stage and materialize_party_publish_stage delete
\* their own rows first.
Materialize(p, here, t, next) ==
    /\ pc[p] = here
    /\ \/ pub' = [pub EXCEPT ![t] = stage] /\ Continue(p, next)
       \/ pub' = [pub EXCEPT ![t] = "part"] /\ Fault(p)
    /\ UNCHANGED <<status, stageVars, pubCkpt, ledger, outVars, mustReplay>>

MaterializeCase(p) == Materialize(p, "materializeCase", "case", "materializeParty")
MaterializeParty(p) == Materialize(p, "materializeParty", "party", "checkpoint")

\* capture_publish_stage_counts and save_publish_checkpoint.
SavePublishCheckpoint(p) ==
    /\ pc[p] = "checkpoint"
    /\ pubCkpt' = {pub}
    /\ Continue(p, "range")
    /\ UNCHANGED <<status, stageVars, pub, ledger, outVars, mustReplay>>

\* Bug: only tasks that never ran or were interrupted are run.
NeedsRunUnlessFailed(i) == ledger[i] \in {"none", "RUNNING"}

\* Bug: the ledger is not consulted.
NeedsRunAlways(i) == TRUE

NeedsRun(i) == ledger[i] # "SUCCESS"

NextTask(p) == task' = [task EXCEPT ![p] = @ + 1]

\* is_success: the range was committed by an earlier attempt.
SkipRange(p) ==
    /\ pc[p] = "range" /\ task[p] \in Tasks
    /\ ~NeedsRun(task[p])
    /\ NextTask(p)
    /\ UNCHANGED <<status, lock, pc, retrying, resuming, trying, finalResume,
                   dataVars, mustReplay, boundVars>>

MarkRunning(p) ==
    /\ pc[p] = "range" /\ task[p] \in Tasks
    /\ NeedsRun(task[p])
    /\ ledger' = [ledger EXCEPT ![task[p]] = "RUNNING"]
    /\ Continue(p, "execute")
    /\ UNCHANGED <<status, stageVars, pub, pubCkpt, outVars, mustReplay>>

\* The rows a range task reads: a publish stage, or (the priority, Madrid and
\* agent nodes) the raw stage.
Source(i) == IF StageTable[i] = "raw" THEN stage ELSE pub[StageTable[i]]

\* The range INSERT, then mark_success.  Its rows replace equal keys, so it can
\* be repeated over rows of an interrupted run of itself.
ExecuteRange(p) ==
    /\ pc[p] = "execute"
    /\ ledger' = [ledger EXCEPT ![task[p]] = "SUCCESS"]
    /\ out' = [out EXCEPT ![task[p]] = Published(@, Source(task[p]))]
    /\ NextTask(p)
    /\ Goto(p, "range")
    /\ UNCHANGED <<status, lock, retrying, resuming, trying, finalResume,
                   stageVars, pub, pubCkpt, goods, mustReplay, boundVars>>

\* The range INSERT fails or is cut off half way: mark_failed may or may not be
\* reached; a row that is not marked stays RUNNING.
FailRange(p) ==
    /\ pc[p] = "execute"
    /\ \E s \in {"RUNNING", "FAILED"} : ledger' = [ledger EXCEPT ![task[p]] = s]
    /\ out' = [out EXCEPT ![task[p]] =
                 IF Published(@, Source(task[p])) = "bad" THEN "bad"
                 ELSE IF @ = "good" THEN "good" ELSE "part"]
    /\ Fault(p)
    /\ UNCHANGED <<status, stageVars, pub, pubCkpt, goods, mustReplay>>

\* assert_complete of the ledger.
LedgerComplete == \A i \in Tasks : ledger[i] \notin {"RUNNING", "FAILED"}

\* All commands were issued: the ledger decides.
FinishPublish(p) ==
    /\ pc[p] = "range" /\ task[p] \notin Tasks
    /\ IF LedgerComplete THEN Continue(p, "accept")
       ELSE Raise(p) /\ UNCHANGED boundVars
    /\ UNCHANGED <<status, dataVars, mustReplay>>

\* _archive_package and the SUCCESS status.
Accept(p) ==
    /\ pc[p] = "accept"
    /\ status' = "SUCCESS"
    /\ Continue(p, "dropStage")
    /\ UNCHANGED <<dataVars, mustReplay>>

-----------------------------------------------------------------------------
(* checkpoint_aware_stage_cleanup on SUCCESS, one statement after another. *)

DropStage(p) ==
    /\ pc[p] = "dropStage"
    /\ DeleteStage(p, "dropPublishStages")
    /\ UNCHANGED <<status, stageCkpt, ckptAged, pubVars, outVars, mustReplay>>

\* Bug: cleanup_goods_outputs, which also deletes the durable goods, is called
\* in place of cleanup_scope_publish_stage.
DropGoodsOutputs(p) ==
    /\ pc[p] = "dropPublishStages"
    /\ pub' = AllRows("none")
    /\ goods' = "none"
    /\ Continue(p, "dropPublishCheckpoint")
    /\ UNCHANGED <<status, stageVars, pubCkpt, ledger, out, mustReplay>>

\* The case, scope and party stages in turn.
DropPublishStages(p) ==
    /\ pc[p] = "dropPublishStages"
    /\ \/ pub' = AllRows("none") /\ Continue(p, "dropPublishCheckpoint")
       \/ /\ \E T \in {{"case"}, {"case", "scope"}} :
               pub' = [t \in PUBLISH_STAGE_TABLES |-> IF t \in T THEN "none" ELSE pub[t]]
          /\ Fault(p)
    /\ UNCHANGED <<status, stageVars, pubCkpt, ledger, outVars, mustReplay>>

DropPublishCheckpoint(p) ==
    /\ pc[p] = "dropPublishCheckpoint"
    /\ ClearPublishCheckpoint
    /\ Continue(p, "dropStageCheckpoint")
    /\ UNCHANGED <<status, stageVars, pub, outVars, mustReplay>>

DropStageCheckpoint(p) ==
    /\ pc[p] = "dropStageCheckpoint"
    /\ ClearStageCheckpoint
    /\ Continue(p, IF trying[p] THEN "release" ELSE "failOutputs")
    /\ UNCHANGED <<status, stage, pubVars, outVars, mustReplay>>

-----------------------------------------------------------------------------
(* The except blocks.                                                      *)

\* Legacy path: _cleanup_stage, which looks at the status again.
FailStage(p) ==
    /\ pc[p] = "failStage"
    /\ IF status = "SUCCESS"
       THEN Continue(p, "dropStage") /\ UNCHANGED <<status, dataVars, mustReplay>>
       ELSE CleanStageKeepingCheckpoint(p, "failOutputs")

FailOutputs(p) ==
    /\ pc[p] = "failOutputs"
    /\ CleanPartialOutputs(p, "failed")

MarkPackageFailed(p) ==
    /\ pc[p] = "failed"
    /\ status' = "FAILED"
    /\ Continue(p, "release")
    /\ UNCHANGED <<dataVars, mustReplay>>

-----------------------------------------------------------------------------
(* The surroundings.                                                       *)

\* requeue_package, under the ingestion lock.
Requeue ==
    /\ lock = NoProc
    /\ status # "PROCESSING"
    /\ requeues < MaxRequeues
    /\ requeues' = requeues + 1
    /\ status' = "INTERRUPTED"
    /\ mustReplay' = TRUE
    /\ UNCHANGED <<lock, procVars, dataVars, faults, lostSessions>>

\* The checkpoint passes CHECKPOINT_MAX_AGE.
AgeStageCheckpoint ==
    /\ stageCkpt # {} /\ ~ckptAged
    /\ ckptAged' = TRUE
    /\ UNCHANGED <<status, lock, procVars, stage, stageCkpt, pubVars, outVars,
                   mustReplay, boundVars>>

NobodyWorks == \A p \in Procs : pc[p] = "idle"

\* The TTL of the raw stage tables, seven days after the rows were written.  A
\* checkpoint is refused after 120 hours, which leaves the attempt that uses it
\* 48 hours.
ExpireStage ==
    /\ Expiry /\ NobodyWorks
    /\ stage # "none"
    /\ stage' \in {"none", Torn(stage)}
    /\ UNCHANGED <<status, lock, procVars, stageCkpt, ckptAged, pubVars, outVars,
                   mustReplay, boundVars>>

\* The TTL of a publish-stage table.
DeleteExpiredRows(t) ==
    /\ pub[t] # "none"
    /\ pub' = [pub EXCEPT ![t] = "none"]
    /\ UNCHANGED <<status, lock, procVars, stageVars, pubCkpt, ledger, outVars,
                   mustReplay, boundVars>>

ExpirePublishStage(t) == Expiry /\ NobodyWorks /\ DeleteExpiredRows(t)

\* The same while an attempt resumes over rows of an earlier attempt: unlike
\* the stage checkpoint the publish checkpoint has no age limit.
ExpireUnderAttempt(t) ==
    /\ \E p \in Procs : pc[p] # "idle" /\ finalResume[p]
    /\ DeleteExpiredRows(t)

\* The PostgreSQL session that holds the lock ends while its process goes on:
\* every other call of the process opens a connection of its own.
LoseSession(p) ==
    /\ lock = p
    /\ lostSessions < MaxLostSessions
    /\ lostSessions' = lostSessions + 1
    /\ lock' = NoProc
    /\ UNCHANGED <<status, procVars, dataVars, mustReplay, faults, requeues>>

-----------------------------------------------------------------------------

\* A cycle's own steps, without the faults.
Attempt(p) ==
    \/ Recover(p) \/ SelectNothing(p) \/ Enter(p) \/ Start(p)
    \/ CleanStage(p) \/ CleanOutputs(p) \/ Parse(p) \/ Quality(p)
    \/ BeginPublish(p) \/ RefusePublish(p) \/ PublishGoods(p)
    \/ MaterializeCase(p) \/ MaterializeParty(p) \/ SavePublishCheckpoint(p)
    \/ SkipRange(p) \/ MarkRunning(p) \/ ExecuteRange(p)
    \/ FinishPublish(p) \/ Accept(p)
    \/ DropStage(p) \/ DropPublishStages(p) \/ DropPublishCheckpoint(p)
    \/ DropStageCheckpoint(p) \/ FailStage(p) \/ FailOutputs(p)
    \/ MarkPackageFailed(p) \/ Release(p)

Next ==
    \/ \E p \in Procs :
         \/ Acquire(p) \/ Attempt(p)
         \/ Select(p, NormalCandidates) \/ Select(p, RetryCandidates)
         \/ FailRange(p) \/ Interrupt(p)
    \/ Requeue \/ AgeStageCheckpoint \/ ExpireStage
    \/ \E t \in PUBLISH_STAGE_TABLES : ExpirePublishStage(t)

Spec == Init /\ [][Next]_vars

\* The same system when rows expire under a resumed attempt.
LateExpirySpec ==
    Init /\ [][Next \/ \E t \in PUBLISH_STAGE_TABLES : ExpireUnderAttempt(t)]_vars

\* The same system when the lock's session may end under a live process.
LostSessionSpec == Init /\ [][Next \/ \E p \in Procs : LoseSession(p)]_vars

\* The worker polls: cycles begin again and run to their end, and normal cycles
\* recur among the retry cycles.  Calls return or raise.
Fairness ==
    /\ WF_vars(\E p \in Procs : Acquire(p) \/ Attempt(p))
    /\ SF_vars(\E p \in Procs : Select(p, NormalCandidates))

FairSpec == Spec /\ Fairness

\* An operator (or the Admin RETRY task) does not give up on a failed package.
Retries == SF_vars(\E p \in Procs : Select(p, RetryCandidates))

RetrySpec == FairSpec /\ Retries

-----------------------------------------------------------------------------

\* The types of the package's rows and of the processes' state.
TypeOK ==
    /\ status \in Statuses
    /\ lock \in Procs \cup {NoProc}
    /\ pc \in [Procs -> Pcs]
    /\ retrying \in [Procs -> BOOLEAN] /\ resuming \in [Procs -> BOOLEAN]
    /\ trying \in [Procs -> BOOLEAN] /\ finalResume \in [Procs -> BOOLEAN]
    /\ task \in [Procs -> 1..(NumTasks + 1)]
    /\ stage \in Rows /\ stageCkpt \in SUBSET Rows /\ ckptAged \in BOOLEAN
    /\ pub \in [PUBLISH_STAGE_TABLES -> Rows]
    /\ pubCkpt \in SUBSET [PUBLISH_STAGE_TABLES -> Rows]
    /\ ledger \in [Tasks -> {"none", "RUNNING", "FAILED", "SUCCESS"}]
    /\ goods \in Durable /\ out \in [Tasks -> Durable]
    /\ mustReplay \in BOOLEAN
    /\ faults \in Nat /\ requeues \in Nat /\ lostSessions \in Nat

\* A package says SUCCESS only while all its durable rows are complete: no
\* crash, retry, resume, expiry or requeue lets the ledger vouch for rows that
\* were deleted or never written.
SuccessIsComplete ==
    status = "SUCCESS" => goods = "good" /\ \A i \in Tasks : out[i] = "good"

\* Durable rows are never computed from an incomplete, expired or doubled
\* stage, nor goods on top of goods of an earlier attempt.
NothingMixed == goods # "bad" /\ \A i \in Tasks : out[i] # "bad"

\* Completed range tasks are durable work: as long as the publish checkpoint
\* stands, a task that succeeded is neither run again nor are its rows touched.
DurableWork ==
    [][\A i \in Tasks :
         ledger[i] = "SUCCESS" /\ pubCkpt' # {} =>
            ledger'[i] = "SUCCESS" /\ out'[i] = out[i]]_vars

\* The durable rows of an accepted package do not change while it is accepted.
AcceptedRowsKept == [][status = "SUCCESS" => UNCHANGED outVars]_vars

\* A requeued package is replayed from its ZIP before it is accepted again.
RequeueReplays == status = "SUCCESS" => ~mustReplay

\* What recovery under the lock takes for granted: a package that still says
\* PROCESSING was abandoned, no process is in the middle of an attempt at it.
OnlyAbandonedRecovered ==
    [][status = "PROCESSING" /\ status' = "INTERRUPTED" =>
         \A p \in Procs : ~trying[p]]_vars

\* Work that begins or is interrupted ends: crashes are recovered, whatever
\* the next attempt finds.
InterruptedWorkEnds ==
    status \in {"REGISTERED", "PROCESSING", "INTERRUPTED"}
        ~> status \in {"SUCCESS", "FAILED"}

\* If the package is retried it is accepted in the end.
RetryAccepts == <>[](status = "SUCCESS")

\* The publish-stage rows of a package that is not accepted last until its retry.
StagesLast ==
    [](NobodyWorks /\ HasPublishCheckpoint /\ status # "SUCCESS" => PublishCheckpointIsUsable)

\* While they last, no sequence of errors, crashes and requeues wedges the package.
RetryConverges == Retries /\ StagesLast => RetryAccepts

=============================================================================
