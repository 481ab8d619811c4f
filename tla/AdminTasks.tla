----------------------------- MODULE AdminTasks -----------------------------
(***************************************************************************)
(* The Admin domain task queue (app/admin_domain_tasks.py) and the worker  *)
(* loop that drains it (app/worker.py).                                    *)
(*                                                                         *)
(* The API process queues a task per trademark domain (RUN, RETRY or       *)
(* CONTINUE) and may ask a continuous replay to stop at the next package   *)
(* boundary.  Worker processes recover the queue when they start, then     *)
(* loop: take the mutation lock, claim the oldest queued task, execute it, *)
(* write its outcome, give the lock back.  The tasks are rows of           *)
(* control.job_run; the lock is a session-scoped PostgreSQL advisory lock, *)
(* which the server releases when the session of its holder dies.          *)
(***************************************************************************)
EXTENDS Integers

CONSTANTS
    Workers,         \* worker processes (docker-compose runs one; a redeploy overlaps two)
    NoWorker,        \* the lock is free
    Domains,         \* trademark domains
    CnDomain,        \* the CN domain, the one that also has scheduled runs
    MaxTasks,        \* bound: tasks ever queued
    MaxPackages,     \* packages a domain has left to replay at the start
    MaxCrashes,      \* bound: worker processes killed
    MaxLostFinishes  \* bound: finish_job_run calls whose database write fails

ASSUME AdminConstants ==
    /\ NoWorker \notin Workers
    /\ CnDomain \in Domains
    /\ MaxTasks \in Nat /\ MaxPackages \in Nat
    /\ MaxCrashes \in Nat /\ MaxLostFinishes \in Nat

VARIABLES
    status,      \* control.job_run.status of each task ("NONE": no row yet)
    domain,      \* payload.domain
    kind,        \* payload.action
    stop,        \* payload.stop_requested
    startedAt,   \* started_at, as a logical time stamp
    clock,       \* the database's now()
    lock,        \* holder of the advisory lock markorbit:admin-domain-mutation
    pc,          \* where each worker is
    cur,         \* the task each worker executes (0: none)
    outcome,     \* the status the worker is about to write
    stopRows,    \* rows the first UPDATE of a worker's recovery has updated, uncommitted
    pending,     \* packages of each domain still to be ingested
    afterStop,   \* history: packages a task began after its stop was accepted
    crashes, lostFinishes

queueVars == <<status, domain, kind, stop, startedAt, clock>>
workerVars == <<lock, pc, cur, outcome, stopRows>>
vars == <<queueVars, workerVars, pending, afterStop, crashes, lostFinishes>>

Tasks == 1..MaxTasks
SUPPORTED_ACTIONS == {"RUN", "RETRY", "CONTINUE"}
Active == {"QUEUED", "RUNNING"}
Terminal == {"SUCCESS", "FAILED", "BLOCKED", "INTERRUPTED"}
Statuses == {"NONE"} \cup Active \cup Terminal

\* The worker is inside engine_mutation_guard with the lock.
Guarded == {"claim", "gate", "boundary", "checked", "package", "scheduled",
            "finish", "release"}
\* The worker executes a claimed task.
Executing == {"gate", "boundary", "checked", "package", "finish"}
Pcs == {"down", "recoverStopped", "recoverRunning", "loop"} \cup Guarded

\* Rows an open recovery transaction has updated: other updates of them wait.
LockedRows == UNION {stopRows[w] : w \in Workers}

Init ==
    /\ status = [t \in Tasks |-> "NONE"]
    /\ domain = [t \in Tasks |-> CnDomain]
    /\ kind = [t \in Tasks |-> "RUN"]
    /\ stop = [t \in Tasks |-> FALSE]
    /\ startedAt = [t \in Tasks |-> 0]
    /\ clock = 0
    /\ lock = NoWorker
    /\ pc = [w \in Workers |-> "down"]
    /\ cur = [w \in Workers |-> 0]
    /\ outcome = [w \in Workers |-> "NONE"]
    /\ stopRows = [w \in Workers |-> {}]
    /\ pending = [d \in Domains |-> MaxPackages]
    /\ afterStop = [t \in Tasks |-> 0]
    /\ crashes = 0
    /\ lostFinishes = 0

-----------------------------------------------------------------------------
(* The API process.                                                        *)

\* Bug: only waiting tasks are looked for.
DomainIsFreeQueuedOnly(d) ==
    ~ \E t \in Tasks : domain[t] = d /\ status[t] = "QUEUED"

DomainIsFree(d) ==
    ~ \E t \in Tasks : domain[t] = d /\ status[t] \in Active

\* queue_admin_domain_task under the queue lock.  Refused (no change) while
\* the domain has a task that waits or runs.
QueueTask(t, d, a) ==
    /\ status[t] = "NONE"
    /\ \A u \in Tasks : u < t => status[u] # "NONE"
    /\ DomainIsFree(d)
    /\ status' = [status EXCEPT ![t] = "QUEUED"]
    /\ domain' = [domain EXCEPT ![t] = d]
    /\ kind' = [kind EXCEPT ![t] = a]
    /\ startedAt' = [startedAt EXCEPT ![t] = clock]
    /\ clock' = clock + 1
    /\ UNCHANGED <<stop, workerVars, pending, afterStop, crashes, lostFinishes>>

\* request_admin_domain_stop under the queue lock: a waiting replay ends, a
\* running one is flagged.  SELECT ... FOR UPDATE waits for a locked row.
RequestStop(t) ==
    /\ kind[t] = "CONTINUE" /\ status[t] \in Active
    /\ t \notin LockedRows
    /\ stop' = [stop EXCEPT ![t] = TRUE]
    /\ status' = [status EXCEPT ![t] = IF @ = "QUEUED" THEN "INTERRUPTED" ELSE @]
    /\ UNCHANGED <<domain, kind, startedAt, clock, workerVars, pending,
                   afterStop, crashes, lostFinishes>>

-----------------------------------------------------------------------------
(* A worker process.                                                       *)

\* Bug: a restarted worker goes to its loop without recovering the queue.
StartWorkerUnrecovered(w) ==
    /\ pc[w] = "down"
    /\ pc' = [pc EXCEPT ![w] = "loop"]
    /\ UNCHANGED <<queueVars, lock, cur, outcome, stopRows, pending, afterStop,
                   crashes, lostFinishes>>

StartWorker(w) ==
    /\ pc[w] = "down"
    /\ pc' = [pc EXCEPT ![w] = "recoverStopped"]
    /\ UNCHANGED <<queueVars, lock, cur, outcome, stopRows, pending, afterStop,
                   crashes, lostFinishes>>

StoppedRunning == {t \in Tasks : status[t] = "RUNNING" /\ stop[t]}

\* recover_interrupted_admin_domain_tasks, first UPDATE: the running rows that
\* were asked to stop.  The rows are locked until the commit.
RecoverStopped(w) ==
    /\ pc[w] = "recoverStopped"
    /\ StoppedRunning \cap LockedRows = {}
    /\ stopRows' = [stopRows EXCEPT ![w] = StoppedRunning]
    /\ pc' = [pc EXCEPT ![w] = "recoverRunning"]
    /\ UNCHANGED <<queueVars, lock, cur, outcome, pending, afterStop, crashes,
                   lostFinishes>>

\* Second UPDATE of the recovery, applied to the rows whose status is in S.
RequeueRows(w, S) ==
    status' = [t \in Tasks |->
                 IF t \in stopRows[w] THEN "INTERRUPTED"
                 ELSE IF status[t] \in S THEN "QUEUED"
                 ELSE status[t]]

RequeueRunningRows(w) == RequeueRows(w, {"RUNNING"})

\* Second UPDATE, a new READ COMMITTED snapshot: every row that runs now goes
\* back to the queue; then the commit publishes both updates.
RecoverRunning(w) ==
    /\ pc[w] = "recoverRunning"
    /\ \A v \in Workers \ {w} : stopRows[v] = {}
    /\ RequeueRunningRows(w)
    /\ stopRows' = [stopRows EXCEPT ![w] = {}]
    /\ pc' = [pc EXCEPT ![w] = "loop"]
    /\ UNCHANGED <<domain, kind, stop, startedAt, clock, lock, cur, outcome,
                   pending, afterStop, crashes, lostFinishes>>

\* Bug: the result of pg_try_advisory_lock is ignored.
LockIsIgnored == TRUE

LockIsFree == lock = NoWorker

\* engine_mutation_guard: pg_try_advisory_lock; a loser sleeps and polls again.
AcquireGuard(w) ==
    /\ pc[w] = "loop"
    /\ LockIsFree
    /\ lock' = w
    /\ pc' = [pc EXCEPT ![w] = "claim"]
    /\ UNCHANGED <<queueVars, cur, outcome, stopRows, pending, afterStop,
                   crashes, lostFinishes>>

\* claim_next_admin_domain_task: the oldest queued row starts running.  A stop
\* request recorded in the payload stays there.
ClaimTask(w, t) ==
    /\ pc[w] = "claim"
    /\ status[t] = "QUEUED"
    /\ \A u \in Tasks : status[u] = "QUEUED" => startedAt[t] <= startedAt[u]
    /\ status' = [status EXCEPT ![t] = "RUNNING"]
    /\ startedAt' = [startedAt EXCEPT ![t] = clock]
    /\ clock' = clock + 1
    /\ cur' = [cur EXCEPT ![w] = t]
    /\ pc' = [pc EXCEPT ![w] = "gate"]
    /\ UNCHANGED <<domain, kind, stop, lock, outcome, stopRows, pending,
                   afterStop, crashes, lostFinishes>>

\* Nothing to claim: the worker gives the lock back, or the scheduled CN cycle
\* is due and _run_scheduled_cn passes its execution guard.
NothingToClaim(w) ==
    /\ pc[w] = "claim"
    /\ \A t \in Tasks : status[t] # "QUEUED"
    /\ \E p \in {"release", "scheduled"} : pc' = [pc EXCEPT ![w] = p]
    /\ UNCHANGED <<queueVars, lock, cur, outcome, stopRows, pending, afterStop,
                   crashes, lostFinishes>>

\* scan_and_ingest_cn in the scheduled cycle ingests a package or none.
RunScheduledCn(w) ==
    /\ pc[w] = "scheduled"
    /\ \E n \in {0, 1} :
         /\ n <= pending[CnDomain]
         /\ pending' = [pending EXCEPT ![CnDomain] = @ - n]
    /\ pc' = [pc EXCEPT ![w] = "release"]
    /\ UNCHANGED <<queueVars, lock, cur, outcome, stopRows, afterStop, crashes,
                   lostFinishes>>

EndWith(w, o) ==
    /\ outcome' = [outcome EXCEPT ![w] = o]
    /\ pc' = [pc EXCEPT ![w] = "finish"]

\* execute_admin_domain_task up to the first mutation: the storage headroom and
\* the domain's transition gate.  A closed gate raises DomainTaskBlocked, any
\* other error ends the task FAILED; a CONTINUE goes to its first package
\* boundary, a RUN or RETRY straight to its one ingest call.
PassGate(w) ==
    /\ pc[w] = "gate"
    /\ \/ /\ pc' = [pc EXCEPT ![w] = IF kind[cur[w]] = "CONTINUE"
                                     THEN "boundary" ELSE "package"]
          /\ UNCHANGED outcome
       \/ \E o \in {"BLOCKED", "FAILED"} : EndWith(w, o)
    /\ UNCHANGED <<queueVars, lock, cur, stopRows, pending, afterStop, crashes,
                   lostFinishes>>

\* Bug: the flag is not read again at the package boundary.
BeforePackageUnchecked(w) ==
    /\ pc[w] = "boundary"
    /\ pc' = [pc EXCEPT ![w] = "checked"]
    /\ UNCHANGED <<queueVars, lock, cur, outcome, stopRows, pending, afterStop,
                   crashes, lostFinishes>>

\* before_package: _assert_continuation_not_stopped, then the storage headroom.
\* The US replays look for a remaining package first (ReplayComplete).
BeforePackage(w) ==
    /\ pc[w] = "boundary"
    /\ domain[cur[w]] = CnDomain \/ pending[domain[cur[w]]] > 0
    /\ IF stop[cur[w]]
       THEN EndWith(w, "INTERRUPTED")
       ELSE \/ pc' = [pc EXCEPT ![w] = "checked"] /\ UNCHANGED outcome
            \/ \E o \in {"BLOCKED", "FAILED"} : EndWith(w, o)
    /\ UNCHANGED <<queueVars, lock, cur, stopRows, pending, afterStop, crashes,
                   lostFinishes>>

\* The package begins; the stop may have been accepted since the check.
BeginPackage(w) ==
    /\ pc[w] = "checked"
    /\ pending[domain[cur[w]]] > 0
    /\ pc' = [pc EXCEPT ![w] = "package"]
    /\ afterStop' = [afterStop EXCEPT ![cur[w]] = IF stop[cur[w]] THEN @ + 1 ELSE @]
    /\ UNCHANGED <<queueVars, lock, cur, outcome, stopRows, pending, crashes,
                   lostFinishes>>

\* No package is left: the acceptance gate decides what the task ends as.
\* The CN runner finds this out after before_package, the US ones before it.
ReplayComplete(w) ==
    /\ pc[w] \in {"boundary", "checked"}
    /\ (pc[w] = "checked") <=> (domain[cur[w]] = CnDomain)
    /\ pending[domain[cur[w]]] = 0
    /\ \E o \in {"SUCCESS", "BLOCKED", "FAILED"} : EndWith(w, o)
    /\ UNCHANGED <<queueVars, lock, cur, stopRows, pending, afterStop, crashes,
                   lostFinishes>>

\* The ingest call returns.  A continuous replay goes on to the next boundary
\* after a success; a failed or busy package ends the task.
PackageDone(w) ==
    /\ pc[w] = "package"
    /\ \/ \E n \in {0, 1} :
            /\ n <= pending[domain[cur[w]]]
            /\ kind[cur[w]] = "CONTINUE" => n = 1
            /\ pending' = [pending EXCEPT ![domain[cur[w]]] = @ - n]
            /\ IF kind[cur[w]] = "CONTINUE"
               THEN pc' = [pc EXCEPT ![w] = "boundary"] /\ UNCHANGED outcome
               ELSE EndWith(w, "SUCCESS")
       \/ /\ \E o \in {"FAILED", "BLOCKED"} : EndWith(w, o)
          /\ UNCHANGED pending
    /\ UNCHANGED <<queueVars, lock, cur, stopRows, afterStop, crashes, lostFinishes>>

\* finish_admin_domain_task: finish_job_run writes the outcome by run_id, with
\* no condition on the current status.
FinishTask(w) ==
    /\ pc[w] = "finish"
    /\ cur[w] \notin LockedRows
    /\ status' = [status EXCEPT ![cur[w]] = outcome[w]]
    /\ cur' = [cur EXCEPT ![w] = 0]
    /\ outcome' = [outcome EXCEPT ![w] = "NONE"]
    /\ pc' = [pc EXCEPT ![w] = "release"]
    /\ UNCHANGED <<domain, kind, stop, startedAt, clock, lock, stopRows, pending,
                   afterStop, crashes, lostFinishes>>

\* The write of finish_job_run fails: the worker loop logs the error and goes
\* on; the row stays as it is.
FinishLost(w) ==
    /\ pc[w] = "finish"
    /\ lostFinishes < MaxLostFinishes
    /\ lostFinishes' = lostFinishes + 1
    /\ cur' = [cur EXCEPT ![w] = 0]
    /\ outcome' = [outcome EXCEPT ![w] = "NONE"]
    /\ pc' = [pc EXCEPT ![w] = "release"]
    /\ UNCHANGED <<queueVars, lock, stopRows, pending, afterStop, crashes>>

\* The finally block of engine_mutation_guard, then the poll sleep.
ReleaseGuard(w) ==
    /\ pc[w] = "release"
    /\ lock' = NoWorker
    /\ pc' = [pc EXCEPT ![w] = "loop"]
    /\ UNCHANGED <<queueVars, cur, outcome, stopRows, pending, afterStop,
                   crashes, lostFinishes>>

\* The process dies: PostgreSQL ends its sessions, which frees the advisory
\* lock and rolls an open recovery transaction back.
Crash(w) ==
    /\ pc[w] # "down"
    /\ crashes < MaxCrashes
    /\ crashes' = crashes + 1
    /\ pc' = [pc EXCEPT ![w] = "down"]
    /\ lock' = IF lock = w THEN NoWorker ELSE lock
    /\ cur' = [cur EXCEPT ![w] = 0]
    /\ outcome' = [outcome EXCEPT ![w] = "NONE"]
    /\ stopRows' = [stopRows EXCEPT ![w] = {}]
    /\ UNCHANGED <<queueVars, pending, afterStop, lostFinishes>>

-----------------------------------------------------------------------------

WorkerStep(w) ==
    \/ StartWorker(w) \/ RecoverStopped(w) \/ RecoverRunning(w)
    \/ AcquireGuard(w) \/ NothingToClaim(w) \/ RunScheduledCn(w)
    \/ \E t \in Tasks : ClaimTask(w, t)
    \/ PassGate(w) \/ BeforePackage(w) \/ BeginPackage(w) \/ ReplayComplete(w)
    \/ PackageDone(w) \/ FinishTask(w) \/ ReleaseGuard(w)

Next ==
    \/ \E t \in Tasks, d \in Domains, a \in SUPPORTED_ACTIONS : QueueTask(t, d, a)
    \/ \E t \in Tasks : RequestStop(t)
    \/ \E w \in Workers : WorkerStep(w) \/ FinishLost(w) \/ Crash(w)

Spec == Init /\ [][Next]_vars

\* A worker that can take a step takes one: compose restarts it (restart:
\* unless-stopped), the loop polls every two seconds and every call returns.
Fairness == \A w \in Workers : WF_vars(WorkerStep(w))

FairSpec == Spec /\ Fairness

-----------------------------------------------------------------------------

\* The types of the queue and of the workers' state.
TypeOK ==
    /\ status \in [Tasks -> Statuses]
    /\ domain \in [Tasks -> Domains]
    /\ kind \in [Tasks -> SUPPORTED_ACTIONS]
    /\ stop \in [Tasks -> BOOLEAN]
    /\ startedAt \in [Tasks -> Nat]
    /\ clock \in Nat
    /\ lock \in Workers \cup {NoWorker}
    /\ pc \in [Workers -> Pcs]
    /\ cur \in [Workers -> Tasks \cup {0}]
    /\ outcome \in [Workers -> Terminal \cup {"NONE"}]
    /\ stopRows \in [Workers -> SUBSET Tasks]
    /\ pending \in [Domains -> Nat]
    /\ afterStop \in [Tasks -> Nat]
    /\ crashes \in Nat
    /\ lostFinishes \in Nat

\* A domain never has two tasks that wait or run, whatever recovery, stop
\* requests and late finishes of overlapping workers do to the rows.
OneActivePerDomain ==
    \A t, u \in Tasks :
        status[t] \in Active /\ status[u] \in Active /\ domain[t] = domain[u]
            => t = u

\* Two workers never mutate domain data at once: the lock of a crashed worker
\* is free only when that worker does nothing any more.
MutationExclusive ==
    \A v, w \in Workers :
        pc[v] \in {"package", "scheduled"} /\ pc[w] \in {"package", "scheduled"}
            => v = w

\* Once a stop is accepted, the replay begins at most one more package (the one
\* whose boundary check had already passed), across crashes, recovery and
\* requeueing of the task.
StopHonoured == \A t \in Tasks : afterStop[t] <= 1

\* What recover_interrupted_admin_domain_tasks says of itself: an interrupted
\* task goes back to the queue unless a stop was requested.
StoppedNotRequeued == \A t \in Tasks : stop[t] => status[t] # "QUEUED"

\* Every accepted task reaches an outcome although workers crash and restart.
EveryTaskFinishes ==
    \A t \in Tasks : status[t] = "QUEUED" ~> status[t] \in Terminal

=============================================================================
