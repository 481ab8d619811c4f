-------------------------- MODULE AdminTasksProofs --------------------------
(***************************************************************************)
(* Safety of the Admin task queue for any number of workers, domains,      *)
(* tasks, packages and crashes.                                            *)
(***************************************************************************)
EXTENDS AdminTasks, TLAPS

\* A worker inside engine_mutation_guard is the holder of the advisory lock.
GuardedHoldsLock == \A w \in Workers : pc[w] \in Guarded => lock = w

\* A worker that executes has a task; one that finishes has an outcome for it.
ExecutingHasTask ==
    \A w \in Workers :
        /\ pc[w] \in Executing => cur[w] \in Tasks
        /\ pc[w] = "finish" => outcome[w] \in Terminal

\* A package counted after the stop belongs to a stopped task, and no worker
\* stands between a boundary check and a package of such a task.
StopInv ==
    /\ \A t \in Tasks : afterStop[t] # 0 => stop[t] /\ afterStop[t] = 1
    /\ \A w \in Workers : pc[w] = "checked" => afterStop[cur[w]] = 0

IInv ==
    /\ TypeOK
    /\ OneActivePerDomain
    /\ GuardedHoldsLock
    /\ ExecutingHasTask
    /\ StopInv

-----------------------------------------------------------------------------

\* The invariant holds before any task is queued.
LEMMA InitInv == Init => IInv
  BY AdminConstants
  DEF Init, IInv, TypeOK, OneActivePerDomain, GuardedHoldsLock,
      ExecutingHasTask, StopInv, Statuses, Active, Terminal, Guarded, Executing,
      Pcs, SUPPORTED_ACTIONS, Tasks

\* Queueing keeps it: a task is accepted only while its domain is free.
LEMMA QueueStep ==
  ASSUME IInv, NEW t \in Tasks, NEW d \in Domains, NEW a \in SUPPORTED_ACTIONS,
         QueueTask(t, d, a)
  PROVE  IInv'
<1>1. TypeOK'
  BY DEF IInv, TypeOK, QueueTask, workerVars, Statuses, Active
<1>2. OneActivePerDomain'
  BY DEF IInv, TypeOK, QueueTask, OneActivePerDomain, DomainIsFree, Active
<1>3. (GuardedHoldsLock /\ ExecutingHasTask)'
  BY DEF IInv, QueueTask, workerVars, GuardedHoldsLock, ExecutingHasTask
<1>4. StopInv'
  BY DEF IInv, QueueTask, workerVars, StopInv
<1> QED BY <1>1, <1>2, <1>3, <1>4 DEF IInv

\* A stop request keeps it: it frees a domain at most.
LEMMA StopStep ==
  ASSUME IInv, NEW t \in Tasks, RequestStop(t)
  PROVE  IInv'
<1>1. TypeOK'
  BY DEF IInv, TypeOK, RequestStop, workerVars, Statuses, Terminal
<1>2. OneActivePerDomain'
  BY DEF IInv, TypeOK, RequestStop, OneActivePerDomain, Active
<1>3. (GuardedHoldsLock /\ ExecutingHasTask)'
  BY DEF IInv, RequestStop, workerVars, GuardedHoldsLock, ExecutingHasTask
<1>4. StopInv'
  BY DEF IInv, TypeOK, RequestStop, workerVars, StopInv
<1> QED BY <1>1, <1>2, <1>3, <1>4 DEF IInv

\* Starting, recovery and the guard: steps outside the execution of a task.
LEMMA LoopStep ==
  ASSUME IInv, NEW w \in Workers,
         \/ StartWorker(w) \/ RecoverStopped(w) \/ RecoverRunning(w)
         \/ AcquireGuard(w) \/ NothingToClaim(w) \/ ReleaseGuard(w)
  PROVE  IInv'
<1> USE DEF IInv, queueVars
<1>1. CASE StartWorker(w)
  BY <1>1 DEF StartWorker, TypeOK, OneActivePerDomain, GuardedHoldsLock,
              ExecutingHasTask, StopInv, Pcs, Guarded, Executing
<1>2. CASE RecoverStopped(w)
  BY <1>2 DEF RecoverStopped, TypeOK, OneActivePerDomain, GuardedHoldsLock,
              ExecutingHasTask, StopInv, Pcs, Guarded, Executing, StoppedRunning
<1>3. CASE RecoverRunning(w)
  <2>1. TypeOK'
    BY <1>3 DEF RecoverRunning, RequeueRunningRows, RequeueRows, TypeOK, Pcs,
                Statuses, Active, Terminal
  <2>2. \A t \in Tasks : status'[t] \in Active => status[t] \in Active
    BY <1>3 DEF RecoverRunning, RequeueRunningRows, RequeueRows, TypeOK, Active
  <2>3. OneActivePerDomain'
    BY <1>3, <2>2 DEF RecoverRunning, OneActivePerDomain
  <2>4. (GuardedHoldsLock /\ ExecutingHasTask /\ StopInv)'
    BY <1>3 DEF RecoverRunning, TypeOK, GuardedHoldsLock, ExecutingHasTask,
                StopInv, Guarded, Executing
  <2> QED BY <2>1, <2>3, <2>4
<1>4. CASE AcquireGuard(w)
  BY <1>4, AdminConstants
  DEF AcquireGuard, LockIsFree, TypeOK, OneActivePerDomain, GuardedHoldsLock,
      ExecutingHasTask, StopInv, Pcs, Guarded, Executing
<1>5. CASE NothingToClaim(w)
  <2>1. PICK p \in {"release", "scheduled"} : pc' = [pc EXCEPT ![w] = p]
    BY <1>5 DEF NothingToClaim
  <2>2. pc[w] = "claim" /\ UNCHANGED <<queueVars, lock, cur, outcome, stopRows,
                 pending, afterStop, crashes, lostFinishes>>
    BY <1>5 DEF NothingToClaim
  <2> QED
    BY <2>1, <2>2 DEF TypeOK, OneActivePerDomain, GuardedHoldsLock,
              ExecutingHasTask, StopInv, Pcs, Guarded, Executing
<1>6. CASE ReleaseGuard(w)
  BY <1>6 DEF ReleaseGuard, TypeOK, OneActivePerDomain, GuardedHoldsLock,
              ExecutingHasTask, StopInv, Pcs, Guarded, Executing
<1> QED BY <1>1, <1>2, <1>3, <1>4, <1>5, <1>6

\* A claim keeps it: a waiting task of a domain becomes its running one.
LEMMA ClaimStep ==
  ASSUME IInv, NEW w \in Workers, NEW t \in Tasks, ClaimTask(w, t)
  PROVE  IInv'
<1> USE DEF IInv, ClaimTask
<1>1. TypeOK'
  BY DEF TypeOK, Pcs, Guarded, Statuses, Active
<1>2. OneActivePerDomain'
  BY DEF TypeOK, OneActivePerDomain, Active
<1>3. (GuardedHoldsLock /\ ExecutingHasTask)'
  BY DEF TypeOK, GuardedHoldsLock, ExecutingHasTask, Guarded, Executing
<1>4. StopInv'
  BY DEF TypeOK, StopInv
<1> QED BY <1>1, <1>2, <1>3, <1>4

\* The execution of a claimed task, and the scheduled CN cycle.
LEMMA ExecuteStep ==
  ASSUME IInv, NEW w \in Workers,
         \/ RunScheduledCn(w) \/ PassGate(w) \/ BeforePackage(w)
         \/ BeginPackage(w) \/ ReplayComplete(w) \/ PackageDone(w)
  PROVE  IInv'
<1> USE DEF IInv, queueVars
<1>1. CASE RunScheduledCn(w)
  <2>1. pending' \in [Domains -> Nat]
    BY <1>1, AdminConstants DEF RunScheduledCn, TypeOK
  <2> QED
    BY <1>1, <2>1 DEF RunScheduledCn, TypeOK, OneActivePerDomain,
       GuardedHoldsLock, ExecutingHasTask, StopInv, Pcs, Guarded, Executing
<1>2. CASE PassGate(w)
  BY <1>2 DEF PassGate, EndWith, TypeOK, OneActivePerDomain, GuardedHoldsLock,
              ExecutingHasTask, StopInv, Pcs, Guarded, Executing, Terminal
<1>3. CASE BeforePackage(w)
  <2>1. TypeOK' /\ OneActivePerDomain'
    BY <1>3 DEF BeforePackage, EndWith, TypeOK, OneActivePerDomain, Pcs,
                Guarded, Terminal
  <2>2. (GuardedHoldsLock /\ ExecutingHasTask)'
    BY <1>3 DEF BeforePackage, EndWith, TypeOK, GuardedHoldsLock,
                ExecutingHasTask, Guarded, Executing, Terminal
  <2>3. cur[w] \in Tasks
    BY <1>3 DEF BeforePackage, ExecutingHasTask, Executing
  <2>4. StopInv'
    BY <1>3, <2>3 DEF BeforePackage, EndWith, TypeOK, StopInv
  <2> QED BY <2>1, <2>2, <2>4
<1>4. CASE BeginPackage(w)
  <2>1. cur[w] \in Tasks
    BY <1>4 DEF BeginPackage, ExecutingHasTask, Executing
  <2>2. TypeOK' /\ OneActivePerDomain'
    BY <1>4, <2>1 DEF BeginPackage, TypeOK, OneActivePerDomain, Pcs, Guarded
  <2>3. (GuardedHoldsLock /\ ExecutingHasTask)'
    BY <1>4 DEF BeginPackage, TypeOK, GuardedHoldsLock, ExecutingHasTask,
                Guarded, Executing
  <2>4. \A v \in Workers : pc[v] = "checked" => v = w
    BY <1>4 DEF BeginPackage, GuardedHoldsLock, Guarded
  <2>5. StopInv'
    BY <1>4, <2>1, <2>4 DEF BeginPackage, TypeOK, StopInv
  <2> QED BY <2>2, <2>3, <2>5
<1>5. CASE ReplayComplete(w)
  BY <1>5 DEF ReplayComplete, EndWith, TypeOK, OneActivePerDomain,
              GuardedHoldsLock, ExecutingHasTask, StopInv, Pcs, Guarded,
              Executing, Terminal
<1>6. CASE PackageDone(w)
  <2>1. cur[w] \in Tasks
    BY <1>6 DEF PackageDone, ExecutingHasTask, Executing
  <2>2. pending' \in [Domains -> Nat]
    BY <1>6, <2>1 DEF PackageDone, TypeOK
  <2>3. TypeOK' /\ OneActivePerDomain'
    BY <1>6, <2>2 DEF PackageDone, EndWith, TypeOK, OneActivePerDomain, Pcs,
                      Guarded, Terminal
  <2>4. (GuardedHoldsLock /\ ExecutingHasTask /\ StopInv)'
    BY <1>6 DEF PackageDone, EndWith, TypeOK, GuardedHoldsLock, StopInv,
                ExecutingHasTask, Guarded, Executing, Terminal
  <2> QED BY <2>3, <2>4
<1> QED BY <1>1, <1>2, <1>3, <1>4, <1>5, <1>6

\* The ends of an execution: the outcome written or lost, or a crash.
LEMMA EndStep ==
  ASSUME IInv, NEW w \in Workers, FinishTask(w) \/ FinishLost(w) \/ Crash(w)
  PROVE  IInv'
<1> USE DEF IInv, queueVars
<1>1. CASE FinishTask(w)
  <2>1. cur[w] \in Tasks /\ outcome[w] \in Terminal
    BY <1>1 DEF FinishTask, ExecutingHasTask, Executing
  <2>2. TypeOK'
    BY <1>1, <2>1 DEF FinishTask, TypeOK, Pcs, Guarded, Statuses
  <2>3. OneActivePerDomain'
    BY <1>1, <2>1 DEF FinishTask, TypeOK, OneActivePerDomain, Active, Terminal
  <2>4. (GuardedHoldsLock /\ ExecutingHasTask /\ StopInv)'
    BY <1>1 DEF FinishTask, TypeOK, GuardedHoldsLock, ExecutingHasTask, StopInv,
                Guarded, Executing
  <2> QED BY <2>2, <2>3, <2>4
<1>2. CASE FinishLost(w)
  BY <1>2 DEF FinishLost, TypeOK, OneActivePerDomain, GuardedHoldsLock,
              ExecutingHasTask, StopInv, Pcs, Guarded, Executing
<1>3. CASE Crash(w)
  BY <1>3, AdminConstants
  DEF Crash, TypeOK, OneActivePerDomain, GuardedHoldsLock, ExecutingHasTask,
      StopInv, Pcs, Guarded, Executing
<1> QED BY <1>1, <1>2, <1>3

\* Stuttering keeps the invariant.
LEMMA StutterStep == IInv /\ UNCHANGED vars => IInv'
  BY DEF IInv, vars, queueVars, workerVars, TypeOK, OneActivePerDomain,
         GuardedHoldsLock, ExecutingHasTask, StopInv

\* Every step of the API, the workers and their crashes keeps the invariant.
LEMMA NextInv == IInv /\ [Next]_vars => IInv'
<1> SUFFICES ASSUME IInv, [Next]_vars PROVE IInv'
  OBVIOUS
<1>1. CASE UNCHANGED vars
  BY <1>1, StutterStep
<1>2. CASE \E t \in Tasks, d \in Domains, a \in SUPPORTED_ACTIONS : QueueTask(t, d, a)
  BY <1>2, QueueStep
<1>3. CASE \E t \in Tasks : RequestStop(t)
  BY <1>3, StopStep
<1>4. CASE \E w \in Workers : WorkerStep(w) \/ FinishLost(w) \/ Crash(w)
  <2>1. PICK w \in Workers : WorkerStep(w) \/ FinishLost(w) \/ Crash(w)
    BY <1>4
  <2> QED
    BY <2>1, LoopStep, ClaimStep, ExecuteStep, EndStep DEF WorkerStep
<1> QED BY <1>1, <1>2, <1>3, <1>4 DEF Next

\* The inductive invariant holds throughout.
THEOREM InvariantHolds == Spec => []IInv
  BY InitInv, NextInv, PTL DEF Spec

\* The queue and the workers' state keep their types (all job_run writes).
THEOREM TypeCorrect == Spec => []TypeOK
<1>1. IInv => TypeOK
  BY DEF IInv
<1> QED BY <1>1, InvariantHolds, PTL

\* queue_admin_domain_task admits one active task per domain, and no recovery,
\* stop or late finish of any number of workers makes it two.
THEOREM OneActive == Spec => []OneActivePerDomain
<1>1. IInv => OneActivePerDomain
  BY DEF IInv
<1> QED BY <1>1, InvariantHolds, PTL

\* engine_mutation_guard serialises the mutations of all workers.
THEOREM Exclusive == Spec => []MutationExclusive
<1>1. IInv => MutationExclusive
  BY DEF IInv, GuardedHoldsLock, MutationExclusive, Guarded
<1> QED BY <1>1, InvariantHolds, PTL

\* A stopped continuous replay begins at most one more package.
THEOREM StopIsHonoured == Spec => []StopHonoured
<1>1. IInv => StopHonoured
  BY DEF IInv, TypeOK, StopInv, StopHonoured
<1> QED BY <1>1, InvariantHolds, PTL

=============================================================================
