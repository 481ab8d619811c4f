---------------------------- MODULE UsTargetTasks ----------------------------
(***************************************************************************)
(* The US Application target bulk tasks and the host worker that runs      *)
(* them: app/us/target_bulk_tasks, target_bulk_task_control,               *)
(* target_bulk_host_worker(_v2, _once) and the routes of                   *)
(* app/admin_task_api.                                                     *)
(*                                                                         *)
(* A task is queued, prepared into a frozen plan (read-only), approved by  *)
(* an operator and executed one child plan at a time.  The child           *)
(* (module UsTargetChild) is a process of its own: it outlives a worker    *)
(* that dies, and it holds the mutation lock.  The supervisor starts one   *)
(* worker after the other; each recovers, claims at most one task and      *)
(* ends.                                                                   *)
(***************************************************************************)
EXTENDS Integers, Sequences

CONSTANTS
    Corpus,         \* source packages at the start
    MaxCorpus,      \* bound: source packages that arrive
    MaxTasks,       \* bound: tasks that are queued
    MaxPlans,       \* bound: plans that are frozen
    MaxMains,       \* bound: commits the host repository is on
    MaxFaults,      \* bound: workers that die, plan operators, archivings and
                    \* audits that fail, moves of the repository
    NoPlan, NoChild

First == 3          \* TARGET_BULK_START_SEQUENCE
Bridge == 1

\* A frozen plan: its authority generation, the git HEAD it was frozen on, its
\* range of source packages and the size of the corpus.
FrozenPlans == [generation : 1..MaxPlans, main : 1..MaxMains,
                start : First..MaxCorpus, end : First..MaxCorpus, count : First..MaxCorpus]

\* The child plans: a generation and a package.
ChildPlans == (1..MaxPlans) \X (First..MaxCorpus)

ASSUME TaskConstants ==
    /\ Corpus \in Nat /\ Corpus >= First
    /\ MaxCorpus \in Nat /\ MaxCorpus >= Corpus
    /\ MaxTasks \in Nat /\ MaxPlans \in Nat /\ MaxMains \in Nat \ {0}
    /\ MaxFaults \in Nat
    /\ NoPlan \notin FrozenPlans /\ NoChild \notin ChildPlans

VARIABLES
    rows,        \* control.job_run rows of the task kind, by started_at
    latest,      \* row of the newest SUCCESS with the full corpus, 0 for none
    request,     \* a RUN or CONTINUE request between its queries
    corpus, head,\* source packages and git HEAD of the host
    plans,       \* plans frozen so far
    pc, task,    \* where the worker is and the row it has claimed
    completed,   \* its completed_sequences, as a count
    exit,        \* exit code of the child it waits for
    late,        \* children it started after a stop was requested
    granted,     \* tasks whose execution an operator asked for since the last claim
    faults,
    holder, begun, accepted, journal     \* the child

rowVars == <<rows, latest, granted>>
workerVars == <<pc, task, completed, exit, late>>
hostVars == <<corpus, head, plans>>
childVars == <<holder, begun, accepted, journal>>
vars == <<rowVars, request, workerVars, hostVars, childVars, faults>>

Child == INSTANCE UsTargetChild WITH
    Plans <- ChildPlans, PackageOf <- [q \in ChildPlans |-> q[2]], NoPlan <- NoChild

ActiveStatuses == {"PREPARE_QUEUED", "NEEDS_OPERATOR", "RUN_QUEUED", "RUNNING"}
Claimable == {"PREPARE_QUEUED", "RUN_QUEUED"}
Resumable == {"BLOCKED", "FAILED", "INTERRUPTED"}
Statuses == ActiveStatuses \cup Resumable \cup {"SUCCESS"}

Tasks == DOMAIN rows
In(statuses) == {i \in Tasks : rows[i].status \in statuses}
Oldest(S) == CHOOSE i \in S : \A j \in S : i <= j

Init ==
    /\ rows = <<>> /\ latest = 0
    /\ request = [start |-> 0, bound |-> "none"]
    /\ corpus = Corpus /\ head = 1 /\ plans = 0
    /\ pc = "down" /\ task = 0 /\ completed = 0 /\ exit = "none"
    /\ granted = {} /\ late = 0
    /\ faults = 0
    /\ Child!Init

----------------------------------------------------------------------------
\* The routes of admin_task_api.

\* _queue_us_application_target_task: a task with durable state must be
\* resumed; this, and where CONTINUE goes on (next_target_bulk_sequence), is
\* read before the queue is locked.  RUN is one package from First.
Ask(bound) ==
    /\ request.bound = "none" /\ Len(rows) < MaxTasks
    /\ In(Resumable) = {}
    /\ request' = [bound |-> bound,
                   start |-> IF bound = "one" \/ latest = 0 THEN First
                             ELSE rows[latest].plan.count + 1]
    /\ UNCHANGED <<rowVars, workerVars, hostVars, childVars, faults>>

\* queue_target_bulk_prepare: refused while a task is active.
QueuePrepare ==
    /\ request.bound # "none"
    /\ request' = [start |-> 0, bound |-> "none"]
    /\ rows' = IF In(ActiveStatuses) # {} THEN rows
               ELSE Append(rows, [status |-> "PREPARE_QUEUED", stop |-> FALSE,
                                  start |-> request.start, bound |-> request.bound,
                                  plan |-> NoPlan, approved |-> NoPlan,
                                  completed |-> 0, error |-> "none"])
    /\ UNCHANGED <<latest, granted, workerVars, hostVars, childVars, faults>>

\* approve_target_bulk_task: for the digest of the prepared plan only.
Approve(i) ==
    /\ rows[i].status = "NEEDS_OPERATOR"
    /\ rows' = [rows EXCEPT ![i].status = "RUN_QUEUED", ![i].approved = rows[i].plan,
                            ![i].stop = FALSE, ![i].error = "none"]
    /\ granted' = granted \cup {i}
    /\ UNCHANGED <<latest, request, workerVars, hostVars, childVars, faults>>

\* request_target_bulk_stop: the oldest active task.
RequestStop ==
    /\ In(ActiveStatuses) # {}
    /\ LET i == Oldest(In(ActiveStatuses)) IN
       /\ rows' = [rows EXCEPT ![i].stop = TRUE,
                               ![i].status = IF @ = "RUNNING" THEN @ ELSE "INTERRUPTED",
                               ![i].error = "none"]
       /\ granted' = granted \ {i}
    /\ UNCHANGED <<latest, request, workerVars, hostVars, childVars, faults>>

\* Bug: a resumed task is prepared again.
ResumedStatusRebuilt(r) == "PREPARE_QUEUED"

ResumedStatus(r) ==
    CASE r.approved # NoPlan -> "RUN_QUEUED"
      [] r.approved = NoPlan /\ r.plan # NoPlan -> "NEEDS_OPERATOR"
      [] OTHER -> "PREPARE_QUEUED"

\* resume_target_bulk_task, of a given row or (RETRY) of the newest one.
Resume(i) ==
    /\ rows[i].status \in Resumable
    /\ rows' = [rows EXCEPT ![i].status = ResumedStatus(rows[i]), ![i].stop = FALSE,
                            ![i].error = "none"]
    /\ granted' = IF ResumedStatus(rows[i]) = "RUN_QUEUED" THEN granted \cup {i} ELSE granted
    /\ UNCHANGED <<latest, request, workerVars, hostVars, childVars, faults>>

----------------------------------------------------------------------------
\* The worker.

\* Bug: the recovery of recover_interrupted_target_bulk_tasks, which queues an
\* interrupted execution again.
RecoveredStatusRequeued(r) ==
    CASE r.stop -> "INTERRUPTED"
      [] ~r.stop /\ r.approved # NoPlan -> "RUN_QUEUED"
      [] OTHER -> "PREPARE_QUEUED"

\* Bug: a task that is not approved is left as it is, for it changed nothing.
RecoveredStatusApprovedOnly(r) ==
    CASE r.stop -> "INTERRUPTED"
      [] ~r.stop /\ r.approved # NoPlan -> "BLOCKED"
      [] OTHER -> "RUNNING"

\* fail_closed_recover_target_bulk_tasks.
RecoveredStatus(r) ==
    CASE r.stop -> "INTERRUPTED"
      [] ~r.stop /\ r.approved # NoPlan -> "BLOCKED"
      [] OTHER -> "PREPARE_QUEUED"

\* A worker starts.
Recover ==
    /\ pc = "down"
    /\ rows' = [i \in Tasks |-> IF rows[i].status # "RUNNING" THEN rows[i]
                                ELSE [rows[i] EXCEPT !.status = RecoveredStatus(rows[i]),
                                                     !.error = "none"]]
    /\ pc' = "ready"
    /\ UNCHANGED <<latest, granted, late, request, task, completed, exit, hostVars,
                   childVars, faults>>

\* claim_next_target_bulk_task: the oldest; without one the worker ends.
Claim ==
    /\ pc = "ready"
    /\ IF In(Claimable) = {}
       THEN pc' = "down" /\ UNCHANGED <<rows, granted, task, completed>>
       ELSE LET i == Oldest(In(Claimable)) IN
            /\ task' = i
            /\ pc' = IF rows[i].status = "PREPARE_QUEUED" THEN "prepare" ELSE "open"
            /\ completed' = rows[i].completed
            /\ granted' = granted \ {i}
            /\ rows' = [rows EXCEPT ![i].status = "RUNNING", ![i].error = "none"]
    /\ UNCHANGED <<latest, late, request, exit, hostVars, childVars, faults>>

\* The last update_target_bulk_task of a worker, whatever the row says now.
Ends(status, error) ==
    /\ rows' = [rows EXCEPT ![task].status = status, ![task].error = error]
    /\ pc' = "down" /\ task' = 0 /\ completed' = 0 /\ exit' = "none" /\ late' = 0

\* build_bulk_plan: the range lies in the corpus and everything before it is
\* on the target.
Plannable(r) ==
    /\ r.start <= corpus
    /\ r.start > First => ({Bridge} \cup First..(r.start - 1)) \subseteq accepted

Fault == faults < MaxFaults /\ faults' = faults + 1
NoFault == UNCHANGED faults

\* _run_plan_operator: a frozen plan of its own authority generation.
Prepare ==
    /\ pc = "prepare" /\ Plannable(rows[task]) /\ plans < MaxPlans
    /\ plans' = plans + 1
    /\ LET r == rows[task]
           plan == [generation |-> plans + 1, main |-> head, start |-> r.start,
                    end |-> IF r.bound = "one" THEN r.start ELSE corpus, count |-> corpus]
       IN rows' = [rows EXCEPT ![task].status = "NEEDS_OPERATOR", ![task].plan = plan,
                               ![task].completed = 0, ![task].error = "none"]
    /\ pc' = "down" /\ task' = 0 /\ completed' = 0 /\ exit' = "none" /\ late' = 0
    /\ UNCHANGED <<latest, granted, request, corpus, head, childVars, faults>>

PrepareFails ==
    /\ pc = "prepare"
    /\ Ends("BLOCKED", "other")
    /\ IF Plannable(rows[task]) /\ plans < MaxPlans THEN Fault ELSE NoFault
    /\ UNCHANGED <<latest, granted, request, hostVars, childVars>>

\* _run_execution: the approval, the manifest, git HEAD and the checkpoint.
OpenPlan ==
    /\ pc = "open"
    /\ LET r == rows[task] IN
       IF r.approved = r.plan /\ r.plan.main = head
       THEN pc' = "check" /\ UNCHANGED <<rows, task, completed, exit, late>>
       ELSE Ends("FAILED", "other")
    /\ UNCHANGED <<latest, granted, request, hostVars, childVars, faults>>

Current == rows[task].plan.start + completed
CurrentPlan == <<rows[task].plan.generation, Current>>

\* Bug: a stop request is not looked at between two children.
CheckStopIgnored ==
    /\ pc = "check"
    /\ pc' = IF Current > rows[task].plan.end THEN "audit" ELSE "launch"
    /\ UNCHANGED <<rowVars, task, completed, exit, late, request, hostVars, childVars, faults>>

\* The loop head: the next child, unless a stop was requested.
CheckStop ==
    /\ pc = "check"
    /\ IF Current > rows[task].plan.end
       THEN pc' = "audit" /\ UNCHANGED <<rows, task, completed, exit, late>>
       ELSE IF rows[task].stop
            THEN Ends("INTERRUPTED", "none")
            ELSE pc' = "launch" /\ UNCHANGED <<rows, task, completed, exit, late>>
    /\ UNCHANGED <<latest, granted, request, hostVars, childVars, faults>>

\* _run_child_operator: a child that finds the lock held, or HEAD moved, fails.
LaunchChild ==
    /\ pc = "launch"
    /\ pc' = "wait"
    /\ IF holder = NoChild /\ head = rows[task].plan.main
       THEN /\ Child!Start(CurrentPlan)
            /\ exit' = "running"
            /\ late' = late + (IF rows[task].stop THEN 1 ELSE 0)
       ELSE exit' = "failed" /\ UNCHANGED <<childVars, late>>
    /\ UNCHANGED <<rows, latest, granted, request, task, completed, hostVars, faults>>

\* The child works; it ends with 0 only after its journal is COMPLETE.
ChildStep ==
    /\ \E q \in ChildPlans : Child!Step(q)
    /\ UNCHANGED <<rowVars, request, workerVars, hostVars, faults>>

ChildExit ==
    /\ \E q \in ChildPlans :
          /\ Child!Leave(q)
          /\ exit' \in IF exit # "running" THEN {exit}
                       ELSE IF journal[q] = "COMPLETE" THEN {"succeeded", "failed"}
                       ELSE {"failed"}
    /\ UNCHANGED <<rowVars, request, pc, task, completed, late, hostVars, faults>>

\* Bug: a child that failed after it was started is taken for complete.
ChildAcceptableAnyExit == exit \in {"succeeded", "failed"}

\* A nonzero exit is reconciled only with a COMPLETE journal and an unmoved HEAD.
ChildAcceptable ==
    \/ exit = "succeeded"
    \/ exit = "failed" /\ journal[CurrentPlan] = "COMPLETE" /\ head = rows[task].plan.main

\* The source is archived and the checkpoint written.
Checkpoint ==
    /\ pc = "wait" /\ ChildAcceptable
    /\ completed' = completed + 1
    /\ rows' = [rows EXCEPT ![task].completed = completed + 1, ![task].error = "none"]
    /\ pc' = "check" /\ exit' = "none"
    /\ UNCHANGED <<latest, granted, late, request, task, hostVars, childVars, faults>>

\* "guarded child operator failed"; an exit of an unknown shape is not
\* reconciled even when the journal is COMPLETE.
ChildFails ==
    /\ pc = "wait" /\ exit = "failed"
    /\ Ends("BLOCKED", "other")
    /\ UNCHANGED <<latest, granted, request, hostVars, childVars, faults>>

ArchiveFails ==
    /\ pc = "wait" /\ ChildAcceptable /\ Fault
    /\ Ends("FAILED", "other")
    /\ UNCHANGED <<latest, granted, request, hostVars, childVars>>

\* Bug: the final audit looks at the packages of the plan only.
AuditedPlanOnly(plan) == plan.start..plan.end \subseteq accepted

\* audit_target_bulk_batch: the children of the plan, and a COMPLETE journal
\* for exactly the packages of the frozen corpus.
Audited(plan) ==
    /\ \A s \in plan.start..plan.end : journal[<<plan.generation, s>>] = "COMPLETE"
    /\ begun = {Bridge} \cup First..plan.count
    /\ begun = accepted

FinalAudit ==
    /\ pc = "audit" /\ Audited(rows[task].plan)
    /\ Ends("SUCCESS", "none")
    /\ latest' = task
    /\ UNCHANGED <<granted, request, hostVars, childVars, faults>>

FinalAuditFails ==
    /\ pc = "audit"
    /\ IF Audited(rows[task].plan) THEN Fault ELSE NoFault
    /\ Ends("BLOCKED", "audit")
    /\ UNCHANGED <<latest, granted, request, hostVars, childVars>>

\* recover_final_audit, by hand: the audit alone is done again.
RecoverFinalAudit(i) ==
    /\ rows[i].status = "BLOCKED" /\ rows[i].error = "audit"
    /\ rows[i].completed = rows[i].plan.end - rows[i].plan.start + 1
    /\ Audited(rows[i].plan)
    /\ rows' = [rows EXCEPT ![i].status = "SUCCESS", ![i].error = "none"]
    /\ latest' = i
    /\ UNCHANGED <<granted, request, workerVars, hostVars, childVars, faults>>

----------------------------------------------------------------------------
\* The host.

\* The worker dies; its child goes on.
Crash ==
    /\ pc # "down" /\ Fault
    /\ pc' = "down" /\ task' = 0 /\ completed' = 0 /\ exit' = "none" /\ late' = 0
    /\ UNCHANGED <<rowVars, request, hostVars, childVars>>

NewSource ==
    /\ corpus < MaxCorpus /\ corpus' = corpus + 1
    /\ UNCHANGED <<rowVars, request, workerVars, head, plans, childVars, faults>>

NewMain ==
    /\ head < MaxMains /\ head' = head + 1 /\ Fault
    /\ UNCHANGED <<rowVars, request, workerVars, corpus, plans, childVars>>

Operator ==
    \/ Ask("one") \/ Ask("end")
    \/ QueuePrepare \/ RequestStop
    \/ \E i \in Tasks : Approve(i) \/ Resume(i) \/ RecoverFinalAudit(i)

Worker ==
    \/ Recover \/ Claim \/ Prepare \/ PrepareFails \/ OpenPlan \/ CheckStop
    \/ LaunchChild \/ Checkpoint \/ ChildFails \/ ArchiveFails
    \/ FinalAudit \/ FinalAuditFails

Next == Operator \/ Worker \/ ChildStep \/ ChildExit \/ Crash \/ NewSource \/ NewMain

\* The supervisor keeps a worker running and a child ends by itself, whatever
\* it achieved; nothing is assumed of the operator.
Fairness == WF_vars(Worker) /\ WF_vars(ChildExit)

Spec == Init /\ [][Next]_vars /\ Fairness

----------------------------------------------------------------------------
Rows == [status : Statuses, stop : BOOLEAN, start : First..(MaxCorpus + 1),
         bound : {"one", "end"}, completed : 0..MaxCorpus,
         plan : {NoPlan} \cup FrozenPlans, approved : {NoPlan} \cup FrozenPlans,
         error : {"none", "audit", "other"}]

TypeOK ==
    /\ rows \in Seq(Rows) /\ Len(rows) <= MaxTasks
    /\ latest \in 0..Len(rows) /\ task \in 0..Len(rows) /\ granted \subseteq Tasks
    /\ request \in [start : {0} \cup First..(MaxCorpus + 1), bound : {"none", "one", "end"}]
    /\ request.bound # "none" => request.start >= First /\ Len(rows) < MaxTasks
    /\ corpus \in Corpus..MaxCorpus /\ head \in 1..MaxMains /\ plans \in 0..MaxPlans
    /\ pc \in {"down", "ready", "prepare", "open", "check", "launch", "wait", "audit"}
    /\ exit \in {"none", "running", "succeeded", "failed"}
    /\ completed \in 0..MaxCorpus /\ late \in Nat /\ faults \in 0..MaxFaults
    /\ holder \in ChildPlans \cup {NoChild}
    /\ begun \subseteq {Bridge} \cup First..MaxCorpus /\ accepted \subseteq begun
    /\ journal \in [ChildPlans -> {"NONE", "OPEN", "COMPLETE"}]

\* Every execution a worker claims was asked for by an operator since the last
\* one: no restart of the worker, however it left the row, makes it touch the
\* target again by itself.
OperatorStarts ==
    [][\A i \in Tasks : pc = "ready" /\ pc' = "open" /\ task' = i => i \in granted]_vars

\* What is executed is the plan that was approved: once a task has an approved
\* plan neither the plan nor the approval changes, and no child runs for a
\* plan without an approval.
ApprovedPlanOnly ==
    [][/\ \A i \in Tasks : rows[i].approved # NoPlan =>
             rows'[i].plan = rows[i].plan /\ rows'[i].approved = rows[i].plan
       /\ holder' # holder /\ holder' # NoChild =>
             \E i \in Tasks : /\ rows[i].approved # NoPlan
                              /\ rows[i].approved.generation = holder'[1]
                              /\ holder'[2] \in rows[i].approved.start..rows[i].approved.end
      ]_vars

\* What a row says is on the target: its checkpoint covers completed children
\* only, and SUCCESS means that all packages of its frozen corpus are accepted.
RowsAreTrue ==
    \A i \in Tasks :
        LET r == rows[i] IN r.plan # NoPlan =>
            /\ \A s \in r.plan.start..(r.plan.start + r.completed - 1) :
                  journal[<<r.plan.generation, s>>] = "COMPLETE"
            /\ r.status = "SUCCESS" =>
                  ({Bridge} \cup First..r.plan.count) \subseteq accepted

\* After a stop request at most the child whose start had already been decided
\* still begins: the others wait for a resume.
StopHonoured == late <= 1

\* No task stays RUNNING: its worker or, after its death, the recovery of the
\* next one ends it, also while an orphaned child holds the mutation lock.
EveryRunEnds == In({"RUNNING"}) # {} ~> In({"RUNNING"}) = {}
=============================================================================
