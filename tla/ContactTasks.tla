---------------------------- MODULE ContactTasks ----------------------------
(***************************************************************************)
(* The contact task queue (app/contact_ingest): discovery of files in      *)
(* incoming/contacts, and their explicit import by background threads of   *)
(* the API processes.                                                      *)
(*                                                                         *)
(* A task is known by the content of its file (its SHA-256), so contents   *)
(* name the tasks.  A discovery cycle is one step: it is one transaction   *)
(* under an advisory lock, and its updates keep the status of a task that  *)
(* an import has touched meanwhile.                                        *)
(***************************************************************************)
EXTENDS Integers, FiniteSets

CONSTANTS
    Contents,         \* file contents
    Paths,            \* paths under incoming/contacts
    Procs,            \* API processes
    Threads,          \* import threads
    Home,             \* the process of each thread
    None,             \* no file, no task, no thread
    FileChanges,      \* may a file change while its import is under way?
    MaxFileOps,       \* bound: files that operators put, replace or remove
    MaxFaults,        \* bound: calls that raise
    MaxLostWrites,    \* bound: outcome writes that raise
    MaxCrashes,       \* bound: API processes that die
    MaxUpgrades       \* bound: releases with a new parser

ASSUME ContactConstants ==
    /\ Home \in [Threads -> Procs]
    /\ None \notin Contents /\ None \notin Paths /\ None \notin Threads
    /\ FileChanges \in BOOLEAN
    /\ {MaxFileOps, MaxFaults, MaxLostWrites, MaxCrashes, MaxUpgrades} \subseteq Nat

VARIABLES
    status, path,     \* contact.ingest_task: status and file_path of each content
    incoming,         \* the content of each path
    archive,          \* archived files: task, name and content
    imported,         \* contents whose contacts are committed
    proc,             \* state of each API process
    pc, todo, cur, at, plan, outcome,  \* each thread: its batch and the task at work
    lock,             \* the thread that has the contact apply lock
    fileOps, faults, lostWrites, crashes, upgrades

tasks == <<status, path>>
files == <<incoming, archive>>
work == <<todo, cur, at, plan, outcome>>
bounds == <<fileOps, faults, lostWrites, crashes, upgrades>>
vars == <<tasks, files, imported, proc, pc, work, lock, bounds>>

Statuses == {"NONE", "READY", "PROCESSING", "SUCCESS", "FAILED", "INVALID", "MISSING_FILE"}
Pcs == {"idle", "claim", "check", "plan", "lock", "import", "archive", "finish"}
ReadsFile == {"plan", "lock", "import", "archive"}
AtWork == ReadsFile \cup {"check", "finish"}

Init ==
    /\ status = [c \in Contents |-> "NONE"] /\ path = [c \in Contents |-> None]
    /\ incoming = [p \in Paths |-> None] /\ archive = {} /\ imported = {}
    /\ proc = [a \in Procs |-> "down"]
    /\ pc = [t \in Threads |-> "idle"] /\ todo = [t \in Threads |-> {}]
    /\ cur = [t \in Threads |-> None] /\ at = [t \in Threads |-> None]
    /\ plan = [t \in Threads |-> None] /\ outcome = [t \in Threads |-> None]
    /\ lock = None
    /\ fileOps = 0 /\ faults = 0 /\ lostWrites = 0 /\ crashes = 0 /\ upgrades = 0

Fault == faults < MaxFaults /\ faults' = faults + 1

\* The local variables of apply_contact_task in the threads T are gone.
Forget(T) ==
    /\ cur' = [t \in Threads |-> IF t \in T THEN None ELSE cur[t]]
    /\ at' = [t \in Threads |-> IF t \in T THEN None ELSE at[t]]
    /\ plan' = [t \in Threads |-> IF t \in T THEN None ELSE plan[t]]
    /\ outcome' = [t \in Threads |-> IF t \in T THEN None ELSE outcome[t]]

-----------------------------------------------------------------------------
(* Files, processes and discovery.                                         *)

\* An operator puts, replaces or removes a file.
ChangeFile(p, c) ==
    /\ fileOps < MaxFileOps
    /\ incoming[p] # c
    /\ \A t \in Threads : pc[t] \in ReadsFile /\ at[t] = p => FileChanges
    /\ incoming' = [incoming EXCEPT ![p] = c]
    /\ fileOps' = fileOps + 1
    /\ UNCHANGED <<tasks, archive, imported, proc, pc, work, lock,
                   faults, lostWrites, crashes, upgrades>>

StartProcess(a) ==
    /\ proc[a] = "down"
    /\ proc' = [proc EXCEPT ![a] = "started"]
    /\ UNCHANGED <<tasks, files, imported, pc, work, lock, bounds>>

\* Bug: interrupted tasks are not looked at.
KeepInterrupted(s) == s

\* Bug: interrupted tasks count as done.
InterruptedIsDone(s) == IF s = "PROCESSING" THEN "SUCCESS" ELSE s

\* The status that _apply_task_schema gives to a task of a dead process.
Interrupted(s) == IF s = "PROCESSING" THEN "FAILED" ELSE s

\* The status after an upgrade of the parser: to be evaluated again.
Reevaluated(s) == IF s \in {"READY", "FAILED", "INVALID"} THEN "MISSING_FILE" ELSE s

\* ensure_contact_task_schema, once in each process, before any other call.
EnsureSchema(a) ==
    /\ proc[a] = "started"
    /\ proc' = [proc EXCEPT ![a] = "ready"]
    /\ \/ /\ status' = [c \in Contents |-> Interrupted(status[c])]
          /\ UNCHANGED upgrades
       \/ /\ upgrades < MaxUpgrades
          /\ upgrades' = upgrades + 1
          /\ status' = [c \in Contents |-> Reevaluated(Interrupted(status[c]))]
    /\ UNCHANGED <<path, files, imported, pc, work, lock,
                   fileOps, faults, lostWrites, crashes>>

\* The process dies and its daemon threads with it; the lock's session ends.
Crash(a) ==
    /\ proc[a] # "down"
    /\ crashes < MaxCrashes
    /\ crashes' = crashes + 1
    /\ proc' = [proc EXCEPT ![a] = "down"]
    /\ pc' = [t \in Threads |-> IF Home[t] = a THEN "idle" ELSE pc[t]]
    /\ todo' = [t \in Threads |-> IF Home[t] = a THEN {} ELSE todo[t]]
    /\ lock' = IF lock \in Threads /\ Home[lock] = a THEN None ELSE lock
    /\ Forget({t \in Threads : Home[t] = a})
    /\ UNCHANGED <<tasks, files, imported, fileOps, faults, lostWrites, upgrades>>

Present == {c \in Contents : \E p \in Paths : incoming[p] = c}

\* Known tasks, which the scanner does not evaluate again (_touch_known_task).
Known == {c \in Contents : status[c] \notin {"NONE", "MISSING_FILE"}}

\* The contents that a cycle has to plan.
Evaluates == Present \ Known

\* scan_contact_incoming: tasks take the path their content is seen at.
Scan(a) ==
    /\ proc[a] = "ready"
    /\ \E valid \in SUBSET Evaluates :
         status' = [c \in Contents |-> IF c \notin Evaluates THEN status[c]
                                       ELSE IF c \in valid THEN "READY" ELSE "INVALID"]
    /\ \E seen \in [Present -> Paths] :
         /\ \A c \in Present : incoming[seen[c]] = c
         /\ path' = [c \in Contents |-> IF c \in Present /\ status[c] # "SUCCESS"
                                        THEN seen[c] ELSE path[c]]
    /\ UNCHANGED <<files, imported, proc, pc, work, lock, bounds>>

-----------------------------------------------------------------------------
(* Imports.                                                                *)

Begin(t, batch) ==
    /\ pc[t] = "idle" /\ proc[Home[t]] = "ready"
    /\ batch # {}
    /\ todo' = [todo EXCEPT ![t] = batch]
    /\ pc' = [pc EXCEPT ![t] = "claim"]
    /\ UNCHANGED <<tasks, files, imported, proc, cur, at, plan, outcome, lock, bounds>>

\* admin_contact_apply and admin_contact_batch_apply start a thread.
Apply(t, c) == status[c] \in {"READY", "FAILED"} /\ Begin(t, {c})

BatchApply(t) == Begin(t, {c \in Contents : status[c] = "READY"})

\* Bug: a task that is being processed can be claimed.
ClaimableTwice(c) == status[c] \in {"READY", "FAILED", "PROCESSING"}

Claimable(c) == status[c] \in {"READY", "FAILED"}

\* _claim_task and the path it returns.
Claim(t, c) ==
    /\ pc[t] = "claim" /\ c \in todo[t]
    /\ Claimable(c)
    /\ status' = [status EXCEPT ![c] = "PROCESSING"]
    /\ todo' = [todo EXCEPT ![t] = @ \ {c}]
    /\ cur' = [cur EXCEPT ![t] = c]
    /\ at' = [at EXCEPT ![t] = path[c]]
    /\ pc' = [pc EXCEPT ![t] = "check"]
    /\ UNCHANGED <<path, files, imported, proc, plan, outcome, lock, bounds>>

\* The task is done or is not executable any more, or the claim raises.
SkipTask(t, c) ==
    /\ pc[t] = "claim" /\ c \in todo[t]
    /\ \/ ~Claimable(c) /\ UNCHANGED faults
       \/ Fault
    /\ todo' = [todo EXCEPT ![t] = @ \ {c}]
    /\ UNCHANGED <<tasks, files, imported, proc, pc, cur, at, plan, outcome, lock,
                   fileOps, lostWrites, crashes, upgrades>>

EndThread(t) ==
    /\ pc[t] = "claim" /\ todo[t] = {}
    /\ pc' = [pc EXCEPT ![t] = "idle"]
    /\ UNCHANGED <<tasks, files, imported, proc, work, lock, bounds>>

EndWith(t, o) ==
    /\ outcome' = [outcome EXCEPT ![t] = o]
    /\ pc' = [pc EXCEPT ![t] = "finish"]

GoTo(t, l) == pc' = [pc EXCEPT ![t] = l] /\ UNCHANGED outcome

\* The file must be there and must be the one that was discovered.
CheckSource(t) ==
    /\ pc[t] = "check"
    /\ \/ /\ IF incoming[at[t]] = None THEN EndWith(t, "MISSING_FILE")
             ELSE IF incoming[at[t]] # cur[t] THEN EndWith(t, "FAILED")
             ELSE GoTo(t, "plan")
          /\ UNCHANGED faults
       \/ Fault /\ EndWith(t, "FAILED")
    /\ UNCHANGED <<tasks, files, imported, proc, todo, cur, at, plan, lock,
                   fileOps, lostWrites, crashes, upgrades>>

\* build_plan reads the file again.
BuildPlan(t) ==
    /\ pc[t] = "plan"
    /\ plan' = [plan EXCEPT ![t] = incoming[at[t]]]
    /\ \/ incoming[at[t]] # None /\ GoTo(t, "lock") /\ UNCHANGED faults
       \/ incoming[at[t]] = None /\ EndWith(t, "FAILED") /\ UNCHANGED faults
       \/ Fault /\ EndWith(t, "FAILED")
    /\ UNCHANGED <<tasks, files, imported, proc, todo, cur, at, lock,
                   fileOps, lostWrites, crashes, upgrades>>

\* _contact_apply_lock polls until no other import has it.
AcquireApplyLock(t) ==
    /\ pc[t] = "lock"
    /\ lock = None
    /\ lock' = t
    /\ pc' = [pc EXCEPT ![t] = "import"]
    /\ UNCHANGED <<tasks, files, imported, proc, work, bounds>>

\* Bug: an import that was rolled back counts as done.
FailedImport(t) == GoTo(t, "archive")

\* What apply_contact_task does about an exception of the import.
ImportRaised(t) == EndWith(t, "FAILED")

\* _apply_transaction commits, or raises before or after its commit; the lock is
\* released in each case.
Import(t) ==
    /\ pc[t] = "import"
    /\ lock' = None
    /\ \/ imported' = imported \cup {plan[t]} /\ GoTo(t, "archive") /\ UNCHANGED faults
       \/ /\ Fault /\ ImportRaised(t)
          /\ imported' \in {imported, imported \cup {plan[t]}}
    /\ UNCHANGED <<tasks, files, proc, todo, cur, at, plan,
                   fileOps, lostWrites, crashes, upgrades>>

\* _archive_source: a target with the same content makes the source superfluous.
Archive(t) ==
    LET p == at[t]
        target == [task |-> cur[t], name |-> p, content |-> cur[t]]
    IN  /\ pc[t] = "archive"
        /\ \/ /\ target \in archive \/ incoming[p] # None
              /\ incoming' = [incoming EXCEPT ![p] = None]
              /\ archive' = IF target \in archive THEN archive
                            ELSE archive \cup {[target EXCEPT !.content = incoming[p]]}
              /\ EndWith(t, "SUCCESS") /\ UNCHANGED faults
           \/ /\ target \notin archive /\ incoming[p] = None
              /\ EndWith(t, "FAILED") /\ UNCHANGED <<files, faults>>
           \/ Fault /\ EndWith(t, "FAILED") /\ UNCHANGED files
        /\ UNCHANGED <<tasks, imported, proc, todo, cur, at, plan, lock,
                       fileOps, lostWrites, crashes, upgrades>>

\* apply_contact_task returns or raises; a batch goes on.
Return(t) ==
    /\ pc' = [pc EXCEPT ![t] = "claim"]
    /\ Forget({t})

\* _finish_task.
Finish(t) ==
    /\ pc[t] = "finish"
    /\ status' = [status EXCEPT ![cur[t]] = outcome[t]]
    /\ Return(t)
    /\ UNCHANGED <<path, files, imported, proc, todo, lock, bounds>>

\* The write raises: a SUCCESS becomes a second write, of FAILED.
FinishLost(t) ==
    /\ pc[t] = "finish"
    /\ lostWrites < MaxLostWrites
    /\ lostWrites' = lostWrites + 1
    /\ IF outcome[t] = "SUCCESS" THEN EndWith(t, "FAILED") /\ UNCHANGED <<cur, at, plan>>
       ELSE Return(t)
    /\ UNCHANGED <<tasks, files, imported, proc, todo, lock,
                   fileOps, faults, crashes, upgrades>>

ThreadStep(t) ==
    \/ \E c \in Contents : Claim(t, c) \/ SkipTask(t, c)
    \/ EndThread(t) \/ CheckSource(t) \/ BuildPlan(t) \/ AcquireApplyLock(t)
    \/ Import(t) \/ Archive(t) \/ Finish(t)

Restart(a) == StartProcess(a) \/ EnsureSchema(a)

Next ==
    \/ \E p \in Paths, c \in Contents \cup {None} : ChangeFile(p, c)
    \/ \E a \in Procs : Restart(a) \/ Crash(a) \/ Scan(a)
    \/ \E t \in Threads : \/ BatchApply(t) \/ ThreadStep(t) \/ FinishLost(t)
                          \/ \E c \in Contents : Apply(t, c)

Spec == Init /\ [][Next]_vars

\* Containers restart and threads go on; operators need not do anything.
FairSpec ==
    /\ Spec
    /\ \A a \in Procs : WF_vars(Restart(a))
    /\ \A t \in Threads : WF_vars(ThreadStep(t))

\* Besides, the scanner runs and failed tasks are retried.
RetrySpec ==
    /\ FairSpec
    /\ \A a \in Procs : WF_vars(Scan(a))
    /\ \A c \in Contents : SF_vars(\E t \in Threads : Apply(t, c))

-----------------------------------------------------------------------------

\* The types of the task table, the files and the threads.
TypeOK ==
    /\ status \in [Contents -> Statuses]
    /\ path \in [Contents -> Paths \cup {None}]
    /\ incoming \in [Paths -> Contents \cup {None}]
    /\ archive \subseteq [task : Contents, name : Paths, content : Contents]
    /\ imported \subseteq Contents
    /\ proc \in [Procs -> {"down", "started", "ready"}]
    /\ pc \in [Threads -> Pcs]
    /\ todo \in [Threads -> SUBSET Contents]
    /\ cur \in [Threads -> Contents \cup {None}]
    /\ at \in [Threads -> Paths \cup {None}]
    /\ plan \in [Threads -> Contents \cup {None}]
    /\ outcome \in [Threads -> Statuses \cup {None}]
    /\ lock \in Threads \cup {None}
    /\ fileOps \in Nat /\ faults \in Nat /\ lostWrites \in Nat /\ crashes \in Nat /\ upgrades \in Nat

\* PROCESSING means that one import of the task is running: no two threads work on it.
OneApply ==
    \A t, u \in Threads : pc[t] \in AtWork /\ pc[u] \in AtWork /\ cur[t] = cur[u] => t = u

\* A SUCCESS task has its own content imported and archived, not another one's.
SuccessIsDone ==
    \A c \in Contents : status[c] = "SUCCESS" =>
        c \in imported /\ \E f \in archive : f.task = c /\ f.content = c

\* Only contents that were discovered as a task of their own are imported: a file
\* that was changed since its discovery is rejected.
OnlyDiscovered == \A c \in imported : status[c] # "NONE"

\* The program takes no file out of incoming unless its contacts are imported.
TakenIsImported ==
    [][fileOps' = fileOps =>
         \A p \in Paths : incoming'[p] = incoming[p] \/ incoming[p] \in imported]_vars

\* An import ends, although its process may die, unless the write of its outcome fails.
ApplyEnds ==
    [](lostWrites = 0) =>
        \A c \in Contents : status[c] = "PROCESSING" ~> status[c] # "PROCESSING"

\* A task whose contacts are in the database becomes SUCCESS when it is retried.
RetriedSucceeds == \A c \in Contents : c \in imported ~> status[c] = "SUCCESS"

=============================================================================
