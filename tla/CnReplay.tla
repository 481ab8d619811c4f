------------------------------ MODULE CnReplay ------------------------------
(***************************************************************************)
(* The CN corpus: which package an ingestion cycle takes next.             *)
(*                                                                         *)
(* Packages are registered from the incoming directory and replayed in     *)
(* source_rank order (a package is its rank here).  Cycles are begun by    *)
(* the worker, by the API, by one-shot containers and by the full-corpus   *)
(* runner of app/cn/full_replay; all of them end in ingest_pending_cn of   *)
(* app/jobs, under one advisory lock, but the execution guard of           *)
(* app/cn/guarded_run_once is evaluated outside it.  One attempt at a      *)
(* package (module CnIngest) is abstracted to its status writes and to the *)
(* move of its file.                                                       *)
(***************************************************************************)
EXTENDS Integers

CONSTANTS
    NumPackages,     \* packages, numbered by source_rank
    Runners,         \* processes that begin cycles
    NoRunner,        \* the ingestion lock is free
    Kinds,           \* the entry points in use
    MaxCrashes,      \* bound: processes that die
    MaxFailures,     \* bound: attempts, registrations and guards that fail
    MaxLosses        \* bound: files that disappear

EntryPoints == {"scan", "run", "scheduled", "retry", "replay", "resume", "continue"}

ASSUME ReplayConstants ==
    /\ NumPackages \in Nat /\ NoRunner \notin Runners
    /\ Kinds \subseteq EntryPoints
    /\ MaxCrashes \in Nat /\ MaxFailures \in Nat /\ MaxLosses \in Nat

VARIABLES
    status,      \* control.source_package.status, "ABSENT" before registration
    file,        \* where a file with the package's SHA-256 is
    lock,        \* holder of the ingestion lock
    pc,          \* where each runner is
    kind,        \* the entry point of its cycle
    repairing,   \* argument include_failed of its ingest_pending_cn call
    todo,        \* files still to register, or candidates still to look at
    cur,         \* package of its attempt, 0 for none
    scanFailed,  \* a registration of its scan failed
    got,         \* what its ingest_pending_cn call met
    verdict,     \* how its last cycle ended
    crashes, failures, losses

callVars == <<repairing, todo, cur, scanFailed, got>>
runnerVars == <<pc, kind, callVars, verdict>>
boundVars == <<crashes, failures, losses>>
vars == <<status, file, lock, runnerVars, boundVars>>

Packages == 1..NumPackages
Statuses == {"ABSENT", "REGISTERED", "PROCESSING", "INTERRUPTED", "FAILED",
             "MISSING_FILE", "SUCCESS"}
Pcs == {"idle", "guard", "reguard", "scan", "acquire", "recover", "list", "pick",
        "attempt", "archived", "accepted", "release", "after"}
Verdicts == {"NONE", "BLOCKED", "BUSY", "FAILED", "PARTIAL", "COMPLETE", "DONE"}

\* run_full_replay; with resume_failed; allowed to bootstrap a clean registry.
FullReplay == {"replay", "resume", "continue"}
ResumeFailed == {"resume", "continue"}
CleanStart == {"run", "replay", "resume"}

\* Statuses ingest_pending_cn selects.
NormalCandidates == {"INTERRUPTED", "REGISTERED"}
\* Bug: a missing file is never looked for again.
RepairCandidatesWithoutMissing == {"INTERRUPTED", "FAILED"}

RepairCandidates == {"INTERRUPTED", "FAILED", "MISSING_FILE"}

Init ==
    /\ status = [p \in Packages |-> "ABSENT"]
    /\ file \in [Packages -> {"none", "incoming"}]
    /\ lock = NoRunner
    /\ pc = [r \in Runners |-> "idle"]
    /\ kind \in [Runners -> Kinds]
    /\ repairing = [r \in Runners |-> FALSE]
    /\ todo = [r \in Runners |-> {}]
    /\ cur = [r \in Runners |-> 0]
    /\ scanFailed = [r \in Runners |-> FALSE]
    /\ got = [r \in Runners |-> {}]
    /\ verdict = [r \in Runners |-> "NONE"]
    /\ crashes = 0 /\ failures = 0 /\ losses = 0

Goto(r, l) == pc' = [pc EXCEPT ![r] = l]

\* The cycle ends; its local state is gone.
End(r, v) ==
    /\ Goto(r, "idle")
    /\ repairing' = [repairing EXCEPT ![r] = FALSE]
    /\ todo' = [todo EXCEPT ![r] = {}]
    /\ cur' = [cur EXCEPT ![r] = 0]
    /\ scanFailed' = [scanFailed EXCEPT ![r] = FALSE]
    /\ got' = [got EXCEPT ![r] = {}]
    /\ verdict' = [verdict EXCEPT ![r] = v]

\* Something goes wrong that the code reports and survives.
Failing == failures < MaxFailures /\ failures' = failures + 1 /\ UNCHANGED <<crashes, losses>>

-----------------------------------------------------------------------------
(* Entry points, execution guard and scan.                                 *)

Start(r, k) ==
    /\ pc[r] = "idle"
    /\ kind' = [kind EXCEPT ![r] = k]
    /\ repairing' = [repairing EXCEPT ![r] = (k = "retry")]
    /\ verdict' = [verdict EXCEPT ![r] = "NONE"]
    /\ Goto(r, IF k = "retry" THEN "acquire" ELSE "guard")
    /\ UNCHANGED <<status, file, lock, todo, cur, scanFailed, got, boundVars>>

Registered == {p \in Packages : status[p] # "ABSENT"}

\* Bug: the guard has no retry barrier.
NothingToRepair == {}

\* _retry_required_packages.
RetryRequired == {p \in Packages : status[p] \in {"FAILED", "MISSING_FILE"}}

\* build_execution_guard in mode CLEAN_RESET_FIRST_RUN: only a manual entry point
\* bootstraps, and the replay plan needs packages.
GuardClean(r) ==
    /\ pc[r] \in {"guard", "reguard"}
    /\ Registered = {}
    /\ \/ /\ pc[r] = "guard" /\ kind[r] \in CleanStart
          /\ \E p \in Packages : file[p] = "incoming"
          /\ Goto(r, "scan")
          /\ todo' = [todo EXCEPT ![r] = {p \in Packages : file[p] = "incoming"}]
          /\ UNCHANGED <<repairing, cur, scanFailed, got, verdict>>
       \/ /\ \/ pc[r] = "reguard" \/ kind[r] \notin CleanStart
             \/ \A p \in Packages : file[p] # "incoming"
          /\ End(r, "BLOCKED")
    /\ UNCHANGED <<status, file, lock, kind, boundVars>>

\* Mode RETRY_REQUIRED: a barrier, unless the runner repairs first.
GuardRetry(r) ==
    /\ pc[r] \in {"guard", "reguard"}
    /\ Registered # {} /\ RetryRequired # {}
    /\ IF kind[r] \in ResumeFailed
       THEN /\ repairing' = [repairing EXCEPT ![r] = TRUE]
            /\ Goto(r, "acquire")
            /\ UNCHANGED <<todo, cur, scanFailed, got, verdict>>
       ELSE End(r, "BLOCKED")
    /\ UNCHANGED <<status, file, lock, kind, boundVars>>

\* Mode REGISTERED_REPLAY_CONTINUATION: the one-shot cycles scan first, the full
\* replay drains the registered queue.
GuardContinue(r) ==
    /\ pc[r] \in {"guard", "reguard"}
    /\ Registered # {} /\ RetryRequired = {}
    /\ repairing' = [repairing EXCEPT ![r] = FALSE]
    /\ IF kind[r] \in FullReplay
       THEN Goto(r, "acquire") /\ UNCHANGED todo
       ELSE /\ Goto(r, "scan")
            /\ todo' = [todo EXCEPT ![r] = {p \in Packages : file[p] = "incoming"}]
    /\ UNCHANGED <<status, file, lock, kind, cur, scanFailed, got, verdict, boundVars>>

\* incoming_policy_issues, the clean-replay gate or the schema boundary says no, or
\* before_package of the Admin continuation stops at a package boundary.
GuardBlocked(r) ==
    /\ pc[r] \in {"guard", "reguard"} \/ (pc[r] = "acquire" /\ kind[r] = "continue")
    /\ Failing
    /\ End(r, "BLOCKED")
    /\ UNCHANGED <<status, file, lock, kind>>

\* register_package for one discovered file: an insert, or an update that turns
\* MISSING_FILE into FAILED.  scan_cn_incoming counts a failure and goes on.
Register(r, p) ==
    /\ pc[r] = "scan" /\ p \in todo[r]
    /\ todo' = [todo EXCEPT ![r] = @ \ {p}]
    /\ \/ /\ status' = [status EXCEPT ![p] = CASE @ = "ABSENT" -> "REGISTERED"
                                               [] @ = "MISSING_FILE" -> "FAILED"
                                               [] OTHER -> @]
          /\ UNCHANGED <<scanFailed, boundVars>>
       \/ /\ Failing
          /\ scanFailed' = [scanFailed EXCEPT ![r] = TRUE]
          /\ UNCHANGED status
    /\ UNCHANGED <<file, lock, pc, kind, repairing, cur, got, verdict>>

\* Only the full replay looks at failed registrations; the scan endpoint ends here.
ScanDone(r) ==
    /\ pc[r] = "scan" /\ todo[r] = {}
    /\ \/ kind[r] = "scan" /\ End(r, "DONE")
       \/ kind[r] \in FullReplay /\ scanFailed[r] /\ End(r, "FAILED")
       \/ /\ kind[r] # "scan" /\ ~(kind[r] \in FullReplay /\ scanFailed[r])
          /\ Goto(r, IF kind[r] \in FullReplay THEN "reguard" ELSE "acquire")
          /\ UNCHANGED <<callVars, verdict>>
    /\ UNCHANGED <<status, file, lock, kind, boundVars>>

-----------------------------------------------------------------------------
(* ingest_pending_cn with limit 1.                                         *)

\* Bug: the result of pg_try_advisory_lock is not looked at.
LockIgnored == TRUE

LockIsFree == lock = NoRunner

Acquire(r) ==
    /\ pc[r] = "acquire"
    /\ LockIsFree
    /\ lock' = r
    /\ Goto(r, "recover")
    /\ UNCHANGED <<status, file, kind, callVars, verdict, boundVars>>

Busy(r) ==
    /\ pc[r] = "acquire"
    /\ ~LockIsFree
    /\ End(r, "BUSY")
    /\ UNCHANGED <<status, file, lock, kind, boundVars>>

\* recover_interrupted_cn_ingestions.
Recover(r) ==
    /\ pc[r] = "recover"
    /\ status' = [p \in Packages |->
                    IF status[p] = "PROCESSING" THEN "INTERRUPTED" ELSE status[p]]
    /\ Goto(r, "list")
    /\ UNCHANGED <<file, lock, kind, callVars, verdict, boundVars>>

\* pending_packages.
List(r) ==
    /\ pc[r] = "list"
    /\ todo' = [todo EXCEPT ![r] =
                  {p \in Packages :
                     status[p] \in IF repairing[r] THEN RepairCandidates
                                                   ELSE NormalCandidates}]
    /\ got' = [got EXCEPT ![r] = {}]
    /\ Goto(r, "pick")
    /\ UNCHANGED <<status, file, lock, kind, repairing, cur, scanFailed, verdict, boundVars>>

First(r, p) == p \in todo[r] /\ \A q \in todo[r] : p <= q

\* _resolve_package_path finds no file with the SHA-256: the package is marked
\* and the loop goes on to the next candidate.
PickMissing(r, p) ==
    /\ pc[r] = "pick" /\ First(r, p)
    /\ file[p] = "none"
    /\ status' = [status EXCEPT ![p] = "MISSING_FILE"]
    /\ got' = [got EXCEPT ![r] = @ \cup {"missing"}]
    /\ todo' = [todo EXCEPT ![r] = @ \ {p}]
    /\ UNCHANGED <<file, lock, pc, kind, repairing, cur, scanFailed, verdict, boundVars>>

\* ingest_cn_package begins; it may raise before its first status write.
Pick(r, p) ==
    /\ pc[r] = "pick" /\ First(r, p)
    /\ file[p] # "none"
    /\ \/ /\ status' = [status EXCEPT ![p] = "PROCESSING"]
          /\ cur' = [cur EXCEPT ![r] = p]
          /\ Goto(r, "attempt")
          /\ UNCHANGED <<got, boundVars>>
       \/ /\ Failing
          /\ got' = [got EXCEPT ![r] = @ \cup {"failed"}]
          /\ Goto(r, "release")
          /\ UNCHANGED <<status, cur>>
    /\ UNCHANGED <<file, lock, kind, repairing, todo, scanFailed, verdict>>

\* No candidate is left.
PickNothing(r) ==
    /\ pc[r] = "pick" /\ todo[r] = {}
    /\ Goto(r, "release")
    /\ UNCHANGED <<status, file, lock, kind, callVars, verdict, boundVars>>

\* _archive_package at the end of a successful attempt.
Archive(r) ==
    /\ pc[r] = "attempt"
    /\ file[cur[r]] # "none"
    /\ file' = [file EXCEPT ![cur[r]] = "archive"]
    /\ Goto(r, "archived")
    /\ UNCHANGED <<status, lock, kind, callVars, verdict, boundVars>>

Accept(r) ==
    /\ pc[r] = "archived"
    /\ status' = [status EXCEPT ![cur[r]] = "SUCCESS"]
    /\ Goto(r, "accepted")
    /\ UNCHANGED <<file, lock, kind, callVars, verdict, boundVars>>

\* The attempt is over, with outcome g for the caller.
Return(r, g) ==
    /\ got' = [got EXCEPT ![r] = @ \cup {g}]
    /\ cur' = [cur EXCEPT ![r] = 0]
    /\ Goto(r, "release")
    /\ UNCHANGED <<file, lock, kind, repairing, todo, scanFailed, verdict>>

\* The job row is closed and the stage cleaned.
Finish(r) ==
    /\ pc[r] = "accepted"
    /\ Return(r, "success")
    /\ UNCHANGED <<status, boundVars>>

\* The attempt raises, even after SUCCESS; when its file has disappeared it must.
Fail(r) ==
    /\ pc[r] \in {"attempt", "archived", "accepted"}
    /\ IF pc[r] = "attempt" /\ file[cur[r]] = "none" THEN UNCHANGED boundVars ELSE Failing
    /\ status' = [status EXCEPT ![cur[r]] = "FAILED"]
    /\ Return(r, "failed")

Release(r) ==
    /\ pc[r] = "release"
    /\ lock' = IF lock = r THEN NoRunner ELSE lock
    /\ Goto(r, "after")
    /\ UNCHANGED <<status, file, kind, callVars, verdict, boundVars>>

-----------------------------------------------------------------------------
(* What the caller makes of the result.                                    *)

\* Bug: skipped_missing is not a failure.
ResultFailedIgnoringMissing(r) == "failed" \in got[r]

\* _result_failed.
ResultFailed(r) == got[r] \cap {"failed", "missing"} # {}

Attempted(r) == got[r] \cap {"success", "failed"} # {}

\* The one-shot entry points report and end.
ReportResult(r) ==
    /\ pc[r] = "after" /\ kind[r] \notin FullReplay
    /\ End(r, IF "failed" \in got[r] THEN "FAILED" ELSE "DONE")
    /\ UNCHANGED <<status, file, lock, kind, boundVars>>

\* run_full_replay: stop on a failure, go on after a success (or end at
\* max_packages), complete when the queue is empty.
ReplayResult(r) ==
    /\ pc[r] = "after" /\ kind[r] \in FullReplay
    /\ IF ResultFailed(r) \/ (repairing[r] /\ ~Attempted(r)) THEN End(r, "FAILED")
       ELSE IF ~Attempted(r) THEN End(r, "COMPLETE")
       ELSE \/ kind[r] # "continue" /\ End(r, "PARTIAL")
            \/ /\ Goto(r, IF repairing[r] THEN "reguard" ELSE "acquire")
               /\ UNCHANGED <<callVars, verdict>>
    /\ UNCHANGED <<status, file, lock, kind, boundVars>>

-----------------------------------------------------------------------------
(* The surroundings.                                                       *)

\* The process dies; PostgreSQL frees its lock.
Crash(r) ==
    /\ pc[r] # "idle"
    /\ crashes < MaxCrashes
    /\ crashes' = crashes + 1
    /\ lock' = IF lock = r THEN NoRunner ELSE lock
    /\ End(r, "NONE")
    /\ UNCHANGED <<status, file, kind, failures, losses>>

\* A package is delivered, or its file is put back.
Deliver(p) ==
    /\ file[p] = "none"
    /\ file' = [file EXCEPT ![p] = "incoming"]
    /\ UNCHANGED <<status, lock, runnerVars, boundVars>>

LoseFile(p) ==
    /\ file[p] # "none"
    /\ losses < MaxLosses
    /\ losses' = losses + 1
    /\ file' = [file EXCEPT ![p] = "none"]
    /\ UNCHANGED <<status, lock, runnerVars, crashes, failures>>

-----------------------------------------------------------------------------

Cycle(r) ==
    \/ GuardClean(r) \/ GuardRetry(r) \/ GuardContinue(r) \/ ScanDone(r)
    \/ \E p \in Packages : Register(r, p) \/ PickMissing(r, p) \/ Pick(r, p)
    \/ Acquire(r) \/ Busy(r) \/ Recover(r) \/ List(r) \/ PickNothing(r)
    \/ Archive(r) \/ Accept(r) \/ Finish(r) \/ Fail(r) \/ Release(r)
    \/ ReportResult(r) \/ ReplayResult(r)

Next ==
    \/ \E r \in Runners :
         \/ Cycle(r) \/ GuardBlocked(r) \/ Crash(r)
         \/ \E k \in Kinds : Start(r, k)
    \/ \E p \in Packages : Deliver(p) \/ LoseFile(p)

Spec == Init /\ [][Next]_vars

\* Cycles that began run on, every package is delivered in the end, and new
\* files keep being scanned while failed ones keep being repaired.
FairSpec ==
    /\ Spec
    /\ \A r \in Runners : WF_vars(Cycle(r))
    /\ \A p \in Packages : WF_vars(Deliver(p))
    /\ \A k \in {"run", "resume"} : SF_vars(\E r \in Runners : Start(r, k))

-----------------------------------------------------------------------------

\* The types of the registry, the files and the runners' state.
TypeOK ==
    /\ status \in [Packages -> Statuses]
    /\ file \in [Packages -> {"none", "incoming", "archive"}]
    /\ lock \in Runners \cup {NoRunner}
    /\ pc \in [Runners -> Pcs] /\ kind \in [Runners -> Kinds]
    /\ repairing \in [Runners -> BOOLEAN] /\ scanFailed \in [Runners -> BOOLEAN]
    /\ todo \in [Runners -> SUBSET Packages]
    /\ cur \in [Runners -> 0..NumPackages]
    /\ got \in [Runners -> SUBSET {"success", "failed", "missing"}]
    /\ verdict \in [Runners -> Verdicts]
    /\ crashes \in Nat /\ failures \in Nat /\ losses \in Nat

\* Recovery and the ingestion lock together: never do two packages say
\* PROCESSING, however many runners there are and however they die.
OneProcessing ==
    \A p, q \in Packages : status[p] = "PROCESSING" /\ status[q] = "PROCESSING" => p = q

\* Candidates are chosen under the lock, so an accepted package is not ingested
\* a second time by a runner that read the registry earlier.
SuccessNotRepeated ==
    [][\A p \in Packages : status[p] = "SUCCESS" => status'[p] # "PROCESSING"]_vars

Begins(p) == status[p] = "REGISTERED" /\ status'[p] = "PROCESSING"

\* The retry barrier of the guard: replay does not begin a registered package while
\* a lower-ranked one is failed or half done.
OrderedReplay ==
    [][\A p, q \in Packages : Begins(p) /\ q < p =>
         status[q] \notin {"FAILED", "INTERRUPTED", "PROCESSING"}]_vars

\* The retry barrier for files: nor while the file of a lower-ranked one is missing.
MissingIsBarrier ==
    [][\A p, q \in Packages : Begins(p) /\ q < p => status[q] # "MISSING_FILE"]_vars

\* A full replay says COMPLETE only when every registered package is accepted.
CompleteIsComplete ==
    [][\A r \in Runners :
         verdict[r] # "COMPLETE" /\ verdict'[r] = "COMPLETE" =>
            \A p \in Registered : status[p] = "SUCCESS"]_vars

\* Whatever fails, crashes or goes missing on the way, the corpus is accepted in
\* the end when files are put back and cycles are begun again.
CorpusCompletes == <>[](\A p \in Packages : status[p] = "SUCCESS")

=============================================================================
