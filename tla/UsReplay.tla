------------------------------ MODULE UsReplay ------------------------------
(***************************************************************************)
(* The ingestion of US Application packages: the deterministic replay      *)
(* (app/us/replay_executor), the one-shot run and retry (app/us/jobs), the *)
(* ingestion of one package (app/us/ingest), the ingestion lock            *)
(* (app/us/run_guard), the source preflight and the staging of archived    *)
(* sources (app/us/source_preflight, stage_sources).                       *)
(*                                                                         *)
(* Packages are numbered by their source rank.  A file holds the bytes     *)
(* that were registered or others; the rows of a package reach the fact    *)
(* tables batch by batch.  The executor freezes the source preflight once  *)
(* and works from it while files move, disappear or are replaced, and      *)
(* while a scan, which takes no lock, registers more.                      *)
(***************************************************************************)
EXTENDS Integers

CONSTANTS
    NumPackages,    \* packages, by source rank
    NumHistory,     \* the first of them are the historical baseline
    NumBatches,     \* batches of a package
    Runners, NoRunner,
    LateErrors,     \* TRUE: an error may follow the SUCCESS write
    MaxFaults,      \* bound: exceptions
    MaxCrashes,     \* bound: processes that die
    MaxOneShots,    \* bound: one-shot cycles that are begun
    MaxFileOps      \* bound: files that disappear or are replaced

Packages == 1..NumPackages
Batches == 1..NumBatches
Contents == {"registered", "other"}

ASSUME ReplayConstants ==
    /\ NumPackages \in Nat \ {0} /\ NumHistory \in 1..NumPackages
    /\ NumBatches \in Nat \ {0}
    /\ NoRunner \notin Runners
    /\ LateErrors \in BOOLEAN
    /\ MaxFaults \in Nat /\ MaxCrashes \in Nat
    /\ MaxOneShots \in Nat /\ MaxFileOps \in Nat

VARIABLES
    status,      \* registry status of a package
    incoming,    \* content of its file in incoming/us, or "none"
    archive,     \* contents of its files in archive/us
    facts,       \* its rows: content and batch
    lock,        \* who has the ingestion lock
    pc, kind,    \* of a runner: where it is and its entry point
    frozen,      \*   where the preflight found each package
    todo,        \*   candidates it has not looked at
    cur, from,   \*   package and directory it ingests from
    retrying,    \*   the status it chose the package for is retryable
    content,     \*   content it hashed
    batch,       \*   batches it has written
    verdict,     \*   "COMPLETE" if its last replay reported so
    faults, crashes, oneShots, fileOps

fileVars == <<incoming, archive, fileOps>>
choiceVars == <<frozen, todo, cur, from, retrying>>
workVars == <<content, batch>>
boundVars == <<faults, crashes, oneShots>>
vars == <<status, facts, lock, fileVars, pc, kind, choiceVars, workVars, verdict, boundVars>>

Retryable == {"FAILED", "MISSING_FILE", "INTERRUPTED"}
Statuses == {"UNREGISTERED", "REGISTERED", "PROCESSING", "SUCCESS"} \cup Retryable

Init ==
    /\ status = [p \in Packages |-> "UNREGISTERED"]
    /\ incoming = [p \in Packages |-> IF p <= NumHistory THEN "registered" ELSE "none"]
    /\ archive = [p \in Packages |-> {}]
    /\ facts = [p \in Packages |-> {}]
    /\ lock = NoRunner
    /\ pc = [r \in Runners |-> "idle"]
    /\ kind = [r \in Runners |-> "none"]
    /\ frozen = [r \in Runners |-> [p \in Packages |-> "none"]]
    /\ todo = [r \in Runners |-> {}]
    /\ cur = [r \in Runners |-> 1] /\ from = [r \in Runners |-> "incoming"]
    /\ retrying = [r \in Runners |-> FALSE]
    /\ content = [r \in Runners |-> "registered"] /\ batch = [r \in Runners |-> 0]
    /\ verdict = [r \in Runners |-> "none"]
    /\ faults = 0 /\ crashes = 0 /\ oneShots = 0 /\ fileOps = 0

First(S) == CHOOSE p \in S : \A q \in S : p <= q
Registered == {p \in Packages : status[p] # "UNREGISTERED"}
Accepted == {p \in Packages : status[p] = "SUCCESS"}

----------------------------------------------------------------------------
Goto(r, step) == pc' = [pc EXCEPT ![r] = step]

\* The runner returns or raises: it forgets its choice and the lock is released.
ReturnWith(r, result) ==
    /\ pc' = [pc EXCEPT ![r] = "idle"] /\ kind' = [kind EXCEPT ![r] = "none"]
    /\ frozen' = [frozen EXCEPT ![r] = [p \in Packages |-> "none"]]
    /\ todo' = [todo EXCEPT ![r] = {}]
    /\ cur' = [cur EXCEPT ![r] = 1] /\ from' = [from EXCEPT ![r] = "incoming"]
    /\ retrying' = [retrying EXCEPT ![r] = FALSE]
    /\ content' = [content EXCEPT ![r] = "registered"] /\ batch' = [batch EXCEPT ![r] = 0]
    /\ verdict' = [verdict EXCEPT ![r] = result]
    /\ lock' = IF lock = r THEN NoRunner ELSE lock

\* It reports FAILED, BLOCKED, BUSY or PAUSED, or nothing.
Return(r) == ReturnWith(r, "none")

\* A process is started: execute_replay, run_once or retry_once.
Begin(r, k) ==
    /\ pc[r] = "idle"
    /\ oneShots' = IF k = "replay" THEN oneShots ELSE oneShots + 1
    /\ oneShots' <= MaxOneShots
    /\ kind' = [kind EXCEPT ![r] = k]
    /\ verdict' = [verdict EXCEPT ![r] = "none"]
    /\ Goto(r, IF k = "run" THEN "gate" ELSE "lock")
    /\ UNCHANGED <<status, facts, lock, fileVars, choiceVars, workVars, faults, crashes>>

\* scan_and_ingest_us: list_us_blocking_failures, before the lock.
Gate(r) ==
    /\ pc[r] = "gate"
    /\ IF \E p \in Packages : status[p] \in {"FAILED", "MISSING_FILE"}
       THEN Return(r)
       ELSE Goto(r, "scan") /\ UNCHANGED <<kind, choiceVars, workVars, verdict, lock>>
    /\ UNCHANGED <<status, facts, fileVars, boundVars>>

\* register_us_package.
Register(p) ==
    CASE status[p] = "UNREGISTERED" -> "REGISTERED"
      [] status[p] = "MISSING_FILE" -> "FAILED"
      [] OTHER -> status[p]

\* scan_us_incoming: other bytes for a known partition are a policy issue.
Scan(r) ==
    /\ pc[r] = "scan"
    /\ IF \E p \in Packages : incoming[p] = "other"
       THEN Return(r) /\ UNCHANGED status
       ELSE /\ status' = [p \in Packages |-> IF incoming[p] = "none" THEN status[p]
                                             ELSE Register(p)]
            /\ Goto(r, "lock")
            /\ UNCHANGED <<kind, choiceVars, workVars, verdict, lock>>
    /\ UNCHANGED <<facts, fileVars, boundVars>>

\* us_ingestion_guard: pg_try_advisory_lock.
Lock(r) ==
    /\ pc[r] = "lock"
    /\ IF lock = NoRunner
       THEN /\ lock' = r /\ Goto(r, "recover")
            /\ UNCHANGED <<kind, choiceVars, workVars, verdict>>
       ELSE Return(r)
    /\ UNCHANGED <<status, facts, fileVars, boundVars>>

Candidates(k) == IF k = "retry" THEN Retryable ELSE {"INTERRUPTED", "REGISTERED"}

\* recover_interrupted_us_ingestions, then pending_packages.
Recover(r) ==
    /\ pc[r] = "recover"
    /\ status' = [p \in Packages |-> IF status[p] = "PROCESSING" THEN "INTERRUPTED"
                                     ELSE status[p]]
    /\ todo' = [todo EXCEPT ![r] = IF kind[r] = "replay" THEN {}
                                   ELSE {p \in Packages : status'[p] \in Candidates(kind[r])}]
    /\ Goto(r, IF kind[r] = "replay" THEN "preflight" ELSE "choose")
    /\ UNCHANGED <<facts, lock, fileVars, kind, frozen, cur, from, retrying, workVars,
                   verdict, boundVars>>

----------------------------------------------------------------------------
\* The deterministic replay.

\* build_preflight: incoming before archive; one content for each package, and
\* the whole baseline.
Location(p) ==
    CASE incoming[p] # "none" -> "incoming"
      [] incoming[p] = "none" /\ archive[p] # {} -> "archive"
      [] OTHER -> "none"

SafeToReplay ==
    /\ \A p \in Packages : incoming[p] # "other"
    /\ \A p \in 1..NumHistory : Location(p) # "none"

Preflight(r) ==
    /\ pc[r] = "preflight"
    /\ IF SafeToReplay
       THEN /\ frozen' = [frozen EXCEPT ![r] = [p \in Packages |-> Location(p)]]
            /\ Goto(r, "plan")
            /\ UNCHANGED <<kind, todo, cur, from, retrying, workVars, verdict, lock>>
       ELSE Return(r)
    /\ UNCHANGED <<status, facts, fileVars, boundVars>>

Planned(r) == {p \in Packages : frozen[r][p] # "none"}
Unfinished(r) == Planned(r) \ Accepted

\* Bug: registered packages that the preflight did not see are ignored.
BlockedPlanOnly(r) ==
    \E p \in Unfinished(r) : \/ frozen[r][p] # "incoming"
                             \/ \E q \in Accepted \cap Planned(r) : p < q

\* Bug: a failed package has to be repaired by hand before the replay goes on.
BlockedByFailure(r) ==
    \/ ~(Registered \subseteq Planned(r))
    \/ \E p \in Unfinished(r) : \/ frozen[r][p] # "incoming"
                                \/ \E q \in Accepted \cap Planned(r) : p < q
                                \/ status[p] = "FAILED"

\* build_replay_plan: a registered package outside the frozen sources, an
\* accepted one after an unfinished one, a source that has to be staged.
Blocked(r) ==
    \/ ~(Registered \subseteq Planned(r))
    \/ \E p \in Unfinished(r) : \/ frozen[r][p] # "incoming"
                                \/ \E q \in Accepted \cap Planned(r) : p < q

Plan(r) ==
    /\ pc[r] = "plan"
    /\ \/ Blocked(r) /\ Return(r)
       \/ ~Blocked(r) /\ Unfinished(r) = {} /\ ReturnWith(r, "COMPLETE")
       \/ /\ ~Blocked(r) /\ Unfinished(r) # {}
          /\ LET p == First(Unfinished(r)) IN
             /\ cur' = [cur EXCEPT ![r] = p]
             /\ from' = [from EXCEPT ![r] = "incoming"]
             /\ retrying' = [retrying EXCEPT ![r] = status[p] \in Retryable]
          /\ Goto(r, "discover")
          /\ UNCHANGED <<kind, frozen, todo, workVars, verdict, lock>>
    /\ UNCHANGED <<status, facts, fileVars, boundVars>>

\* max_packages is reached, or the before_package hook stops the replay.
Pause(r) ==
    /\ pc[r] = "discover"
    /\ Return(r)
    /\ UNCHANGED <<status, facts, fileVars, boundVars>>

\* _discovered_package and REGISTER_AND_INGEST; a package that still says
\* PROCESSING ends the replay.
Discover(r) ==
    /\ pc[r] = "discover"
    /\ IF incoming[cur[r]] = "registered" /\ status[cur[r]] # "PROCESSING"
       THEN /\ status' = [status EXCEPT ![cur[r]] = IF @ = "UNREGISTERED" THEN "REGISTERED" ELSE @]
            /\ Goto(r, "hash")
            /\ UNCHANGED <<kind, choiceVars, workVars, verdict, lock>>
       ELSE Return(r) /\ UNCHANGED status
    /\ UNCHANGED <<facts, fileVars, boundVars>>

----------------------------------------------------------------------------
\* The one-shot run and retry: ingest_pending_us.

\* _resolve_us_package_path: a copy with the registered digest.
Resolved(p) ==
    CASE incoming[p] = "registered" -> "incoming"
      [] incoming[p] # "registered" /\ "registered" \in archive[p] -> "archive"
      [] OTHER -> "none"

\* The first candidate by rank; a missing one is marked and passed over.
Choose(r) ==
    /\ pc[r] = "choose" /\ todo[r] # {}
    /\ LET p == First(todo[r]) IN
       IF Resolved(p) = "none"
       THEN /\ status' = [status EXCEPT ![p] = "MISSING_FILE"]
            /\ todo' = [todo EXCEPT ![r] = @ \ {p}]
            /\ UNCHANGED <<pc, cur, from, retrying>>
       ELSE /\ cur' = [cur EXCEPT ![r] = p]
            /\ from' = [from EXCEPT ![r] = Resolved(p)]
            /\ retrying' = [retrying EXCEPT ![r] = status[p] \in Retryable]
            /\ todo' = [todo EXCEPT ![r] = {}]
            /\ Goto(r, "hash")
            /\ UNCHANGED status
    /\ UNCHANGED <<facts, lock, fileVars, kind, frozen, workVars, verdict, boundVars>>

NothingPending(r) ==
    /\ pc[r] = "choose" /\ todo[r] = {}
    /\ Return(r)
    /\ UNCHANGED <<status, facts, fileVars, boundVars>>

----------------------------------------------------------------------------
\* ingest_us_package.

\* Bug: an earlier package is ingested behind later ones.
MonotonicIgnored(p) == TRUE

\* _assert_monotonic_package_order.
Monotonic(p) == \A q \in Accepted : q <= p

\* What is in the directory now; the hash of a file that is gone raises.
Hash(r) ==
    /\ pc[r] = "hash"
    /\ LET there == IF from[r] = "incoming" THEN {incoming[cur[r]]} \ {"none"}
                    ELSE archive[cur[r]] \cap {"registered"} IN
       IF there # {} /\ Monotonic(cur[r])
       THEN /\ \E c \in there : content' = [content EXCEPT ![r] = c]
            /\ Goto(r, "begin")
            /\ UNCHANGED <<kind, choiceVars, batch, verdict, lock>>
       ELSE Return(r)
    /\ UNCHANGED <<status, facts, fileVars, boundVars>>

BeginPackage(r) ==
    /\ pc[r] = "begin"
    /\ status' = [status EXCEPT ![cur[r]] = "PROCESSING"]
    /\ Goto(r, "check")
    /\ UNCHANGED <<facts, lock, fileVars, kind, choiceVars, workVars, verdict, boundVars>>

\* Bug: the digest was checked when the package was chosen.
ShaUnchecked(r) == TRUE

ShaMatches(r) == content[r] = "registered"

\* The digest; then the outputs of an earlier attempt are deleted.
CheckPackage(r) ==
    /\ pc[r] = "check"
    /\ IF ShaMatches(r)
       THEN /\ facts' = IF retrying[r] THEN [facts EXCEPT ![cur[r]] = {}] ELSE facts
            /\ Goto(r, "load")
       ELSE Goto(r, "fail") /\ UNCHANGED facts
    /\ UNCHANGED <<status, lock, fileVars, kind, choiceVars, workVars, verdict, boundVars>>

\* SnapshotAwareUSBatchPublisher.
PublishBatch(r) ==
    /\ pc[r] = "load"
    /\ batch' = [batch EXCEPT ![r] = @ + 1]
    /\ facts' = [facts EXCEPT ![cur[r]] = @ \cup {<<content[r], batch[r] + 1>>}]
    /\ Goto(r, IF batch[r] + 1 = NumBatches THEN "archive" ELSE "load")
    /\ UNCHANGED <<status, lock, fileVars, kind, choiceVars, content, verdict, boundVars>>

\* _archive_package: a file that is already archived stays, another copy of it
\* is dropped.
Archive(r) ==
    /\ pc[r] = "archive"
    /\ IF from[r] = "archive"
       THEN Goto(r, "accept") /\ UNCHANGED fileVars
       ELSE IF incoming[cur[r]] = "none"
            THEN Goto(r, "fail") /\ UNCHANGED fileVars
            ELSE /\ archive' = [archive EXCEPT ![cur[r]] = @ \cup {incoming[cur[r]]}]
                 /\ incoming' = [incoming EXCEPT ![cur[r]] = "none"]
                 /\ Goto(r, "accept") /\ UNCHANGED fileOps
    /\ UNCHANGED <<status, facts, lock, kind, choiceVars, workVars, verdict, boundVars>>

Accept(r) ==
    /\ pc[r] = "accept"
    /\ status' = [status EXCEPT ![cur[r]] = "SUCCESS"]
    /\ Goto(r, "finish")
    /\ UNCHANGED <<facts, lock, fileVars, kind, choiceVars, workVars, verdict, boundVars>>

\* finish_job_run; the replay plans again, the one-shot cycles had a limit of one.
Finish(r) ==
    /\ pc[r] = "finish"
    /\ IF kind[r] = "replay"
       THEN /\ Goto(r, "plan") /\ batch' = [batch EXCEPT ![r] = 0]
            /\ UNCHANGED <<kind, choiceVars, content, verdict, lock>>
       ELSE Return(r)
    /\ UNCHANGED <<status, facts, fileVars, boundVars>>

\* The handler of ingest_us_package: the outputs are deleted, if that works.
CleanUp(r) ==
    /\ pc[r] = "fail"
    /\ facts' = [facts EXCEPT ![cur[r]] = {}]
    /\ Goto(r, "mark")
    /\ UNCHANGED <<status, lock, fileVars, kind, choiceVars, workVars, verdict, boundVars>>

MarkFailed(r) ==
    /\ pc[r] = "mark"
    /\ status' = [status EXCEPT ![cur[r]] = "FAILED"]
    /\ Return(r)
    /\ UNCHANGED <<facts, fileVars, boundVars>>

----------------------------------------------------------------------------
\* What goes wrong.

\* An exception inside the try block of ingest_us_package, in its clean-up (it
\* is swallowed), or in the write of FAILED (it is not).
Raises == {"begin", "check", "load", "archive", "accept"}
          \cup (IF LateErrors THEN {"finish"} ELSE {})

Fault(r) ==
    /\ faults < MaxFaults /\ faults' = faults + 1
    /\ \/ pc[r] \in Raises /\ Goto(r, "fail") /\ UNCHANGED <<kind, choiceVars, workVars, verdict, lock>>
       \/ pc[r] = "fail" /\ Goto(r, "mark") /\ UNCHANGED <<kind, choiceVars, workVars, verdict, lock>>
       \/ pc[r] = "mark" /\ Return(r)
    /\ UNCHANGED <<status, facts, fileVars, crashes, oneShots>>

Crash(r) ==
    /\ pc[r] # "idle"
    /\ crashes < MaxCrashes /\ crashes' = crashes + 1
    /\ Return(r)
    /\ UNCHANGED <<status, facts, fileVars, faults, oneShots>>

\* Nobody replaces a file while it is parsed.
Parsed(p) == \E r \in Runners : cur[r] = p /\ from[r] = "incoming"
                                /\ pc[r] \in {"begin", "check", "load", "archive"}

RestUnchanged == UNCHANGED <<status, facts, lock, pc, kind, choiceVars, workVars, verdict, boundVars>>

\* A daily package arrives.
Arrive(p) ==
    /\ status[p] = "UNREGISTERED" /\ incoming[p] = "none" /\ p > NumHistory
    /\ incoming' = [incoming EXCEPT ![p] = "registered"]
    /\ RestUnchanged /\ UNCHANGED <<archive, fileOps>>

\* A file disappears from incoming, or other bytes are put there.
Disturb(p, c) ==
    /\ fileOps < MaxFileOps /\ fileOps' = fileOps + 1
    /\ incoming[p] # c /\ status[p] # "UNREGISTERED"
    /\ c = "other" => ~Parsed(p)
    /\ incoming' = [incoming EXCEPT ![p] = c]
    /\ RestUnchanged /\ UNCHANGED archive

\* The operator puts the published file back.
Restore(p) ==
    /\ status[p] # "UNREGISTERED"
    /\ \/ incoming[p] = "other" /\ ~Parsed(p)
       \/ Location(p) = "none"
    /\ incoming' = [incoming EXCEPT ![p] = "registered"]
    /\ RestUnchanged /\ UNCHANGED <<archive, fileOps>>

\* apply_staging: an archived source is copied, never over another file.
Stage(p) ==
    /\ SafeToReplay
    /\ Location(p) = "archive" /\ "registered" \in archive[p]
    /\ incoming' = [incoming EXCEPT ![p] = "registered"]
    /\ RestUnchanged /\ UNCHANGED <<archive, fileOps>>

----------------------------------------------------------------------------
IngestStep(r) ==
    \/ Hash(r) \/ BeginPackage(r) \/ CheckPackage(r) \/ PublishBatch(r) \/ Archive(r)
    \/ Accept(r) \/ Finish(r) \/ CleanUp(r) \/ MarkFailed(r)

Step(r) ==
    \/ Gate(r) \/ Scan(r) \/ Recover(r) \/ Preflight(r) \/ Plan(r) \/ Discover(r)
    \/ Choose(r) \/ NothingPending(r) \/ IngestStep(r)

Files == \E p \in Packages :
            \/ Arrive(p) \/ Restore(p) \/ Stage(p)
            \/ \E c \in {"none", "other"} : Disturb(p, c)

Next ==
    \/ \E r \in Runners : \/ Step(r) \/ Lock(r) \/ Pause(r) \/ Fault(r) \/ Crash(r)
                          \/ \E k \in {"run", "retry", "replay"} : Begin(r, k)
    \/ Files

Spec == Init /\ [][Next]_vars

\* Runners go on; the operator puts files back, stages what is archived, and
\* begins the replay again and does not pause it for ever.
Repair == \E p \in Packages : Restore(p) \/ Stage(p)

Fairness ==
    /\ \A r \in Runners : WF_vars(Step(r) \/ Lock(r) \/ Begin(r, "replay"))
    /\ SF_vars(\E r \in Runners : Discover(r))
    /\ WF_vars(Repair)

FairSpec == Spec /\ Fairness

----------------------------------------------------------------------------
TypeOK ==
    /\ status \in [Packages -> Statuses]
    /\ incoming \in [Packages -> Contents \cup {"none"}]
    /\ archive \in [Packages -> SUBSET Contents]
    /\ facts \in [Packages -> SUBSET (Contents \X Batches)]
    /\ lock \in Runners \cup {NoRunner}
    /\ pc \in [Runners -> {"idle", "gate", "scan", "lock", "recover", "preflight", "plan", "discover",
                          "choose", "hash", "begin", "check", "load", "archive", "accept",
                          "finish", "fail", "mark"}]
    /\ kind \in [Runners -> {"none", "run", "retry", "replay"}]
    /\ frozen \in [Runners -> [Packages -> {"incoming", "archive", "none"}]]
    /\ todo \in [Runners -> SUBSET Packages]
    /\ cur \in [Runners -> Packages] /\ from \in [Runners -> {"incoming", "archive"}]
    /\ retrying \in [Runners -> BOOLEAN]
    /\ content \in [Runners -> Contents] /\ batch \in [Runners -> 0..NumBatches]
    /\ verdict \in [Runners -> {"none", "COMPLETE"}]
    /\ faults \in 0..MaxFaults /\ crashes \in 0..MaxCrashes
    /\ oneShots \in 0..MaxOneShots /\ fileOps \in 0..MaxFileOps

\* No package becomes part of the current snapshots behind a later one,
\* whichever entry point ingests it and whatever was skipped before it.
AcceptedInOrder ==
    [][\A p \in Packages : status[p] # "SUCCESS" /\ status'[p] = "SUCCESS" =>
         \A q \in Packages : q > p => status[q] # "SUCCESS"]_vars

\* An accepted package has exactly the rows of the registered bytes, and the
\* file with these bytes was archived: no attempt that stopped half-way and no
\* file that was replaced under the frozen preflight leaves anything else.
SuccessIsWhole ==
    \A p \in Accepted : /\ facts[p] = {"registered"} \X Batches
                        /\ archive[p] = {"registered"}

\* A replay that reports COMPLETE leaves no registered package unfinished,
\* also when packages arrived and were registered while it worked.
CompleteIsComplete ==
    [][\A r \in Runners : verdict[r] # "COMPLETE" /\ verdict'[r] = "COMPLETE" =>
         Registered \subseteq Accepted]_vars

\* The corpus is accepted in the end; only a package that was passed over,
\* because it was missing or came late, keeps the replay from completing.
PassedOver == \E p, q \in Packages : p < q /\ q \in Accepted /\ p \in Registered \ Accepted

Settles == <>[](Registered \subseteq Accepted \/ PassedOver)
=============================================================================
