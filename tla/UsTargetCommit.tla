--------------------------- MODULE UsTargetCommit ---------------------------
(***************************************************************************)
(* One child operator of the US Application target bulk, in detail:        *)
(* execute_bulk_plan of app/us/target_bulk_replay.                         *)
(*                                                                         *)
(* A package is parsed into staging tables of its own and copied from them *)
(* into the final tables, one INSERT ... SELECT per table.  Two sealed     *)
(* files are written around every step: the journal of the plan and the    *)
(* journal of the package.  The child may die between any two steps, the   *)
(* server may go on with a statement whose client is gone, apply a part of *)
(* it, or drop it, and background merges may remove rows that a later      *)
(* package replaced.                                                       *)
(*                                                                         *)
(* The rows of a package in a table are counted in blocks, the unit in     *)
(* which the server makes an INSERT visible.                               *)
(***************************************************************************)
EXTENDS Integers

CONSTANTS
    Plans,          \* child plans
    PackageOf,      \* the suffix package of a plan
    NoPlan,
    NumTables,      \* final tables, in the order they are committed
    Rows,           \* blocks of a package in a table
    MaxCrashes,     \* bound: children that die
    MaxFaults,      \* bound: checks, statements and transports that fail
    MaxMerges       \* bound: blocks removed by merges

Bridge == 1
Tables == 1..NumTables
Packages == {Bridge} \cup {PackageOf[q] : q \in Plans}

ASSUME CommitConstants ==
    /\ NoPlan \notin Plans
    /\ PackageOf \in [Plans -> Nat \ {0, Bridge}]
    /\ NumTables \in Nat \ {0}
    /\ Rows \in [Packages -> [Tables -> Nat]]
    /\ MaxCrashes \in Nat /\ MaxFaults \in Nat /\ MaxMerges \in Nat

VARIABLES
    holder,      \* plan of the child that holds the mutation lock
    pc, cur, tbl,\* where it is: step, package, table
    bulk,        \* state of each plan's journal
    pkg,         \* status of a package in each plan's journal
    canary,      \* state of each package's journal
    commit,      \* status of each table in it
    stage,       \* staging table of a package and a table
    final,       \* blocks visible in the final table
    flying,      \* blocks still to come of a statement the server executes
    merged,      \* blocks a merge has removed
    issued,      \* INSERTs ever sent for a package and a table
    crashes, faults

childVars == <<pc, cur, tbl>>
journalVars == <<bulk, pkg, canary, commit>>
serverVars == <<final, flying, merged, issued>>
boundVars == <<crashes, faults>>
vars == <<holder, childVars, journalVars, stage, serverVars, boundVars>>

Pcs == {"idle", "open", "run", "next", "commit", "unstage", "ddl", "load", "staged",
        "resume", "tables", "insert", "confirm", "verify", "cleanup", "drop", "audit"}

Init ==
    /\ holder = NoPlan
    /\ pc = "idle" /\ cur = Bridge /\ tbl = 1
    /\ bulk = [q \in Plans |-> "NONE"]
    /\ pkg = [q \in Plans |-> [p \in Packages |-> "PENDING"]]
    /\ canary = [p \in Packages |-> "NONE"]
    /\ commit = [p \in Packages |-> [t \in Tables |-> "PENDING"]]
    /\ stage = [p \in Packages |-> [t \in Tables |-> "none"]]
    /\ final = [p \in Packages |-> [t \in Tables |-> 0]]
    /\ flying = [p \in Packages |-> [t \in Tables |-> 0]]
    /\ merged = [p \in Packages |-> [t \in Tables |-> 0]]
    /\ issued = [p \in Packages |-> [t \in Tables |-> 0]]
    /\ crashes = 0 /\ faults = 0

----------------------------------------------------------------------------
\* The checks.

\* Bug: any visible row counts as the whole INSERT.
FullIfAny(p, t) == Rows[p][t] = 0 \/ final[p][t] > 0

\* _final_package_counts and the cardinality test of commit_staged_tables.
Full(p, t) == final[p][t] = Rows[p][t]
NoFinalRows(p) == \A t \in Tables : final[p][t] = 0
NoStage(p) == \A t \in Tables : stage[p][t] = "none"
StageComplete(p) == \A t \in Tables : stage[p][t] = "full"

\* _verify_complete_canary.
CanaryVerified(p) == canary[p] = "COMPLETE" /\ \A t \in Tables : Full(p, t)

\* The packages of a plan that its journal does not call COMPLETE.
Unfinished(q) == {p \in {Bridge, PackageOf[q]} : pkg[q][p] # "COMPLETE"}

----------------------------------------------------------------------------
\* The child.

Goto(step) == pc' = step /\ UNCHANGED <<cur, tbl>>
At(step) == holder # NoPlan /\ pc = step

\* _execute: engine_mutation_guard; a child that finds the lock busy exits.
Launch(q) ==
    /\ holder = NoPlan
    /\ holder' = q
    /\ pc' = "open" /\ cur' = Bridge /\ tbl' = 1
    /\ UNCHANGED <<journalVars, stage, serverVars, boundVars>>

Exits == holder' = NoPlan /\ pc' = "idle" /\ UNCHANGED <<cur, tbl>>

\* An existing journal is loaded, a missing one initialized.
OpenJournal ==
    /\ At("open")
    /\ bulk' = [bulk EXCEPT ![holder] = IF @ = "NONE" THEN "PREPARED" ELSE @]
    /\ Goto("run")
    /\ UNCHANGED <<holder, pkg, canary, commit, stage, serverVars, boundVars>>

\* Bug: a blocked journal can not be resumed.
MarkRunningNeverBlocked ==
    /\ At("run")
    /\ IF bulk[holder] = "BLOCKED"
       THEN Exits /\ UNCHANGED bulk
       ELSE /\ bulk' = [bulk EXCEPT ![holder] = IF @ = "COMPLETE" THEN @ ELSE "RUNNING"]
            /\ Goto("next") /\ UNCHANGED holder
    /\ UNCHANGED <<pkg, canary, commit, stage, serverVars, boundVars>>

\* mark_bulk_running.
MarkRunning ==
    /\ At("run")
    /\ bulk' = [bulk EXCEPT ![holder] = IF @ = "COMPLETE" THEN @ ELSE "RUNNING"]
    /\ Goto("next")
    /\ UNCHANGED <<holder, pkg, canary, commit, stage, serverVars, boundVars>>

\* Bug: the suffix package before the bridge.
NextPackageSuffixFirst ==
    /\ At("next")
    /\ IF Unfinished(holder) = {}
       THEN Goto("audit")
       ELSE LET p == CHOOSE p \in Unfinished(holder) :
                        \A other \in Unfinished(holder) : p >= other IN
            /\ cur' = p
            /\ tbl' = 1
            /\ pc' = IF pkg[holder][p] = "PENDING" THEN "commit" ELSE "cleanup"
    /\ UNCHANGED <<holder, journalVars, stage, serverVars, boundVars>>

\* The loop over plan["packages"]: the bridge first.
NextPackage ==
    /\ At("next")
    /\ IF Unfinished(holder) = {}
       THEN Goto("audit")
       ELSE LET p == IF Bridge \in Unfinished(holder) THEN Bridge ELSE PackageOf[holder] IN
            /\ cur' = p
            /\ tbl' = 1
            /\ pc' = IF pkg[holder][p] = "PENDING" THEN "commit" ELSE "cleanup"
    /\ UNCHANGED <<holder, journalVars, stage, serverVars, boundVars>>

\* commit_one_package: a package without a journal must have no rows.
InitCanary ==
    /\ At("commit") /\ canary[cur] = "NONE"
    /\ NoFinalRows(cur)
    /\ canary' = [canary EXCEPT ![cur] = "PREPARED"]
    /\ UNCHANGED <<holder, childVars, bulk, pkg, commit, stage, serverVars, boundVars>>

\* A journal that is COMPLETE is verified again, never replayed.
AdoptComplete ==
    /\ At("commit") /\ canary[cur] = "COMPLETE"
    /\ Goto("verify")
    /\ UNCHANGED <<holder, journalVars, stage, serverVars, boundVars>>

\* Bug: an attempt that stopped before its first INSERT is staged again, even
\* when its staging was complete.
RecoverAnyStaging ==
    /\ At("commit") /\ canary[cur] \in {"STAGING", "STAGED"}
    /\ \A t \in Tables : commit[cur][t] = "PENDING"
    /\ NoFinalRows(cur)
    /\ Goto("unstage")
    /\ UNCHANGED <<holder, journalVars, stage, serverVars, boundVars>>

\* _recover_interrupted_staging: only while nothing was sent to a final table.
RecoverStaging ==
    /\ At("commit") /\ canary[cur] = "STAGING"
    /\ \A t \in Tables : commit[cur][t] = "PENDING"
    /\ NoFinalRows(cur)
    /\ Goto("unstage")
    /\ UNCHANGED <<holder, journalVars, stage, serverVars, boundVars>>

DropStageTable(p, t) ==
    /\ stage[p][t] # "none"
    /\ stage' = [stage EXCEPT ![p][t] = "none"]

DropInterrupted ==
    /\ At("unstage")
    /\ \E t \in Tables : DropStageTable(cur, t)
    /\ UNCHANGED <<holder, childVars, journalVars, serverVars, boundVars>>

\* reset_interrupted_staging_after_verified_zero_final.
ResetStaging ==
    /\ At("unstage") /\ NoStage(cur)
    /\ canary' = [canary EXCEPT ![cur] = "PREPARED"]
    /\ Goto("commit")
    /\ UNCHANGED <<holder, bulk, pkg, commit, stage, serverVars, boundVars>>

\* _reconcile_prepared and mark_stage_started.
StartStaging ==
    /\ At("commit") /\ canary[cur] = "PREPARED"
    /\ \A t \in Tables : commit[cur][t] = "PENDING"
    /\ NoStage(cur) /\ NoFinalRows(cur)
    /\ canary' = [canary EXCEPT ![cur] = "STAGING"]
    /\ Goto("ddl")
    /\ UNCHANGED <<holder, bulk, pkg, commit, stage, serverVars, boundVars>>

\* stage_ddl_from_manifest.
CreateStage ==
    /\ At("ddl")
    /\ stage' = [stage EXCEPT ![cur] = [t \in Tables |-> "created"]]
    /\ Goto("load")
    /\ UNCHANGED <<holder, journalVars, serverVars, boundVars>>

\* stage_package_rows.
LoadStage ==
    /\ At("load")
    /\ stage' = [stage EXCEPT ![cur] = [t \in Tables |-> "full"]]
    /\ Goto("staged")
    /\ UNCHANGED <<holder, journalVars, serverVars, boundVars>>

\* mark_stage_complete: the staged rows are counted again.
MarkStaged ==
    /\ At("staged") /\ StageComplete(cur)
    /\ canary' = [canary EXCEPT ![cur] = "STAGED"]
    /\ Goto("resume")
    /\ UNCHANGED <<holder, bulk, pkg, commit, stage, serverVars, boundVars>>

ResumeCommit ==
    /\ At("commit") /\ canary[cur] \in {"STAGED", "COMMITTING"}
    /\ Goto("resume")
    /\ UNCHANGED <<holder, journalVars, stage, serverVars, boundVars>>

\* commit_staged_tables begins: _verify_stage_again.
VerifyStage ==
    /\ At("resume") /\ StageComplete(cur)
    /\ pc' = "tables" /\ tbl' = 1 /\ UNCHANGED cur
    /\ UNCHANGED <<holder, journalVars, stage, serverVars, boundVars>>

NextTable == pc' = "tables" /\ tbl' = tbl + 1 /\ UNCHANGED cur
Committed ==
    /\ commit' = [commit EXCEPT ![cur][tbl] = "COMMITTED"]
    /\ canary' = [canary EXCEPT ![cur] = "COMMITTING"]

TableDone ==
    /\ At("tables") /\ tbl \in Tables
    /\ commit[cur][tbl] = "COMMITTED" /\ Full(cur, tbl)
    /\ NextTable
    /\ UNCHANGED <<holder, journalVars, stage, serverVars, boundVars>>

\* An INSERT of unknown outcome turns out to be complete, or there is nothing
\* to insert.
TableAdopted ==
    /\ At("tables") /\ tbl \in Tables
    /\ Full(cur, tbl)
    /\ \/ commit[cur][tbl] = "INSERT_STARTED"
       \/ commit[cur][tbl] = "PENDING" /\ Rows[cur][tbl] = 0
    /\ Committed /\ NextTable
    /\ UNCHANGED <<holder, bulk, pkg, stage, serverVars, boundVars>>

\* Bug: an INSERT without a visible row is taken for one that never ran.
TableStartedAgain ==
    /\ At("tables") /\ tbl \in Tables
    /\ commit[cur][tbl] \in {"PENDING", "INSERT_STARTED"}
    /\ final[cur][tbl] = 0 /\ Rows[cur][tbl] # 0
    /\ commit' = [commit EXCEPT ![cur][tbl] = "INSERT_STARTED"]
    /\ canary' = [canary EXCEPT ![cur] = "COMMITTING"]
    /\ Goto("insert")
    /\ UNCHANGED <<holder, bulk, pkg, stage, serverVars, boundVars>>

\* The journal says so before the INSERT is sent.
TableStarted ==
    /\ At("tables") /\ tbl \in Tables
    /\ commit[cur][tbl] = "PENDING"
    /\ final[cur][tbl] = 0 /\ Rows[cur][tbl] # 0
    /\ commit' = [commit EXCEPT ![cur][tbl] = "INSERT_STARTED"]
    /\ canary' = [canary EXCEPT ![cur] = "COMMITTING"]
    /\ Goto("insert")
    /\ UNCHANGED <<holder, bulk, pkg, stage, serverVars, boundVars>>

SendInsert ==
    /\ At("insert")
    /\ flying' = [flying EXCEPT ![cur][tbl] = @ + Rows[cur][tbl]]
    /\ issued' = [issued EXCEPT ![cur][tbl] = @ + 1]
    /\ Goto("confirm")
    /\ UNCHANGED <<holder, journalVars, stage, final, merged, boundVars>>

\* The statement has ended and the rows are counted.
ConfirmInsert ==
    /\ At("confirm") /\ flying[cur][tbl] = 0 /\ Full(cur, tbl)
    /\ Committed /\ NextTable
    /\ UNCHANGED <<holder, bulk, pkg, stage, serverVars, boundVars>>

\* All tables are counted once more before the journal is COMPLETE.
MarkCanaryComplete ==
    /\ At("tables") /\ tbl \notin Tables
    /\ \A t \in Tables : commit[cur][t] = "COMMITTED" /\ Full(cur, t)
    /\ canary' = [canary EXCEPT ![cur] = "COMPLETE"]
    /\ Goto("verify")
    /\ UNCHANGED <<holder, bulk, pkg, commit, stage, serverVars, boundVars>>

\* mark_package_final_verified.
MarkVerified ==
    /\ At("verify") /\ CanaryVerified(cur)
    /\ pkg' = [pkg EXCEPT ![holder][cur] = "FINAL_VERIFIED"]
    /\ bulk' = [bulk EXCEPT ![holder] = "RUNNING"]
    /\ Goto("cleanup")
    /\ UNCHANGED <<holder, canary, commit, stage, serverVars, boundVars>>

\* cleanup_one_package verifies the package once more, then drops its staging.
VerifyBeforeDrop ==
    /\ At("cleanup") /\ CanaryVerified(cur)
    /\ Goto("drop")
    /\ UNCHANGED <<holder, journalVars, stage, serverVars, boundVars>>

DropStaged ==
    /\ At("drop")
    /\ \E t \in Tables : DropStageTable(cur, t)
    /\ UNCHANGED <<holder, childVars, journalVars, serverVars, boundVars>>

\* mark_package_complete; the last one completes the plan.
MarkComplete ==
    /\ At("drop") /\ NoStage(cur)
    /\ pkg' = [pkg EXCEPT ![holder][cur] = "COMPLETE"]
    /\ bulk' = [bulk EXCEPT ![holder] =
                    IF Unfinished(holder) \subseteq {cur} THEN "COMPLETE" ELSE "RUNNING"]
    /\ Goto("next")
    /\ UNCHANGED <<holder, canary, commit, stage, serverVars, boundVars>>

\* audit_bulk_plan is read-only: the child exits with its verdict.
Audit ==
    /\ At("audit")
    /\ Exits
    /\ UNCHANGED <<journalVars, stage, serverVars, boundVars>>

----------------------------------------------------------------------------
\* What goes wrong.

\* A check that its step relies on does not hold: the step raises.
Refused ==
    \/ pc = "commit" /\ canary[cur] = "NONE" /\ ~NoFinalRows(cur)
    \/ pc = "commit" /\ canary[cur] = "STAGING" /\ ~NoFinalRows(cur)
    \/ /\ pc = "commit" /\ canary[cur] = "PREPARED"
       /\ ~(NoStage(cur) /\ NoFinalRows(cur))
    \/ pc \in {"staged", "resume"} /\ ~StageComplete(cur)
    \/ /\ pc = "tables" /\ tbl \in Tables
       /\ \/ commit[cur][tbl] # "PENDING" /\ ~Full(cur, tbl)
          \/ commit[cur][tbl] = "PENDING" /\ final[cur][tbl] # 0
    \/ pc = "tables" /\ tbl \notin Tables /\ \E t \in Tables : ~Full(cur, t)
    \/ pc = "confirm" /\ flying[cur][tbl] = 0 /\ ~Full(cur, tbl)
    \/ pc \in {"verify", "cleanup"} /\ ~CanaryVerified(cur)

\* mark_bulk_blocked, and the exception leaves the child.
Raise ==
    /\ bulk' = [bulk EXCEPT ![holder] = "BLOCKED"]
    /\ Exits
    /\ UNCHANGED <<pkg, canary, commit, stage, serverVars>>

Refuse ==
    /\ holder # NoPlan /\ Refused
    /\ Raise
    /\ UNCHANGED boundVars

\* Capacity, schema, storage or source drift, a failing statement, a transport
\* that times out while the server goes on.
Fault ==
    /\ holder # NoPlan /\ pc \notin {"open", "run", "audit"} /\ bulk[holder] # "COMPLETE"
    /\ faults < MaxFaults /\ faults' = faults + 1
    /\ Raise
    /\ UNCHANGED crashes

\* Package 2 does not verify, or the journal cannot be written.
OpenFault ==
    /\ At("open")
    /\ faults < MaxFaults /\ faults' = faults + 1
    /\ Exits
    /\ UNCHANGED <<journalVars, stage, serverVars, crashes>>

Crash ==
    /\ holder # NoPlan
    /\ crashes < MaxCrashes /\ crashes' = crashes + 1
    /\ Exits
    /\ UNCHANGED <<journalVars, stage, serverVars, faults>>

\* The server makes a block visible, with or without a client.
ApplyBlock(p, t) ==
    /\ flying[p][t] > 0
    /\ flying' = [flying EXCEPT ![p][t] = @ - 1]
    /\ final' = [final EXCEPT ![p][t] = @ + 1]
    /\ UNCHANGED <<holder, childVars, journalVars, stage, merged, issued, boundVars>>

\* The server gives a statement up; what is visible stays.
AbortInsert(p, t) ==
    /\ flying[p][t] > 0
    /\ faults < MaxFaults /\ faults' = faults + 1
    /\ flying' = [flying EXCEPT ![p][t] = 0]
    /\ UNCHANGED <<holder, childVars, journalVars, stage, final, merged, issued, crashes>>

Merges == {m \in Packages \X Tables : merged[m[1]][m[2]] > 0}

\* A ReplacingMergeTree drops rows for which a later package has newer ones.
Merge(p, t) ==
    /\ final[p][t] > 0 /\ merged[p][t] < MaxMerges
    /\ Merges \subseteq {<<p, t>>}
    /\ \E later \in Packages : later > p /\ final[later][t] > 0
    /\ final' = [final EXCEPT ![p][t] = @ - 1]
    /\ merged' = [merged EXCEPT ![p][t] = @ + 1]
    /\ UNCHANGED <<holder, childVars, journalVars, stage, flying, issued, boundVars>>

----------------------------------------------------------------------------
Stage == \/ InitCanary \/ AdoptComplete \/ RecoverStaging \/ DropInterrupted
         \/ ResetStaging \/ StartStaging \/ CreateStage \/ LoadStage \/ MarkStaged

CommitTables == \/ ResumeCommit \/ VerifyStage \/ TableDone \/ TableAdopted
                \/ TableStarted \/ SendInsert \/ ConfirmInsert \/ MarkCanaryComplete

Close == MarkVerified \/ VerifyBeforeDrop \/ DropStaged \/ MarkComplete \/ Audit

ChildStep == OpenJournal \/ MarkRunning \/ NextPackage \/ Stage \/ CommitTables \/ Close \/ Refuse

Next ==
    \/ \E q \in Plans : Launch(q)
    \/ ChildStep
    \/ Fault \/ OpenFault \/ Crash
    \/ \E p \in Packages, t \in Tables :
          ApplyBlock(p, t) \/ AbortInsert(p, t) \/ Merge(p, t)

\* A child that runs goes on, the server ends what it executes, and the
\* operator resumes every plan that is not complete.
Fairness ==
    /\ WF_vars(ChildStep)
    /\ \A p \in Packages, t \in Tables : WF_vars(ApplyBlock(p, t))
    /\ \A q \in Plans : SF_vars(Launch(q))

Spec == Init /\ [][Next]_vars /\ Fairness

----------------------------------------------------------------------------
TypeOK ==
    /\ holder \in Plans \cup {NoPlan}
    /\ pc \in Pcs /\ cur \in Packages /\ tbl \in 1..(NumTables + 1)
    /\ bulk \in [Plans -> {"NONE", "PREPARED", "RUNNING", "BLOCKED", "COMPLETE"}]
    /\ pkg \in [Plans -> [Packages -> {"PENDING", "FINAL_VERIFIED", "COMPLETE"}]]
    /\ canary \in [Packages -> {"NONE", "PREPARED", "STAGING", "STAGED", "COMMITTING",
                                "COMPLETE"}]
    /\ commit \in [Packages -> [Tables -> {"PENDING", "INSERT_STARTED", "COMMITTED"}]]
    /\ stage \in [Packages -> [Tables -> {"none", "created", "full"}]]
    /\ final \in [Packages -> [Tables -> Nat]]
    /\ flying \in [Packages -> [Tables -> Nat]]
    /\ merged \in [Packages -> [Tables -> Nat]]
    /\ issued \in [Packages -> [Tables -> Nat]]
    /\ crashes \in 0..MaxCrashes /\ faults \in 0..MaxFaults

\* No child, however often the plan is resumed, sends the INSERT of a package
\* into a table twice: an append-only table would keep the rows twice.  The
\* journal says INSERT_STARTED before the statement is sent and a resumed
\* child never sends it again, whatever it finds.
InsertedOnce ==
    \A p \in Packages, t \in Tables :
        /\ issued[p][t] <= 1
        /\ issued[p][t] = 1 => commit[p][t] # "PENDING"

\* While the final copy of a package is not verified table by table, the
\* staged copy it was made from is still whole: neither the recovery of an
\* interrupted staging nor a cleanup may drop it.
StageUntilCommitted ==
    \A p \in Packages : canary[p] \in {"STAGED", "COMMITTING"} => StageComplete(p)

\* A package a plan calls verified has had all of its rows in every table, no
\* statement of it is still running, and once it is COMPLETE its staging is
\* gone.
AcceptedIsWhole ==
    \A q \in Plans, p \in Packages :
        /\ pkg[q][p] # "PENDING" =>
              \A t \in Tables : /\ final[p][t] + merged[p][t] = Rows[p][t]
                                /\ flying[p][t] = 0
        /\ pkg[q][p] = "COMPLETE" => NoStage(p)

\* What the child promises to the host worker, whatever happens inside it.
Contract == INSTANCE UsTargetChild WITH
    begun <- {p \in Packages : canary[p] # "NONE"},
    accepted <- {p \in Packages : canary[p] = "COMPLETE"},
    journal <- [q \in Plans |-> CASE bulk[q] = "NONE" -> "NONE"
                                  [] bulk[q] = "COMPLETE" -> "COMPLETE"
                                  [] OTHER -> "OPEN"]
KeepsContract == Contract!Spec

\* A resumed plan completes, unless an INSERT of unknown outcome left a table
\* without all of its rows, or a merge removed rows of a package after it was
\* counted: only these two need an operator to look at the target itself.
Uncertain(p) ==
    \E t \in Tables : \/ commit[p][t] = "INSERT_STARTED" /\ ~Full(p, t)
                      \/ merged[p][t] > 0

Settles ==
    \A q \in Plans : <>[](\/ bulk[q] = "COMPLETE"
                          \/ Uncertain(Bridge) \/ Uncertain(PackageOf[q]))
=============================================================================
