-------------------------- MODULE CountryInference --------------------------
(***************************************************************************)
(* Contact country inference: the resumable run                            *)
(* (country_inference_work.py), its membership guard trigger               *)
(* (country_inference_work_guard.py), the audit and the activation of a    *)
(* persisted preview (country_inference_run_audit.py,                      *)
(* country_inference_run_activate.py).                                     *)
(*                                                                         *)
(* A run walks the contact entities without a country in the order of      *)
(* their ids, one batch (a durable work unit: an id range and a count) at  *)
(* a time.  Three tables carry it: the run row, the ledger of work units   *)
(* and one inference row per entity, which belongs to the run that wrote   *)
(* it last.  A batch is read, recorded in the ledger, evaluated and        *)
(* committed, and marked SUCCESS in four transactions, between which the   *)
(* process may die; resuming reconciles the ledger with the inference      *)
(* rows.  Runs and activations exclude each other by a session advisory    *)
(* lock, taken after the run row has been read or created; contact imports *)
(* go on meanwhile and move entities in and out of the candidates.         *)
(*                                                                         *)
(* Its names differ from those of ContactTasks: ContactProofs extends both.*)
(***************************************************************************)
EXTENDS Integers, FiniteSets, FiniteSetsExt

CONSTANTS
    NumEntities,  \* entity ids 1 .. NumEntities, in the order of the uuids
    Cmds,         \* processes started by operators, one invocation at a time
    BatchSize,    \* batch_size
    Configs,      \* what a run may be given: apply, and max_entities (0 is None)
    Contacts,     \* the entities that are contacts without a country at first
    EarlyResume,  \* may a run be resumed before its creator has tried the lock?
    Evidence,     \* what infer_from_evidence may conclude: functions of entities
    MaxRuns,      \* bound on created runs
    MaxFails,     \* bound on crashes and failing calls
    MaxImports    \* bound on contact imports that change a candidate

Entities == 1 .. NumEntities
Runs == 1 .. MaxRuns

\* ACCEPTED rows are SAFE (activation takes them) or DEFERRED (confidence below
\* 0.90, or city-corpus evidence only); CONFLICT and INSUFFICIENT are OTHER.
Accepted == {"SAFE", "DEFERRED"}
Verdicts == Accepted \cup {"OTHER"}

ASSUME CountryAssumption ==
    /\ NumEntities \in Nat \ {0}
    /\ BatchSize \in Nat \ {0}
    /\ Configs \subseteq [apply : BOOLEAN, limit : Nat]
    /\ Contacts \subseteq Entities
    /\ EarlyResume \in BOOLEAN
    /\ Evidence \subseteq [Entities -> Verdicts]
    /\ MaxRuns \in Nat /\ MaxFails \in Nat /\ MaxImports \in Nat

VARIABLES
    ent,      \* entity.entity: absent from the contacts, country unknown, or sourced
    inf,      \* contact.entity_country_inference, one row per entity (run 0: none)
    run,      \* contact.country_inference_run
    units,    \* contact.country_inference_work_unit: the set of rows of each run
    runLock,  \* holder of COUNTRY_INFERENCE_LOCK, or {}
    cmd,      \* the local state of each process
    fails,    \* crashes and failed calls so far
    imports,  \* imports so far
    steady,   \* history: candidates at all times since the run was created
    evald     \* history: entities whose result the run has committed

countryVars == <<ent, inf, run, units, runLock, cmd, fails, imports, steady, evald>>

\* The steps of an invocation; those of Holding are taken with the lock.
Holding == {"reopen", "select", "mark", "commit", "done", "activate"}
Steps == Holding \cup {"idle", "lock"}

Idle == [pc |-> "idle", run |-> 0, resumed |-> FALSE, cursor |-> 0,
         pending |-> FALSE, index |-> 1, batch |-> {}]

CountryInit ==
    /\ ent = [e \in Entities |-> IF e \in Contacts THEN "unknown" ELSE "absent"]
    /\ inf = [e \in Entities |-> [run |-> 0, status |-> "OTHER", applied |-> FALSE]]
    /\ run = [r \in Runs |-> [status |-> "none", apply |-> FALSE, limit |-> 0,
                              evaluated |-> 0, accepted |-> 0]]
    /\ units = [r \in Runs |-> {}]
    /\ runLock = {}
    /\ cmd = [p \in Cmds |-> Idle]
    /\ fails = 0
    /\ imports = 0
    /\ steady = [r \in Runs |-> {}]
    /\ evald = [r \in Runs |-> {}]

-----------------------------------------------------------------------------
(* What the queries return.                                                *)

\* An entity whose country an accepted inference already shows.
Shown(e) == inf[e].applied /\ inf[e].status \in Accepted

\* The WHERE clause shared by _candidate_batch, _unknown_contact_count and the
\* fingerprint function of the membership guard.
Candidates == {e \in Entities : ent[e] = "unknown" /\ ~Shown(e)}

\* The k smallest members of S: ORDER BY entity_id LIMIT k.
FirstOf(S, k) == {e \in S : Cardinality({d \in S : d < e}) < k}

\* _candidate_batch(after, k).
CandidateBatch(after, k) == FirstOf({e \in Candidates : e > after}, k)

\* contact.country_inference_work_member_fingerprint(lower, upper).
Fingerprint(lower, upper) == {e \in Candidates : lower <= e /\ e <= upper}

\* The rows the run owns now: last_run_id = run_id.
Owned(r) == {e \in Entities : inf[e].run = r}
OwnedAccepted(r) == {e \in Owned(r) : inf[e].status \in Accepted}

\* artifact_count(row): rows of the run in the range of a unit.
ArtifactCount(r, u) == Cardinality({e \in Owned(r) : u.lower <= e /\ e <= u.upper})

-----------------------------------------------------------------------------
(* Starting, resuming and the lock.                                        *)

\* _unfinished_work_run: a RUNNING or FAILED run that has a work unit.
Unfinished(r) == run[r].status \in {"RUNNING", "FAILED"} /\ units[r] # {}

\* History: who is no longer a candidate after the step is no longer steady.
TrackSteady == steady' = [r \in Runs |-> steady[r] \cap Candidates']

\* A new run: refused while an unfinished one exists, else its row is created.
\* The check and the insert are two transactions; a row without units is seen
\* by no other process's check, so nothing can come between them that matters.
StartNew(p, cfg) ==
    /\ cmd[p].pc = "idle"
    /\ \A r \in Runs : ~Unfinished(r)
    /\ \E r \in Runs :
        /\ run[r].status = "none"
        /\ \A q \in Runs : q < r => run[q].status # "none"
        /\ run' = [run EXCEPT ![r].status = "RUNNING", ![r].apply = cfg.apply,
                              ![r].limit = cfg.limit]
        /\ cmd' = [cmd EXCEPT ![p] = [Idle EXCEPT !.pc = "lock", !.run = r]]
        /\ steady' = [steady EXCEPT ![r] = Candidates]
    /\ UNCHANGED <<ent, inf, units, runLock, fails, imports, evald>>

\* A resume reads the run row before it has the lock; SUCCESS only returns the
\* stored metrics and BUSY is refused, so neither changes anything.  A run id
\* is printed once the run has a unit; an operator who reads it from the table
\* may be early and overtake the process that has just created the run.
StartResume(p, r) ==
    /\ cmd[p].pc = "idle"
    /\ run[r].status \in {"RUNNING", "FAILED"}
    /\ \A q \in Cmds :
        cmd[q].run = r /\ cmd[q].pc = "lock" /\ ~cmd[q].resumed => EarlyResume
    /\ cmd' = [cmd EXCEPT ![p] = [Idle EXCEPT !.pc = "lock", !.run = r,
                                                !.resumed = TRUE]]
    /\ UNCHANGED <<ent, inf, run, units, runLock, fails, imports, steady, evald>>

\* pg_try_advisory_lock: can process p have the lock now?
LockFree(p) == runLock = {}

TakeLock(p) ==
    /\ cmd[p].pc = "lock"
    /\ LockFree(p)
    /\ runLock' = runLock \cup {p}
    /\ cmd' = [cmd EXCEPT ![p].pc = IF cmd[p].resumed THEN "reopen" ELSE "select"]
    /\ UNCHANGED <<ent, inf, run, units, fails, imports, steady, evald>>

\* The lock is held: a new run is closed as BUSY, a resumed one is left alone.
LockBusy(p) ==
    /\ cmd[p].pc = "lock"
    /\ ~LockFree(p)
    /\ run' = IF cmd[p].resumed THEN run
              ELSE [run EXCEPT ![cmd[p].run].status = "BUSY"]
    /\ cmd' = [cmd EXCEPT ![p] = Idle]
    /\ UNCHANGED <<ent, inf, units, runLock, fails, imports, steady, evald>>

-----------------------------------------------------------------------------
(* The error handler of run_country_inference_resumable.                   *)

\* The primary key of a unit within its run: the task key hashes the range.
SameKey(u, v) == u.lower = v.lower /\ u.upper = v.upper

\* The ledger of run r with status st for the unit that covers batch b; a unit
\* that was never inserted is not found.
WithStatus(r, b, st) ==
    [units EXCEPT ![r] = {IF u.lower = Min(b) /\ u.upper = Max(b)
                          THEN [u EXCEPT !.status = st] ELSE u : u \in units[r]}]

\* The ledger after the handler has marked the current unit, if there is one.
CurrentFailed(p) ==
    IF cmd[p].pc \in {"mark", "commit", "done"}
    THEN WithStatus(cmd[p].run, cmd[p].batch, "FAILED") ELSE units

\* The process stops with this ledger: the lock goes with it, and the run is
\* marked FAILED if that still can be done.
Stop(p, ledger, runFailed) ==
    /\ units' = ledger
    /\ run' = IF runFailed /\ cmd[p].pc \notin {"lock", "activate"}
              THEN [run EXCEPT ![cmd[p].run].status = "FAILED"] ELSE run
    /\ runLock' = runLock \ {p}
    /\ cmd' = [cmd EXCEPT ![p] = Idle]
    /\ UNCHANGED <<ent, inf, imports, steady, evald>>

\* A check of the code refuses to go on: the handler runs to its end.
Refuse(p) == Stop(p, CurrentFailed(p), TRUE) /\ UNCHANGED fails

\* A crash (neither write), or a failing call whose handler may fail as well.
Fail(p) ==
    /\ fails < MaxFails
    /\ cmd[p].pc # "idle"
    /\ \E s \in BOOLEAN : Stop(p, units, s) \/ Stop(p, CurrentFailed(p), s)
    /\ fails' = fails + 1

-----------------------------------------------------------------------------
(* Resuming.                                                               *)

\* Bug: the ledger is taken as it is.
ReconciledNever(r) == units[r]

\* Units with some of their rows only.
Partial(r) ==
    {u \in units[r] : u.status # "SUCCESS" /\ ArtifactCount(r, u) \notin {0, u.count}}

\* reconcile_committed_units: in the order of the ledger every unit is promoted
\* whose rows are all there, until a partial one raises.
Reconciled(r) ==
    {IF ArtifactCount(r, u) = u.count /\ \A v \in Partial(r) : u.index < v.index
     THEN [u EXCEPT !.status = "SUCCESS"] ELSE u : u \in units[r]}

\* Bug: a unit that was RUNNING when its process died counts as done.
OpenFailed(ledger) == {u \in ledger : u.status = "FAILED"}

\* resume_state: the units that are not SUCCESS yet.
Open(ledger) == {u \in ledger : u.status # "SUCCESS"}

\* resume_state's refusals: a task index missing or taken twice, and SUCCESS
\* after incomplete work.
Disordered(ledger) ==
    \/ {u.index : u \in ledger} # 1 .. Cardinality(ledger)
    \/ \E u \in Open(ledger), v \in ledger \ Open(ledger) : u.index < v.index

\* resume_state: the first unit to do again, or the index after the last unit.
ResumeIndex(ledger) ==
    Min({u.index : u \in Open(ledger)} \cup {Cardinality(ledger) + 1})

\* resume_state: the end of the last SUCCESS range, or None.
ResumeCursor(ledger) == Max({u.upper : u \in ledger \ Open(ledger)} \cup {0})

\* _set_run_running, whatever the row says by now, then resume_state.
Reopen(p) ==
    LET r == cmd[p].run
        ledger == Reconciled(r) IN
    /\ cmd[p].pc = "reopen"
    /\ IF Partial(r) # {} \/ Disordered(ledger)
       THEN Stop(p, [units EXCEPT ![r] = ledger], TRUE) /\ UNCHANGED fails
       ELSE /\ units' = [units EXCEPT ![r] = ledger]
            /\ run' = [run EXCEPT ![r].status = "RUNNING"]
            /\ cmd' = [cmd EXCEPT
                    ![p].pc = "select",
                    ![p].cursor = ResumeCursor(ledger),
                    ![p].pending = Open(ledger) # {},
                    ![p].index = ResumeIndex(ledger)]
            /\ UNCHANGED <<ent, inf, runLock, fails, imports, steady, evald>>

-----------------------------------------------------------------------------
(* The batch loop.                                                         *)

\* validate_resume_batch: same count, same first and same last entity.
SameRange(batch, u) ==
    /\ batch # {}
    /\ Cardinality(batch) = u.count
    /\ Min(batch) = u.lower
    /\ Max(batch) = u.upper

\* The size of the next fresh batch: batch_size, or what max_entities leaves of
\* it; the count of evaluated entities is the count of rows the run owns.
Take(r) ==
    IF run[r].limit = 0 THEN BatchSize
    ELSE Max({0, Min({BatchSize, run[r].limit - Cardinality(Owned(r))})})

\* assert_complete, the final counters and the SUCCESS status.
Complete(p) ==
    LET r == cmd[p].run IN
    IF Open(units[r]) # {}
    THEN Refuse(p)
    ELSE /\ run' = [run EXCEPT ![r].status = "SUCCESS",
                               ![r].evaluated = Cardinality(Owned(r)),
                               ![r].accepted = Cardinality(OwnedAccepted(r))]
         /\ runLock' = runLock \ {p}
         /\ cmd' = [cmd EXCEPT ![p] = Idle]
         /\ UNCHANGED <<ent, inf, units, fails, imports, steady, evald>>

\* The process goes on with this batch.
Selected(p, batch) ==
    /\ cmd' = [cmd EXCEPT ![p].pc = "mark", ![p].batch = batch]
    /\ UNCHANGED <<ent, inf, run, units, runLock, fails, imports, steady, evald>>

\* Read the batch: the pending range again, which must not have drifted, or
\* the next fresh one; without one the run is complete.
Select(p) ==
    LET r == cmd[p].run IN
    /\ cmd[p].pc = "select"
    /\ IF cmd[p].pending
       THEN LET u == CHOOSE v \in units[r] : v.index = cmd[p].index
                batch == CandidateBatch(cmd[p].cursor, u.count) IN
            IF SameRange(batch, u) THEN Selected(p, batch) ELSE Refuse(p)
       ELSE LET batch == CandidateBatch(cmd[p].cursor, Take(r)) IN
            IF batch = {} THEN Complete(p) ELSE Selected(p, batch)

\* mark_running inserts the unit of batch b with its fingerprint.
NewUnit(i, b) ==
    [index |-> i, lower |-> Min(b), upper |-> Max(b), count |-> Cardinality(b),
     members |-> Fingerprint(Min(b), Max(b)), status |-> "RUNNING"]

\* The trigger on a unit whose key is in the ledger already: its identity is
\* immutable, and its range may only be run again with the members it had when
\* it was recorded.
TriggerAllows(u, new) ==
    u.index = new.index /\ u.count = new.count /\ u.members = new.members

\* mark_running: an upsert, which the trigger may reject.
MarkRunning(p) ==
    LET r == cmd[p].run
        new == NewUnit(cmd[p].index, cmd[p].batch)
        old == {u \in units[r] : SameKey(u, new)} IN
    /\ cmd[p].pc = "mark"
    /\ IF \A u \in old : TriggerAllows(u, new)
       THEN /\ units' = [units EXCEPT ![r] = (@ \ old) \cup {new}]
            /\ cmd' = [cmd EXCEPT ![p].pc = "commit"]
            /\ UNCHANGED <<ent, inf, run, runLock, fails, imports, steady, evald>>
       ELSE Refuse(p)

\* _upsert_inference: the row now belongs to run r; applied_at, once set, stays.
Upserted(old, r, verdict, apply) ==
    [run |-> r, status |-> verdict, applied |-> old.applied \/ apply]

\* Evaluate the batch and commit its rows in one transaction; in apply mode an
\* accepted country shows at once, unless a source country has arrived.
CommitBatch(p) ==
    LET r == cmd[p].run
        b == cmd[p].batch IN
    /\ cmd[p].pc = "commit"
    /\ \E verdict \in Evidence :
        inf' = [e \in Entities |->
            IF e \in b
            THEN Upserted(inf[e], r, verdict[e],
                          run[r].apply /\ verdict[e] \in Accepted /\ ent[e] = "unknown")
            ELSE inf[e]]
    /\ evald' = [evald EXCEPT ![r] = @ \cup b]
    /\ cmd' = [cmd EXCEPT ![p].pc = "done"]
    /\ UNCHANGED <<ent, run, units, runLock, fails, imports>>
    /\ TrackSteady

\* mark_success; the cursor moves to the end of the range.
MarkSuccess(p) ==
    /\ cmd[p].pc = "done"
    /\ units' = WithStatus(cmd[p].run, cmd[p].batch, "SUCCESS")
    /\ cmd' = [cmd EXCEPT ![p].pc = "select", ![p].cursor = Max(cmd[p].batch),
                            ![p].pending = FALSE, ![p].index = @ + 1, ![p].batch = {}]
    /\ UNCHANGED <<ent, inf, run, runLock, fails, imports, steady, evald>>

-----------------------------------------------------------------------------
(* Audit and activation of a persisted preview.                            *)

\* activation_integrity_ready.
IntegrityReady(r) ==
    /\ run[r].status = "SUCCESS"
    /\ ~run[r].apply
    /\ Cardinality(Owned(r)) = run[r].evaluated
    /\ Cardinality(OwnedAccepted(r)) = run[r].accepted

\* Bug: activate without the inference lock.
StartActivationUnlocked(p, r) ==
    /\ cmd[p].pc = "idle"
    /\ IntegrityReady(r)
    /\ cmd' = [cmd EXCEPT ![p] = [Idle EXCEPT !.pc = "activate", !.run = r]]
    /\ UNCHANGED <<ent, inf, run, units, runLock, fails, imports, steady, evald>>

\* activate_persisted_run: the lock, then the audit; a failed audit releases
\* the lock and changes nothing.
StartActivation(p, r) ==
    /\ cmd[p].pc = "idle"
    /\ LockFree(p)
    /\ IntegrityReady(r)
    /\ runLock' = runLock \cup {p}
    /\ cmd' = [cmd EXCEPT ![p] = [Idle EXCEPT !.pc = "activate", !.run = r]]
    /\ UNCHANGED <<ent, inf, run, units, fails, imports, steady, evald>>

\* The activating transaction: the safe rows of the run whose entity has no
\* source country yet.  (A row count that changes inside the transaction rolls
\* it back, which Fail covers.)
Activate(p) ==
    LET r == cmd[p].run IN
    /\ cmd[p].pc = "activate"
    /\ inf' = [e \in Entities |->
        IF e \in Owned(r) /\ inf[e].status = "SAFE" /\ ent[e] = "unknown"
        THEN [inf[e] EXCEPT !.applied = TRUE] ELSE inf[e]]
    /\ runLock' = runLock \ {p}
    /\ cmd' = [cmd EXCEPT ![p] = Idle]
    /\ UNCHANGED <<ent, run, units, fails, imports, evald>>
    /\ TrackSteady

\* Contact imports (external to this component): an entity enters the contacts
\* without a country, or its source country arrives.
ContactImport(e) ==
    /\ imports < MaxImports
    /\ \/ ent[e] = "absent" /\ ent' = [ent EXCEPT ![e] = "unknown"]
       \/ ent[e] = "unknown" /\ ent' = [ent EXCEPT ![e] = "sourced"]
    /\ imports' = imports + 1
    /\ UNCHANGED <<inf, run, units, runLock, cmd, fails, evald>>
    /\ TrackSteady

CountryNext ==
    \/ \E p \in Cmds :
        \/ \E cfg \in Configs : StartNew(p, cfg)
        \/ \E r \in Runs : StartResume(p, r) \/ StartActivation(p, r)
        \/ TakeLock(p) \/ LockBusy(p)
        \/ Reopen(p) \/ Select(p) \/ MarkRunning(p) \/ CommitBatch(p) \/ MarkSuccess(p)
        \/ Activate(p)
        \/ Fail(p)
    \/ \E e \in Entities : ContactImport(e)

CountrySpec == CountryInit /\ [][CountryNext]_countryVars

-----------------------------------------------------------------------------
(* Properties.                                                             *)

InferenceRows == [run : 0 .. MaxRuns, status : Verdicts, applied : BOOLEAN]
RunRows ==
    [status : {"none", "RUNNING", "SUCCESS", "FAILED", "BUSY"},
     apply : BOOLEAN, limit : Nat, evaluated : Nat, accepted : Nat]
WorkUnits ==
    [index : Nat, lower : Entities, upper : Entities, count : 1 .. BatchSize,
     members : SUBSET Entities, status : {"RUNNING", "SUCCESS", "FAILED"}]
Invocations ==
    [pc : Steps, run : 0 .. MaxRuns, resumed : BOOLEAN, cursor : 0 .. NumEntities,
     pending : BOOLEAN, index : Nat, batch : SUBSET Entities]

CountryTypeOK ==
    /\ ent \in [Entities -> {"absent", "unknown", "sourced"}]
    /\ inf \in [Entities -> InferenceRows]
    /\ run \in [Runs -> RunRows]
    /\ units \in [Runs -> SUBSET WorkUnits]
    /\ runLock \subseteq Cmds
    /\ cmd \in [Cmds -> Invocations]
    /\ fails \in Nat /\ imports \in Nat
    /\ steady \in [Runs -> SUBSET Entities]
    /\ evald \in [Runs -> SUBSET Entities]

\* A run that ends SUCCESS has skipped nobody: every entity that was a candidate
\* from the run's creation on has been evaluated by it, through every crash,
\* resume and import in between, unless max_entities ended it first
\* (run_country_inference_resumable, resume_state, validate_resume_batch).
SuccessIsComplete ==
    \A r \in Runs :
        run[r].status = "SUCCESS" =>
            \/ steady[r] \subseteq evald[r]
            \/ run[r].limit > 0 /\ run[r].evaluated >= run[r].limit

\* "SUCCESS ranges are never re-evaluated" (run_country_inference_resumable): a
\* run about to commit a batch has no SUCCESS unit over any of it and owns none
\* of its rows yet, also when its process died between the transaction that
\* committed a batch and the one that marks it SUCCESS.
NeverReevaluated ==
    \A p \in Cmds : cmd[p].pc = "commit" =>
        LET r == cmd[p].run IN
        \A e \in cmd[p].batch :
            /\ inf[e].run # r
            /\ \A u \in units[r] :
                u.status = "SUCCESS" => ~(u.lower <= e /\ e <= u.upper)

\* A country that is shown stays as it was accepted: no later run overwrites the
\* row, however its batch was read before the activation
\* (_candidate_batch, activate_persisted_run, _upsert_inference).
ShownIsKept == [][\A e \in Entities : Shown(e) => inf'[e] = inf[e]]_countryVars
=============================================================================
