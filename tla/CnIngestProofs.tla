--------------------------- MODULE CnIngestProofs ---------------------------
(***************************************************************************)
(* Safety of the CN package pipeline for any number of processes, range    *)
(* tasks, faults and requeues: a package that says SUCCESS has all its     *)
(* rows, and no row is ever computed from a damaged source.                *)
(***************************************************************************)
EXTENDS CnIngest, TLAPS

\* Places inside the try block.
Tried ==
    {"start", "cleanStage", "cleanOutputs", "parse", "quality", "publish", "goods",
     "materializeCase", "materializeParty", "checkpoint", "range", "execute",
     "accept"} \cup Dropping

\* Places of an attempt that has not accepted the package.
Unaccepted ==
    {"enter", "failStage", "failOutputs", "failed"} \cup (Tried \ Dropping)

\* Places that rely on a complete raw stage.
Staged ==
    {"quality", "publish", "goods", "materializeCase", "materializeParty",
     "checkpoint", "range", "execute", "accept"}

\* Places of the final publish.
Publishing == {"range", "execute", "accept"}

\* The attempt's control state agrees with its place.
ControlInv(p) ==
    /\ pc[p] # "idle" => lock = p
    /\ pc[p] \in Tried => trying[p]
    /\ trying[p] => pc[p] \in Tried \cup {"release"}
    /\ pc[p] \in Unaccepted => status # "SUCCESS"
    /\ pc[p] \in Tried \ {"start"} => status # "REGISTERED"
    /\ pc[p] \in {"enter", "start"} /\ ~retrying[p] => status = "REGISTERED"

\* What the raw stage holds at each place.
StageInv(p) ==
    /\ pc[p] \in {"start", "cleanStage", "cleanOutputs"} /\ ~resuming[p] => stageCkpt = {}
    /\ pc[p] = "cleanOutputs" /\ ~resuming[p] => stage = "none"
    /\ pc[p] \in {"start", "cleanOutputs"} /\ resuming[p] => stage = "full"
    /\ pc[p] = "parse" => stage = "none" /\ stageCkpt = {}
    /\ pc[p] \in Staged => stage = "full"
    /\ pc[p] = "cleanStage" => ~resuming[p]

\* What the publish stages and the ledger hold at each place.
PublishInv(p) ==
    /\ pc[p] \in {"parse", "quality", "publish"} /\ pubCkpt = {} =>
         goods = "none" /\ pub = AllRows("none")
    /\ pc[p] = "goods" => pubCkpt = {} /\ goods = "none" /\ pub = AllRows("none")
    /\ pc[p] = "materializeCase" => pubCkpt = {} /\ goods = "good" /\ pub["scope"] = "full"
    /\ pc[p] = "materializeParty" =>
         pubCkpt = {} /\ goods = "good" /\ pub["scope"] = "full" /\ pub["case"] = "full"
    /\ pc[p] = "checkpoint" => pubCkpt = {} /\ goods = "good" /\ pub = AllRows("full")
    /\ pc[p] \in {"goods", "materializeCase", "materializeParty", "checkpoint"} => task[p] = 1
    /\ pc[p] \in Publishing => pubCkpt # {} /\ pub = AllRows("full")
    /\ pc[p] \in {"range", "execute"} =>
         \A i \in Tasks : i < task[p] => ledger[i] = "SUCCESS"
    /\ pc[p] = "execute" => task[p] \in Tasks /\ ledger[task[p]] = "RUNNING"
    /\ pc[p] = "accept" => \A i \in Tasks : ledger[i] = "SUCCESS"

\* The checkpoints and the ledger vouch only for what is there.
CheckpointInv ==
    /\ stageCkpt \subseteq {"full"}
    /\ pubCkpt \subseteq {AllRows("full")}
    /\ pubCkpt # {} => goods = "good"
    /\ \A i \in Tasks : ledger[i] # "none" => pubCkpt # {}
    /\ \A i \in Tasks : ledger[i] = "SUCCESS" => out[i] = "good"

\* A package that was never tried has left nothing anywhere.
RegisteredIsEmpty ==
    status = "REGISTERED" =>
        /\ stage = "none" /\ stageCkpt = {}
        /\ pubCkpt = {} /\ goods = "none" /\ pub = AllRows("none")

ProcInv == \A p \in Procs : ControlInv(p) /\ StageInv(p) /\ PublishInv(p)
DataInv == CheckpointInv /\ RegisteredIsEmpty /\ SuccessIsComplete /\ NothingMixed

IInv == TypeOK /\ ProcInv /\ DataInv

-----------------------------------------------------------------------------
(* Lemmas on control.                                                      *)

\* The invariant holds for a newly registered package.
LEMMA InitInv == Init => IInv
<1> SUFFICES ASSUME Init PROVE IInv
  OBVIOUS
<1>1. TypeOK
  <2>1. /\ status \in Statuses /\ lock \in Procs \cup {NoProc}
        /\ pc \in [Procs -> Pcs] /\ task \in [Procs -> 1..(NumTasks + 1)]
        /\ retrying \in [Procs -> BOOLEAN] /\ resuming \in [Procs -> BOOLEAN]
        /\ trying \in [Procs -> BOOLEAN] /\ finalResume \in [Procs -> BOOLEAN]
    BY CnConstants DEF Init, Pcs, Statuses
  <2>2. /\ stage \in Rows /\ stageCkpt \in SUBSET Rows /\ ckptAged \in BOOLEAN
        /\ pub \in [PUBLISH_STAGE_TABLES -> Rows]
        /\ pubCkpt \in SUBSET [PUBLISH_STAGE_TABLES -> Rows]
    BY DEF Init, Rows, AllRows
  <2>3. /\ ledger \in [Tasks -> {"none", "RUNNING", "FAILED", "SUCCESS"}]
        /\ goods \in Durable /\ out \in [Tasks -> Durable]
        /\ mustReplay \in BOOLEAN
        /\ faults \in Nat /\ requeues \in Nat /\ lostSessions \in Nat
    BY DEF Init, Durable, NoLedger, NoOutputs
  <2> QED BY <2>1, <2>2, <2>3 DEF TypeOK
<1>2. ProcInv
  BY DEF Init, ProcInv, ControlInv, StageInv, PublishInv, Tried, Unaccepted,
         Staged, Publishing, Dropping
<1>3. DataInv
  BY DEF Init, DataInv, CheckpointInv, RegisteredIsEmpty, SuccessIsComplete,
         NothingMixed, NoLedger, NoOutputs
<1> QED BY <1>1, <1>2, <1>3 DEF IInv

\* A step of the lock's holder, or of a process that takes the free lock, needs
\* looking at for that process only: all others are idle.
LEMMA Frame ==
  ASSUME IInv, NEW p \in Procs, lock \in {p, NoProc},
         \A q \in Procs \ {p} : pc'[q] = pc[q] /\ trying'[q] = trying[q],
         ControlInv(p)', StageInv(p)', PublishInv(p)'
  PROVE  ProcInv'
<1> SUFFICES ASSUME NEW q \in Procs, q # p
             PROVE  ControlInv(q)' /\ StageInv(q)' /\ PublishInv(q)'
  BY DEF ProcInv
<1>1. pc[q] = "idle"
  BY CnConstants DEF IInv, ProcInv, ControlInv
<1>2. ~trying[q]
  BY <1>1 DEF IInv, ProcInv, ControlInv, Tried, Dropping
<1> QED
  BY <1>1, <1>2 DEF ControlInv, StageInv, PublishInv, Tried, Unaccepted, Staged,
                    Publishing, Dropping

\* What an exception or a crash does to the control state.
Aborted(p) ==
    /\ \E l \in {"idle", "failStage", "failOutputs", "failed", "release"} :
         /\ pc' = [pc EXCEPT ![p] = l]
         /\ l \in {"failStage", "failOutputs", "failed"} => pc[p] \in Unaccepted
         /\ l # "idle" => lock' = lock
    /\ trying' = [trying EXCEPT ![p] = FALSE]
    /\ lock' \in Procs \cup {NoProc}
    /\ retrying' \in [Procs -> BOOLEAN] /\ resuming' \in [Procs -> BOOLEAN]
    /\ finalResume' \in [Procs -> BOOLEAN]
    /\ task' \in [Procs -> 1..(NumTasks + 1)]

\* An exception before SUCCESS takes the attempt to its except block or to the end of the cycle.
LEMMA RaiseAborts ==
  ASSUME IInv, ~ErrorsAfterAccept, NEW p \in Procs,
         pc[p] \notin {"idle", "release"}, Raise(p)
  PROVE  Aborted(p)
<1>1. ControlInv(p)
  BY DEF IInv, ProcInv
<1>2. ~ (pc[p] \in Dropping)
  BY <1>1 DEF Raise, ControlInv, Tried
<1>3. /\ Handler(p) \in {"failStage", "failOutputs", "failed", "release"}
      /\ Handler(p) # "release" => pc[p] \in Unaccepted
  BY <1>1, <1>2 DEF Handler, ControlInv, Tried, Unaccepted, Dropping
<1> QED
  BY <1>1, <1>3 DEF Raise, Goto, Aborted, IInv, TypeOK

\* A death ends the cycle and frees the lock.
LEMMA DieAborts ==
  ASSUME IInv, NEW p \in Procs, Die(p)
  PROVE  Aborted(p)
  BY CnConstants DEF Die, EndCycle, Goto, Aborted, IInv, TypeOK

\* So every fault aborts the attempt.
LEMMA FaultAborts ==
  ASSUME IInv, ~ErrorsAfterAccept, NEW p \in Procs,
         pc[p] \notin {"idle", "release"}, Fault(p)
  PROVE  Aborted(p) /\ faults' \in Nat /\ requeues' = requeues /\ lostSessions' = lostSessions
<1>1. Aborted(p)
  BY RaiseAborts, DieAborts DEF Fault
<1> QED BY <1>1 DEF Fault, IInv, TypeOK

\* An aborted attempt relies on nothing, so its part of the invariant holds.
LEMMA AbortProc ==
  ASSUME IInv, NEW p \in Procs, pc[p] # "idle", Aborted(p), status' = status
  PROVE  ProcInv'
<1>1. ControlInv(p) /\ lock = p
  BY DEF IInv, ProcInv, ControlInv
<1>2. ControlInv(p)'
  BY <1>1 DEF ControlInv, Aborted, IInv, TypeOK, Tried, Unaccepted, Dropping
<1>3. StageInv(p)' /\ PublishInv(p)'
  BY DEF StageInv, PublishInv, Aborted, IInv, TypeOK, Staged, Publishing
<1>4. \A q \in Procs \ {p} : pc'[q] = pc[q] /\ trying'[q] = trying[q]
  BY DEF Aborted, IInv, TypeOK
<1> QED BY <1>1, <1>2, <1>3, <1>4, Frame

ControlTypes ==
    /\ lock \in Procs \cup {NoProc}
    /\ pc \in [Procs -> Pcs]
    /\ retrying \in [Procs -> BOOLEAN] /\ resuming \in [Procs -> BOOLEAN]
    /\ trying \in [Procs -> BOOLEAN] /\ finalResume \in [Procs -> BOOLEAN]
    /\ task \in [Procs -> 1..(NumTasks + 1)]
    /\ faults \in Nat /\ requeues \in Nat /\ lostSessions \in Nat

DataTypes ==
    /\ status \in Statuses
    /\ stage \in Rows /\ stageCkpt \in SUBSET Rows /\ ckptAged \in BOOLEAN
    /\ pub \in [PUBLISH_STAGE_TABLES -> Rows]
    /\ pubCkpt \in SUBSET [PUBLISH_STAGE_TABLES -> Rows]
    /\ ledger \in [Tasks -> {"none", "RUNNING", "FAILED", "SUCCESS"}]
    /\ goods \in Durable /\ out \in [Tasks -> Durable]
    /\ mustReplay \in BOOLEAN

\* TypeOK in two parts: control and data.
LEMMA TypeParts == TypeOK <=> ControlTypes /\ DataTypes
  BY DEF TypeOK, ControlTypes, DataTypes

\* The parts make up the invariant.
LEMMA Parts ==
  ASSUME ControlTypes', DataTypes', ProcInv', DataInv'
  PROVE  IInv'
  BY DEF IInv, TypeOK, ControlTypes, DataTypes

\* Everything the invariant says about the process that holds the lock.
LEMMA Holder ==
  ASSUME IInv, NEW p \in Procs, pc[p] # "idle"
  PROVE  /\ lock = p
         /\ ControlInv(p) /\ StageInv(p) /\ PublishInv(p)
         /\ ControlTypes /\ DataTypes
         /\ CheckpointInv /\ RegisteredIsEmpty /\ SuccessIsComplete /\ NothingMixed
  BY TypeParts DEF IInv, ProcInv, DataInv, ControlInv

\* Going on to another place keeps the control types.
LEMMA ContinueTypes ==
  ASSUME IInv, NEW p \in Procs, NEW l \in Pcs, Continue(p, l)
  PROVE  ControlTypes'
  BY DEF Continue, Goto, IInv, TypeOK, ControlTypes, boundVars

\* A step that goes on leaves the others alone.
LEMMA ContinueProc ==
  ASSUME IInv, NEW p \in Procs, pc[p] # "idle", NEW l, Continue(p, l),
         ControlInv(p)', StageInv(p)', PublishInv(p)'
  PROVE  ProcInv'
<1>1. lock = p
  BY Holder
<1>2. \A q \in Procs \ {p} : pc'[q] = pc[q] /\ trying'[q] = trying[q]
  BY DEF Continue, Goto, IInv, TypeOK
<1> QED BY <1>1, <1>2, Frame

\* Going on within the try block, or within the except block.
LEMMA ContinueControl ==
  ASSUME IInv, NEW p \in Procs, pc[p] # "idle", NEW l, Continue(p, l),
         l \in Tried <=> trying[p], l \notin {"enter", "start"},
         l \in Unaccepted => status' # "SUCCESS",
         l \in Tried => status' # "REGISTERED"
  PROVE  ControlInv(p)'
<1>1. lock = p
  BY Holder
<1>2. lock' = lock /\ trying' = trying /\ pc'[p] = l
  BY DEF Continue, Goto, IInv, TypeOK
<1> QED BY <1>1, <1>2 DEF ControlInv

\* So does aborting the attempt.
LEMMA AbortTypes ==
  ASSUME IInv, NEW p \in Procs, Aborted(p),
         faults' \in Nat, requeues' \in Nat, lostSessions' \in Nat
  PROVE  ControlTypes'
  BY DEF Aborted, IInv, TypeOK, ControlTypes, Pcs

\* A fault that leaves the data alone, or damages it within the invariant.
LEMMA FaultStep ==
  ASSUME IInv, ~ErrorsAfterAccept, NEW p \in Procs,
         pc[p] \notin {"idle", "release"}, Fault(p), status' = status,
         DataTypes', DataInv'
  PROVE  IInv'
<1>1. Aborted(p) /\ faults' \in Nat /\ requeues' = requeues /\ lostSessions' = lostSessions
  BY FaultAborts
<1>2. ControlTypes'
  BY <1>1, AbortTypes DEF IInv, TypeOK
<1>3. ProcInv'
  BY <1>1, AbortProc
<1> QED BY <1>2, <1>3, Parts

\* A step that leaves the data alone keeps the data part.
LEMMA DataUnchanged ==
  ASSUME IInv, UNCHANGED <<status, dataVars, mustReplay>>
  PROVE  DataTypes' /\ DataInv'
<1> USE DEF dataVars, stageVars, pubVars, outVars
<1>1. DataTypes'
  BY DEF IInv, TypeOK, DataTypes
<1>2. DataInv'
  BY DEF IInv, DataInv, CheckpointInv, RegisteredIsEmpty, SuccessIsComplete, NothingMixed
<1> QED BY <1>1, <1>2

\* An exception the code itself raises.
LEMMA RaiseStep ==
  ASSUME IInv, ~ErrorsAfterAccept, NEW p \in Procs,
         pc[p] \notin {"idle", "release"}, Raise(p),
         UNCHANGED <<status, dataVars, mustReplay, boundVars>>
  PROVE  IInv'
<1>1. Aborted(p)
  BY RaiseAborts
<1>2. ControlTypes'
  BY <1>1, AbortTypes DEF IInv, TypeOK, boundVars
<1>3. ProcInv'
  BY <1>1, AbortProc
<1> QED BY <1>2, <1>3, Parts, DataUnchanged

-----------------------------------------------------------------------------
(* The cycle around an attempt.                                            *)

\* A fault that changes no data keeps the invariant.
LEMMA InterruptStep ==
  ASSUME IInv, ~ErrorsAfterAccept, NEW p \in Procs, Interrupt(p)
  PROVE  IInv'
  BY FaultStep, DataUnchanged DEF Interrupt

\* Taking the free lock keeps it: the process is the only one in a cycle.
LEMMA AcquireStep ==
  ASSUME IInv, NEW p \in Procs, Acquire(p)
  PROVE  IInv'
<1>1. ControlTypes'
  BY DEF Acquire, LockIsFree, Goto, IInv, TypeOK, ControlTypes, Pcs, boundVars
<1>2. DataTypes' /\ DataInv'
  BY DataUnchanged DEF Acquire, LockIsFree
<1>3. ControlInv(p)'
  <2>1. ~trying[p]
    BY DEF Acquire, LockIsFree, IInv, ProcInv, ControlInv, Tried, Dropping
  <2> QED BY <2>1 DEF Acquire, LockIsFree, Goto, IInv, TypeOK, ControlInv, Tried, Unaccepted, Dropping
<1>4. StageInv(p)' /\ PublishInv(p)'
  BY DEF Acquire, LockIsFree, Goto, IInv, TypeOK, StageInv, PublishInv, Staged, Publishing
<1>5. \A q \in Procs \ {p} : pc'[q] = pc[q] /\ trying'[q] = trying[q]
  BY DEF Acquire, LockIsFree, Goto, IInv, TypeOK
<1>6. ProcInv'
  BY <1>3, <1>4, <1>5, Frame DEF Acquire, LockIsFree
<1> QED BY <1>1, <1>2, <1>6, Parts

\* Recovery keeps it: it only renames PROCESSING.
LEMMA RecoverStep ==
  ASSUME IInv, NEW p \in Procs, Recover(p)
  PROVE  IInv'
<1>1. ControlTypes'
  BY ContinueTypes DEF Recover, Pcs
<1>2. DataTypes'
  BY DEF Recover, IInv, TypeOK, DataTypes, dataVars, stageVars, pubVars, outVars, Statuses
<1>3. DataInv'
  BY DEF Recover, IInv, DataInv, CheckpointInv, RegisteredIsEmpty, SuccessIsComplete,
         NothingMixed, dataVars, stageVars, pubVars, outVars
<1>4. ControlInv(p)'
  BY Holder DEF Recover, Continue, Goto, IInv, TypeOK, ControlInv, Tried, Unaccepted, Dropping
<1>5. StageInv(p)' /\ PublishInv(p)'
  BY DEF Recover, Continue, Goto, IInv, TypeOK, StageInv, PublishInv, Staged, Publishing
<1>6. ProcInv'
  BY <1>4, <1>5, ContinueProc DEF Recover
<1> QED BY <1>1, <1>2, <1>3, <1>6, Parts

\* Selecting keeps it: an accepted package is no candidate.
LEMMA SelectStep ==
  ASSUME IInv, NEW p \in Procs, NEW candidates,
         "SUCCESS" \notin candidates, Select(p, candidates)
  PROVE  IInv'
<1>1. ControlTypes'
  BY DEF Select, Goto, IInv, TypeOK, ControlTypes, Pcs, boundVars
<1>2. DataTypes' /\ DataInv'
  BY DataUnchanged DEF Select
<1>3. ControlInv(p)'
  BY Holder DEF Select, Goto, IInv, TypeOK, ControlInv, Tried, Unaccepted, Dropping
<1>4. StageInv(p)' /\ PublishInv(p)'
  BY DEF Select, Goto, IInv, TypeOK, StageInv, PublishInv, Staged, Publishing
<1>5. \A q \in Procs \ {p} : pc'[q] = pc[q] /\ trying'[q] = trying[q]
  BY DEF Select, Goto, IInv, TypeOK
<1>6. ProcInv'
  BY <1>3, <1>4, <1>5, Frame, Holder DEF Select
<1> QED BY <1>1, <1>2, <1>6, Parts

\* Selecting nothing keeps it.
LEMMA SelectNothingStep ==
  ASSUME IInv, NEW p \in Procs, SelectNothing(p)
  PROVE  IInv'
<1>1. ControlTypes'
  BY ContinueTypes DEF SelectNothing, Pcs
<1>2. DataTypes' /\ DataInv'
  BY DataUnchanged DEF SelectNothing
<1>3. ControlInv(p)' /\ StageInv(p)' /\ PublishInv(p)'
  BY Holder DEF SelectNothing, Continue, Goto, IInv, TypeOK, ControlInv, StageInv,
                PublishInv, Tried, Unaccepted, Dropping, Staged, Publishing
<1> QED BY <1>1, <1>2, <1>3, ContinueProc, Parts DEF SelectNothing

\* Releasing the lock keeps it.
LEMMA ReleaseStep ==
  ASSUME IInv, NEW p \in Procs, Release(p)
  PROVE  IInv'
<1>1. ControlTypes'
  BY CnConstants DEF Release, EndCycle, Goto, IInv, TypeOK, ControlTypes, Pcs, boundVars
<1>2. DataTypes' /\ DataInv'
  BY DataUnchanged DEF Release
<1>3. ControlInv(p)' /\ StageInv(p)' /\ PublishInv(p)'
  BY DEF Release, EndCycle, Goto, IInv, TypeOK, ControlInv, StageInv, PublishInv,
         Tried, Unaccepted, Dropping, Staged, Publishing
<1>4. \A q \in Procs \ {p} : pc'[q] = pc[q] /\ trying'[q] = trying[q]
  BY DEF Release, EndCycle, Goto, IInv, TypeOK
<1> QED BY <1>1, <1>2, <1>3, <1>4, Frame, Holder, Parts DEF Release

-----------------------------------------------------------------------------
(* Entering an attempt and cleaning up.                                    *)

\* Entering the attempt keeps it: a checkpoint that is not usable is dropped.
LEMMA EnterStep ==
  ASSUME IInv, NEW p \in Procs, Enter(p)
  PROVE  IInv'
<1> DEFINE usable == retrying[p] /\ stage \in LoadStageCheckpoint
<1>1. pc[p] = "enter" /\ pc' = [pc EXCEPT ![p] = "start"]
  BY DEF Enter, Goto
<1>2. /\ resuming' = [resuming EXCEPT ![p] = usable]
      /\ usable => stageCkpt' = stageCkpt /\ ckptAged' = ckptAged
      /\ ~usable => stageCkpt' = {} /\ ckptAged' = FALSE
  BY DEF Enter, ClearStageCheckpoint
<1>3. /\ retrying[p] => pubCkpt' = pubCkpt /\ ledger' = ledger
      /\ ~retrying[p] => pubCkpt' = {} /\ ledger' = NoLedger
  BY DEF Enter, ClearPublishCheckpoint
<1>4. /\ UNCHANGED <<status, lock, retrying, finalResume, task, stage, pub, outVars,
                     mustReplay, boundVars>>
      /\ trying' = [trying EXCEPT ![p] = TRUE]
  BY DEF Enter
<1>5. usable => stage = "full"
  BY DEF LoadStageCheckpoint, IInv, DataInv, CheckpointInv
<1>6. usable \in BOOLEAN
  BY DEF IInv, TypeOK
<1>7. ControlTypes'
  BY <1>1, <1>2, <1>4, <1>6 DEF IInv, TypeOK, ControlTypes, Pcs, boundVars
<1>8. DataTypes'
  BY <1>2, <1>3, <1>4 DEF IInv, TypeOK, DataTypes, outVars, NoLedger
<1>9. ControlInv(p)'
  BY <1>1, <1>4, Holder DEF IInv, TypeOK, ControlInv, Tried, Unaccepted, Dropping
<1>10. StageInv(p)' /\ PublishInv(p)'
  BY <1>1, <1>2, <1>4, <1>5, <1>6 DEF IInv, TypeOK, StageInv, PublishInv, Staged, Publishing
<1>11. DataInv'
  BY <1>2, <1>3, <1>4 DEF IInv, DataInv, CheckpointInv, RegisteredIsEmpty,
        SuccessIsComplete, NothingMixed, outVars, NoLedger
<1>12. \A q \in Procs \ {p} : pc'[q] = pc[q] /\ trying'[q] = trying[q]
  BY <1>1, <1>4 DEF IInv, TypeOK
<1> QED BY <1>1, <1>7, <1>8, <1>9, <1>10, <1>11, <1>12, Frame, Holder, Parts

\* The PROCESSING write keeps it.
LEMMA StartStep ==
  ASSUME IInv, NEW p \in Procs, Start(p)
  PROVE  IInv'
<1>1. ControlTypes'
  BY ContinueTypes DEF Start, Pcs
<1>2. DataTypes' /\ DataInv'
  BY DEF Start, IInv, TypeOK, DataTypes, dataVars, stageVars, pubVars, outVars, Statuses,
         DataInv, CheckpointInv, RegisteredIsEmpty, SuccessIsComplete, NothingMixed
<1>3. ControlInv(p)'
  BY Holder DEF Start, Continue, Goto, IInv, TypeOK, ControlInv, Tried, Unaccepted, Dropping
<1>4. StageInv(p)'
  BY Holder DEF Start, Continue, Goto, IInv, TypeOK, ControlInv, StageInv, Staged,
                RegisteredIsEmpty, dataVars, stageVars
<1>5. PublishInv(p)'
  BY Holder DEF Start, Continue, Goto, IInv, TypeOK, ControlInv, PublishInv, Publishing,
                RegisteredIsEmpty, dataVars, pubVars, outVars
<1> QED BY <1>1, <1>2, <1>3, <1>4, <1>5, ContinueProc, Parts DEF Start

\* Both uses of the checkpoint-aware stage cleanup.
LEMMA CleanStageStep ==
  ASSUME IInv, ~ErrorsAfterAccept, NEW p \in Procs,
         \/ CleanStage(p)
         \/ FailStage(p)
  PROVE  IInv'
<1> DEFINE next == IF pc[p] = "cleanStage" THEN "cleanOutputs" ELSE "failOutputs"
<1>1. pc[p] \in {"cleanStage", "failStage"} /\ status # "SUCCESS"
  BY Holder DEF CleanStage, FailStage, ControlInv, Unaccepted, Tried, Dropping
<1>2. CleanStageKeepingCheckpoint(p, next)
  BY <1>1 DEF CleanStage, FailStage
<1> HIDE DEF next
<1>3. /\ UNCHANGED <<status, stageCkpt, ckptAged, pubVars, outVars, mustReplay>>
      /\ \/ stage' = "none" /\ Continue(p, next)
         \/ stage' = stage /\ LoadStageCheckpoint # {} /\ Continue(p, next)
         \/ stage' = Torn(stage) /\ Fault(p)
  BY <1>2 DEF CleanStageKeepingCheckpoint, DeleteStage
<1>4. DataTypes'
  BY <1>3 DEF IInv, TypeOK, DataTypes, pubVars, outVars, Torn, Rows
<1>5. DataInv'
  BY <1>3, Holder, <1>1 DEF DataInv, CheckpointInv, RegisteredIsEmpty, SuccessIsComplete,
        NothingMixed, pubVars, outVars, Torn
<1>6. CASE Fault(p)
  BY <1>1, <1>3, <1>4, <1>5, <1>6, FaultStep
<1>7. CASE Continue(p, next) /\ ~Fault(p)
  <2>1. next \in {"cleanOutputs", "failOutputs"} /\ (next = "cleanOutputs" <=> pc[p] = "cleanStage")
    BY <1>1 DEF next
  <2>2. ControlTypes'
    BY <2>1, <1>7, ContinueTypes DEF Pcs
  <2>3. ControlInv(p)'
    BY <1>1, <1>3, <1>7, <2>1, Holder DEF Continue, Goto, IInv, TypeOK, ControlInv, Tried,
          Unaccepted, Dropping
  <2>4. StageInv(p)'
    BY <1>1, <1>3, <1>7, <2>1, Holder DEF Continue, Goto, IInv, TypeOK, StageInv, Staged,
          LoadStageCheckpoint
  <2>5. PublishInv(p)'
    BY <1>1, <1>3, <1>7, <2>1 DEF Continue, Goto, IInv, TypeOK, PublishInv, Publishing
  <2> QED BY <1>1, <1>4, <1>5, <1>7, <2>2, <2>3, <2>4, <2>5, ContinueProc, Parts
<1> QED BY <1>3, <1>6, <1>7

\* Both uses of the output cleanup.
LEMMA CleanOutputsStep ==
  ASSUME IInv, ~ErrorsAfterAccept, NEW p \in Procs,
         \/ CleanOutputs(p)
         \/ FailOutputs(p)
  PROVE  IInv'
<1> DEFINE next == IF pc[p] = "failOutputs" THEN "failed"
                   ELSE IF resuming[p] THEN "quality" ELSE "parse"
<1>1. pc[p] \in {"cleanOutputs", "failOutputs"} /\ status # "SUCCESS"
  BY Holder DEF CleanOutputs, FailOutputs, ControlInv, Unaccepted, Tried, Dropping
<1>2. CleanPartialOutputs(p, next)
  BY <1>1 DEF CleanOutputs, FailOutputs
<1>3. /\ next \in {"failed", "quality", "parse"}
      /\ next = "failed" => pc[p] = "failOutputs"
      /\ next = "quality" => pc[p] = "cleanOutputs" /\ resuming[p]
      /\ next = "parse" => pc[p] = "cleanOutputs" /\ ~resuming[p]
  BY <1>1
<1> HIDE DEF next
<1>4. /\ UNCHANGED <<status, stageVars, pubCkpt, ledger, mustReplay>>
      /\ \/ pubCkpt # {} /\ UNCHANGED <<goods, out, pub>> /\ Continue(p, next)
         \/ /\ pubCkpt = {} /\ goods' = "none" /\ out' = NoOutputs /\ pub' = AllRows("none")
            /\ Continue(p, next)
         \/ /\ pubCkpt = {} /\ out' = [i \in Tasks |-> Torn(out[i])]
            /\ \/ UNCHANGED <<goods, pub>>
               \/ /\ goods' = Torn(goods)
                  /\ pub' = [t \in PUBLISH_STAGE_TABLES |-> Torn(pub[t])]
            /\ Fault(p)
  BY <1>2 DEF CleanPartialOutputs, HasPublishCheckpoint, DeleteOutputs
<1>5. DataTypes'
  BY <1>4 DEF IInv, TypeOK, DataTypes, stageVars, Torn, Rows, Durable, NoOutputs, AllRows
<1>6. DataInv'
  <2>1. CheckpointInv'
    BY <1>4, Holder, <1>1 DEF CheckpointInv, stageVars, NoOutputs
  <2>2. RegisteredIsEmpty'
    BY <1>4, Holder, <1>1 DEF RegisteredIsEmpty, stageVars, Torn, AllRows
  <2>3. NothingMixed'
    BY <1>4, Holder, <1>1 DEF NothingMixed, Torn, NoOutputs
  <2> QED BY <1>1, <1>4, <2>1, <2>2, <2>3 DEF DataInv, SuccessIsComplete
<1>7. CASE Fault(p)
  BY <1>1, <1>4, <1>5, <1>6, <1>7, FaultStep
<1>8. CASE Continue(p, next) /\ ~Fault(p)
  <2>1. ControlTypes'
    BY <1>3, <1>8, ContinueTypes DEF Pcs
  <2>2. ControlInv(p)'
    <3>1. next \in Tried <=> trying[p]
      BY <1>1, <1>3, Holder DEF ControlInv, Tried, Dropping
    <3>2. next \in Tried => status' # "REGISTERED"
      BY <1>1, <1>3, <1>4, Holder DEF ControlInv, Tried, Dropping
    <3> QED BY <1>1, <1>3, <1>4, <1>8, <3>1, <3>2, ContinueControl
  <2>3. StageInv(p)'
    BY <1>1, <1>3, <1>4, <1>8, Holder DEF Continue, Goto, IInv, TypeOK, StageInv, Staged, stageVars
  <2>4. PublishInv(p)'
    BY <1>1, <1>3, <1>4, <1>8 DEF Continue, Goto, IInv, TypeOK, PublishInv, Publishing
  <2> QED BY <1>1, <1>5, <1>6, <1>8, <2>1, <2>2, <2>3, <2>4, ContinueProc, Parts
<1> QED BY <1>4, <1>7, <1>8

\* The FAILED write keeps it.
LEMMA MarkPackageFailedStep ==
  ASSUME IInv, NEW p \in Procs, MarkPackageFailed(p)
  PROVE  IInv'
<1>1. ControlTypes'
  BY ContinueTypes DEF MarkPackageFailed, Pcs
<1>2. DataTypes' /\ DataInv'
  BY DEF MarkPackageFailed, IInv, TypeOK, DataTypes, dataVars, stageVars, pubVars, outVars,
         Statuses, DataInv, CheckpointInv, RegisteredIsEmpty, SuccessIsComplete, NothingMixed
<1>3. ControlInv(p)' /\ StageInv(p)' /\ PublishInv(p)'
  BY Holder DEF MarkPackageFailed, Continue, Goto, IInv, TypeOK, ControlInv, StageInv,
                PublishInv, Tried, Unaccepted, Dropping, Staged, Publishing
<1> QED BY <1>1, <1>2, <1>3, ContinueProc, Parts DEF MarkPackageFailed

-----------------------------------------------------------------------------
(* Parsing and the publish stages.                                         *)

\* Going on from one place of the try block to another, not yet accepted.
LEMMA OnwardControl ==
  ASSUME IInv, NEW p \in Procs, NEW l \in Tried \ {"start"}, Continue(p, l),
         pc[p] \in Tried \ ({"start"} \cup Dropping), status' = status
  PROVE  ControlInv(p)' /\ ControlTypes'
<1>1. ControlInv(p) /\ pc[p] # "idle"
  BY Holder DEF Tried, Dropping
<1>2. trying[p] /\ status \notin {"SUCCESS", "REGISTERED"}
  BY <1>1 DEF ControlInv, Tried, Unaccepted, Dropping
<1>3. l \in Pcs /\ l # "enter"
  BY DEF Tried, Dropping, Pcs
<1> QED BY <1>1, <1>2, <1>3, ContinueControl, ContinueTypes

\* Parsing keeps it: it begins on an empty stage.
LEMMA ParseStep ==
  ASSUME IInv, ~ErrorsAfterAccept, NEW p \in Procs, Parse(p)
  PROVE  IInv'
<1>1. /\ pc[p] = "parse"
      /\ UNCHANGED <<status, stageCkpt, ckptAged, pubVars, outVars>>
      /\ mustReplay' = FALSE
  BY DEF Parse
<1>2. stage = "none" /\ stageCkpt = {} /\ status # "REGISTERED"
  BY <1>1, Holder DEF StageInv, ControlInv, Tried
<1>3. \/ stage' = "full" /\ Continue(p, "quality")
      \/ stage' = "part" /\ Fault(p)
  BY <1>2 DEF Parse, Written, HalfWritten
<1>4. DataTypes'
  BY <1>1, <1>3 DEF IInv, TypeOK, DataTypes, pubVars, outVars, Rows
<1>5. DataInv'
  BY <1>1, <1>2, Holder DEF DataInv, CheckpointInv, RegisteredIsEmpty, SuccessIsComplete,
        NothingMixed, pubVars, outVars
<1>6. CASE Fault(p)
  BY <1>1, <1>4, <1>5, <1>6, FaultStep
<1>7. CASE stage' = "full" /\ Continue(p, "quality")
  <2>1. ControlInv(p)' /\ ControlTypes'
    BY <1>1, <1>7, OnwardControl DEF Tried, Dropping
  <2>2. StageInv(p)'
    BY <1>7 DEF Continue, Goto, IInv, TypeOK, StageInv, Staged
  <2>3. PublishInv(p)'
    BY <1>1, <1>7, Holder DEF Continue, Goto, IInv, TypeOK, PublishInv, Publishing, pubVars, outVars
  <2> QED BY <1>1, <1>4, <1>5, <1>7, <2>1, <2>2, <2>3, ContinueProc, Parts
<1> QED BY <1>3, <1>6, <1>7

\* The stage checkpoint records a complete stage.
LEMMA QualityStep ==
  ASSUME IInv, ~ErrorsAfterAccept, NEW p \in Procs, Quality(p)
  PROVE  IInv'
<1>1. /\ pc[p] = "quality"
      /\ UNCHANGED <<status, stage, pubVars, outVars, mustReplay>>
  BY DEF Quality
<1>2. stage = "full"
  BY <1>1, Holder DEF StageInv, Staged
<1>3. /\ Continue(p, "publish")
      /\ \/ UNCHANGED <<stageCkpt, ckptAged>>
         \/ stageCkpt' = {"full"} /\ ckptAged' = FALSE
  BY <1>2 DEF Quality
<1>4. status # "REGISTERED"
  BY <1>1, Holder DEF ControlInv, Tried
<1>5. DataTypes'
  BY <1>1, <1>3 DEF IInv, TypeOK, DataTypes, pubVars, outVars, Rows
<1>6. DataInv'
  BY <1>1, <1>3, <1>4, Holder DEF DataInv, CheckpointInv, RegisteredIsEmpty,
        SuccessIsComplete, NothingMixed, pubVars, outVars
<1>7. ControlInv(p)' /\ ControlTypes'
  BY <1>1, <1>3, OnwardControl DEF Tried, Dropping
<1>8. StageInv(p)'
  BY <1>1, <1>2, <1>3 DEF Continue, Goto, IInv, TypeOK, StageInv, Staged
<1>9. PublishInv(p)'
  BY <1>1, <1>3, Holder DEF Continue, Goto, IInv, TypeOK, PublishInv, Publishing, pubVars, outVars
<1> QED BY <1>1, <1>3, <1>5, <1>6, <1>7, <1>8, <1>9, ContinueProc, Parts

\* The publication continues over publish stages that are complete.
LEMMA BeginPublishStep ==
  ASSUME IInv, NEW p \in Procs, BeginPublish(p)
  PROVE  IInv'
<1>1. /\ pc[p] = "publish"
      /\ pubCkpt # {} => pub = AllRows("full")
  BY Holder DEF BeginPublish, HasPublishCheckpoint, PublishCheckpointIsUsable, CheckpointInv
<1>2. /\ pc' = [pc EXCEPT ![p] = IF pubCkpt # {} THEN "range" ELSE "goods"]
      /\ task' = [task EXCEPT ![p] = 1]
      /\ finalResume' = [finalResume EXCEPT ![p] = (pubCkpt # {})]
      /\ UNCHANGED <<status, lock, retrying, resuming, trying, dataVars, mustReplay, boundVars>>
  BY DEF BeginPublish, Goto, FirstTask, HasPublishCheckpoint
<1>3. ControlTypes'
  BY <1>2, CnConstants DEF IInv, TypeOK, ControlTypes, Pcs, boundVars
<1>4. DataTypes' /\ DataInv'
  BY <1>2, DataUnchanged
<1>5. ControlInv(p)'
  BY <1>1, <1>2, Holder DEF IInv, TypeOK, ControlInv, Tried, Unaccepted, Dropping
<1>6. StageInv(p)'
  BY <1>1, <1>2, Holder DEF IInv, TypeOK, StageInv, Staged, dataVars, stageVars
<1>7. PublishInv(p)'
  BY <1>1, <1>2, Holder DEF IInv, TypeOK, PublishInv, Publishing, Tasks,
        dataVars, pubVars, outVars
<1>8. \A q \in Procs \ {p} : pc'[q] = pc[q] /\ trying'[q] = trying[q]
  BY <1>2 DEF IInv, TypeOK
<1> QED BY <1>1, <1>3, <1>4, <1>5, <1>6, <1>7, <1>8, Frame, Holder, Parts

\* A refusal changes no data.
LEMMA RefusePublishStep ==
  ASSUME IInv, ~ErrorsAfterAccept, NEW p \in Procs, RefusePublish(p)
  PROVE  IInv'
  BY RaiseStep DEF RefusePublish

\* Goods are published from a complete stage, on no earlier goods.
LEMMA PublishGoodsStep ==
  ASSUME IInv, ~ErrorsAfterAccept, NEW p \in Procs, PublishGoods(p)
  PROVE  IInv'
<1>1. /\ pc[p] = "goods"
      /\ UNCHANGED <<status, stageVars, pubCkpt, ledger, out, mustReplay>>
  BY DEF PublishGoods
<1>2. /\ stage = "full" /\ goods = "none" /\ pub = AllRows("none") /\ pubCkpt = {}
      /\ status # "REGISTERED" /\ status # "SUCCESS"
  BY <1>1, Holder DEF StageInv, Staged, PublishInv, ControlInv, Tried, Unaccepted, Dropping
<1>3. pub["scope"] = "none"
  BY <1>2 DEF AllRows, PUBLISH_STAGE_TABLES
<1>4. \/ /\ goods' = "good" /\ pub' = [pub EXCEPT !["scope"] = "full"]
         /\ Continue(p, "materializeCase")
      \/ goods' = "part" /\ pub' = [pub EXCEPT !["scope"] = "part"] /\ Fault(p)
  BY <1>2, <1>3 DEF PublishGoods, Published, Written, HalfWritten
<1>5. DataTypes'
  BY <1>1, <1>4 DEF IInv, TypeOK, DataTypes, stageVars, Rows, Durable, PUBLISH_STAGE_TABLES
<1>6. DataInv'
  BY <1>1, <1>2, <1>4, Holder DEF DataInv, CheckpointInv, RegisteredIsEmpty,
        SuccessIsComplete, NothingMixed, stageVars
<1>7. CASE Fault(p)
  BY <1>1, <1>5, <1>6, <1>7, FaultStep
<1>8. CASE /\ goods' = "good" /\ pub' = [pub EXCEPT !["scope"] = "full"]
           /\ Continue(p, "materializeCase")
  <2>1. ControlInv(p)' /\ ControlTypes'
    BY <1>1, <1>8, OnwardControl DEF Tried, Dropping
  <2>2. StageInv(p)'
    BY <1>1, <1>2, <1>8 DEF Continue, Goto, IInv, TypeOK, StageInv, Staged, stageVars
  <2>3. pub'["scope"] = "full"
    BY <1>8 DEF IInv, TypeOK, PUBLISH_STAGE_TABLES
  <2>4. PublishInv(p)'
    BY <1>1, <1>2, <1>8, <2>3, Holder DEF Continue, Goto, IInv, TypeOK, PublishInv, Publishing
  <2> QED BY <1>1, <1>5, <1>6, <1>8, <2>1, <2>2, <2>4, ContinueProc, Parts
<1> QED BY <1>4, <1>7, <1>8

\* Both materializations.
LEMMA MaterializeStep ==
  ASSUME IInv, ~ErrorsAfterAccept, NEW p \in Procs,
         MaterializeCase(p) \/ MaterializeParty(p)
  PROVE  IInv'
<1> DEFINE t == IF pc[p] = "materializeCase" THEN "case" ELSE "party"
           next == IF pc[p] = "materializeCase" THEN "materializeParty" ELSE "checkpoint"
<1>1. /\ pc[p] \in {"materializeCase", "materializeParty"}
      /\ UNCHANGED <<status, stageVars, pubCkpt, ledger, outVars, mustReplay>>
      /\ \/ pub' = [pub EXCEPT ![t] = stage] /\ Continue(p, next)
         \/ pub' = [pub EXCEPT ![t] = "part"] /\ Fault(p)
  BY DEF MaterializeCase, MaterializeParty, Materialize
<1>2. /\ t \in PUBLISH_STAGE_TABLES /\ next \in {"materializeParty", "checkpoint"}
      /\ next = "materializeParty" => t = "case" /\ pc[p] = "materializeCase"
      /\ next = "checkpoint" => t = "party" /\ pc[p] = "materializeParty"
  BY <1>1 DEF PUBLISH_STAGE_TABLES
<1> HIDE DEF t, next
<1>3. /\ stage = "full" /\ pubCkpt = {} /\ goods = "good" /\ pub["scope"] = "full"
      /\ pc[p] = "materializeParty" => pub["case"] = "full"
      /\ status # "REGISTERED" /\ status # "SUCCESS"
  BY <1>1, Holder DEF StageInv, Staged, PublishInv, ControlInv, Tried, Unaccepted, Dropping
<1>4. DataTypes'
  BY <1>1, <1>2, <1>3 DEF IInv, TypeOK, DataTypes, stageVars, outVars, Rows
<1>5. DataInv'
  BY <1>1, <1>3, Holder DEF DataInv, CheckpointInv, RegisteredIsEmpty,
        SuccessIsComplete, NothingMixed, stageVars, outVars
<1>6. CASE Fault(p)
  BY <1>1, <1>4, <1>5, <1>6, FaultStep
<1>7. CASE pub' = [pub EXCEPT ![t] = stage] /\ Continue(p, next)
  <2>1. ControlInv(p)' /\ ControlTypes'
    BY <1>1, <1>2, <1>7, OnwardControl DEF Tried, Dropping
  <2>2. StageInv(p)'
    BY <1>1, <1>2, <1>3, <1>7 DEF Continue, Goto, IInv, TypeOK, StageInv, Staged, stageVars
  <2>3. pub'["scope"] = "full" /\ pub'["case"] = "full"
    BY <1>2, <1>3, <1>7 DEF IInv, TypeOK, PUBLISH_STAGE_TABLES
  <2>4. next = "checkpoint" => pub' = AllRows("full")
    <3> SUFFICES ASSUME next = "checkpoint" PROVE pub' = AllRows("full")
      OBVIOUS
    <3>1. pub'["party"] = "full"
      BY <1>2, <1>3, <1>7 DEF IInv, TypeOK, PUBLISH_STAGE_TABLES
    <3> QED BY <2>3, <3>1, <1>4 DEF DataTypes, AllRows, PUBLISH_STAGE_TABLES
  <2>5. pc'[p] = next /\ task'[p] = 1
    BY <1>1, <1>7, Holder DEF Continue, Goto, IInv, TypeOK, PublishInv
  <2>6. PublishInv(p)'
    BY <1>1, <1>2, <1>3, <2>3, <2>4, <2>5 DEF PublishInv, Publishing, outVars
  <2> QED BY <1>1, <1>4, <1>5, <1>7, <2>1, <2>2, <2>6, ContinueProc, Parts
<1> QED BY <1>1, <1>6, <1>7

\* The publish checkpoint records complete publish stages.
LEMMA SavePublishCheckpointStep ==
  ASSUME IInv, NEW p \in Procs, SavePublishCheckpoint(p)
  PROVE  IInv'
<1>1. /\ pc[p] = "checkpoint" /\ Continue(p, "range") /\ pubCkpt' = {pub}
      /\ UNCHANGED <<status, stageVars, pub, ledger, outVars, mustReplay>>
  BY DEF SavePublishCheckpoint
<1>2. /\ stage = "full" /\ pubCkpt = {} /\ goods = "good" /\ pub = AllRows("full")
      /\ status # "REGISTERED" /\ status # "SUCCESS"
  BY <1>1, Holder DEF StageInv, Staged, PublishInv, ControlInv, Tried, Unaccepted, Dropping
<1>3. DataTypes'
  BY <1>1 DEF IInv, TypeOK, DataTypes, stageVars, outVars
<1>4. DataInv'
  BY <1>1, <1>2, Holder DEF DataInv, CheckpointInv, RegisteredIsEmpty,
        SuccessIsComplete, NothingMixed, stageVars, outVars
<1>5. ControlInv(p)' /\ ControlTypes'
  BY <1>1, OnwardControl DEF Tried, Dropping
<1>6. StageInv(p)'
  BY <1>1, <1>2 DEF Continue, Goto, IInv, TypeOK, StageInv, Staged, stageVars
<1>7. PublishInv(p)'
  <2>1. pc'[p] = "range" /\ task'[p] = 1
    BY <1>1, Holder DEF Continue, Goto, IInv, TypeOK, PublishInv
  <2> QED BY <1>1, <1>2, <2>1 DEF PublishInv, Publishing, Tasks
<1> QED BY <1>1, <1>3, <1>4, <1>5, <1>6, <1>7, ContinueProc, Parts

-----------------------------------------------------------------------------
(* The final publish.                                                      *)

\* What holds in the final publish.
LEMMA InPublish ==
  ASSUME IInv, NEW p \in Procs, pc[p] \in Publishing
  PROVE  /\ stage = "full" /\ pubCkpt # {} /\ pub = AllRows("full") /\ goods = "good"
         /\ status # "REGISTERED" /\ status # "SUCCESS"
         /\ task[p] \in 1..(NumTasks + 1)
         /\ trying[p]
  BY Holder DEF Publishing, StageInv, Staged, PublishInv, ControlInv, Tried, Unaccepted,
        Dropping, CheckpointInv, IInv, TypeOK

\* A skipped range task is a committed one.
LEMMA SkipRangeStep ==
  ASSUME IInv, NEW p \in Procs, SkipRange(p)
  PROVE  IInv'
<1>1. /\ pc[p] = "range" /\ task[p] \in Tasks /\ ledger[task[p]] = "SUCCESS"
      /\ task' = [task EXCEPT ![p] = task[p] + 1]
      /\ UNCHANGED <<status, lock, pc, retrying, resuming, trying, finalResume, dataVars,
                     mustReplay, boundVars>>
  BY DEF SkipRange, NeedsRun, NextTask
<1>2. ControlTypes'
  BY <1>1, CnConstants DEF IInv, TypeOK, ControlTypes, Tasks, boundVars
<1>3. DataTypes' /\ DataInv'
  BY <1>1, DataUnchanged
<1>4. ControlInv(p)' /\ StageInv(p)'
  BY <1>1, Holder DEF ControlInv, StageInv, dataVars, stageVars
<1>5. PublishInv(p)'
  <2>1. task'[p] = task[p] + 1
    BY <1>1 DEF IInv, TypeOK
  <2>2. \A i \in Tasks : i < task'[p] => ledger[i] = "SUCCESS"
    BY <1>1, <2>1, Holder, CnConstants DEF PublishInv, Tasks
  <2> QED BY <1>1, <2>2, Holder DEF PublishInv, Publishing, dataVars, pubVars, outVars
<1>6. \A q \in Procs \ {p} : pc'[q] = pc[q] /\ trying'[q] = trying[q]
  BY <1>1
<1> QED BY <1>1, <1>2, <1>3, <1>4, <1>5, <1>6, Frame, Holder, Parts

\* A RUNNING row vouches for nothing.
LEMMA MarkRunningStep ==
  ASSUME IInv, NEW p \in Procs, MarkRunning(p)
  PROVE  IInv'
<1>1. /\ pc[p] = "range" /\ task[p] \in Tasks /\ ledger[task[p]] # "SUCCESS"
      /\ ledger' = [ledger EXCEPT ![task[p]] = "RUNNING"]
      /\ Continue(p, "execute")
      /\ UNCHANGED <<status, stageVars, pub, pubCkpt, outVars, mustReplay>>
  BY DEF MarkRunning, NeedsRun
<1>2. DataTypes'
  BY <1>1 DEF IInv, TypeOK, DataTypes, stageVars, outVars
<1>3. DataInv'
  <2>1. CheckpointInv'
    BY <1>1, InPublish, Holder DEF Publishing, CheckpointInv, stageVars, outVars, IInv, TypeOK
  <2> QED BY <1>1, <2>1, InPublish, Holder DEF Publishing, DataInv, RegisteredIsEmpty,
            SuccessIsComplete, NothingMixed, stageVars, outVars
<1>4. ControlInv(p)' /\ ControlTypes'
  BY <1>1, OnwardControl DEF Tried, Dropping
<1>5. StageInv(p)'
  BY <1>1, InPublish DEF Publishing, Continue, Goto, IInv, TypeOK, StageInv, Staged, stageVars
<1>6. PublishInv(p)'
  <2>1. pc'[p] = "execute" /\ task' = task
    BY <1>1 DEF Continue, Goto, IInv, TypeOK
  <2>2. \A i \in Tasks : i < task[p] => ledger'[i] = "SUCCESS"
    BY <1>1, Holder DEF PublishInv, IInv, TypeOK, Tasks
  <2>3. ledger'[task[p]] = "RUNNING"
    BY <1>1 DEF IInv, TypeOK
  <2> QED BY <1>1, <2>1, <2>2, <2>3, InPublish DEF PublishInv, Publishing
<1> QED BY <1>1, <1>2, <1>3, <1>4, <1>5, <1>6, ContinueProc, Parts

\* A range task that runs in the final publish reads complete rows.
LEMMA SourceFull ==
  ASSUME IInv, NEW p \in Procs, pc[p] = "execute"
  PROVE  task[p] \in Tasks /\ Source(task[p]) = "full" /\ out[task[p]] # "bad"
<1>1. task[p] \in Tasks
  BY Holder DEF PublishInv
<1>2. Source(task[p]) = "full"
  BY <1>1, InPublish, CnConstants DEF Publishing, Source, AllRows, PUBLISH_STAGE_TABLES, Tasks
<1> QED BY <1>1, <1>2, Holder DEF NothingMixed

\* A committed range task has its rows, computed from a complete source.
LEMMA ExecuteRangeStep ==
  ASSUME IInv, NEW p \in Procs, ExecuteRange(p)
  PROVE  IInv'
<1>1. pc[p] = "execute"
  BY DEF ExecuteRange
<1>2. task[p] \in Tasks /\ Source(task[p]) = "full" /\ out[task[p]] # "bad"
  BY <1>1, SourceFull
<1>3. /\ ledger' = [ledger EXCEPT ![task[p]] = "SUCCESS"]
      /\ out' = [out EXCEPT ![task[p]] = "good"]
      /\ task' = [task EXCEPT ![p] = task[p] + 1]
      /\ pc' = [pc EXCEPT ![p] = "range"]
      /\ UNCHANGED <<status, lock, retrying, resuming, trying, finalResume,
                     stageVars, pub, pubCkpt, goods, mustReplay, boundVars>>
  BY <1>2 DEF ExecuteRange, Published, NextTask, Goto
<1>4. ControlTypes'
  BY <1>2, <1>3, CnConstants DEF IInv, TypeOK, ControlTypes, Tasks, Pcs, boundVars
<1>5. DataTypes'
  BY <1>3 DEF IInv, TypeOK, DataTypes, stageVars, Durable
<1>6. DataInv'
  <2>1. CheckpointInv'
    BY <1>1, <1>3, InPublish, Holder DEF Publishing, CheckpointInv, stageVars, IInv, TypeOK
  <2>2. NothingMixed'
    BY <1>3, Holder, <1>1 DEF NothingMixed, IInv, TypeOK
  <2> QED BY <1>1, <1>3, <2>1, <2>2, InPublish DEF Publishing, DataInv, RegisteredIsEmpty,
            SuccessIsComplete
<1>7. ControlInv(p)'
  BY <1>1, <1>3, Holder DEF IInv, TypeOK, ControlInv, Tried, Unaccepted, Dropping
<1>8. StageInv(p)'
  BY <1>1, <1>3, InPublish DEF Publishing, IInv, TypeOK, StageInv, Staged, stageVars
<1>9. PublishInv(p)'
  <2>1. pc'[p] = "range" /\ task'[p] = task[p] + 1
    BY <1>3 DEF IInv, TypeOK
  <2>2. \A i \in Tasks : i < task[p] => ledger[i] = "SUCCESS"
    BY <1>1, Holder DEF PublishInv
  <2>3. \A i \in Tasks : i < task'[p] => ledger'[i] = "SUCCESS"
    BY <1>2, <1>3, <2>1, <2>2, CnConstants DEF IInv, TypeOK, Tasks
  <2> QED BY <1>1, <1>3, <2>1, <2>3, InPublish DEF PublishInv, Publishing
<1>10. \A q \in Procs \ {p} : pc'[q] = pc[q] /\ trying'[q] = trying[q]
  BY <1>3 DEF IInv, TypeOK
<1> QED BY <1>1, <1>4, <1>5, <1>6, <1>7, <1>8, <1>9, <1>10, Frame, Holder, Parts

\* A failed range task is not SUCCESS in the ledger.
LEMMA FailRangeStep ==
  ASSUME IInv, ~ErrorsAfterAccept, NEW p \in Procs, FailRange(p)
  PROVE  IInv'
<1>1. pc[p] = "execute" /\ Fault(p)
  BY DEF FailRange
<1>2. task[p] \in Tasks /\ Source(task[p]) = "full" /\ out[task[p]] # "bad"
  BY <1>1, SourceFull
<1>3. PICK s \in {"RUNNING", "FAILED"} : ledger' = [ledger EXCEPT ![task[p]] = s]
  BY DEF FailRange
<1>4. PICK r \in {"good", "part"} : out' = [out EXCEPT ![task[p]] = r]
  BY <1>2 DEF FailRange, Published
<1>5. UNCHANGED <<status, stageVars, pub, pubCkpt, goods, mustReplay>>
  BY DEF FailRange
<1>6. DataTypes'
  BY <1>3, <1>4, <1>5 DEF IInv, TypeOK, DataTypes, stageVars, Durable
<1>7. DataInv'
  <2>1. CheckpointInv'
    BY <1>1, <1>3, <1>4, <1>5, InPublish, Holder DEF Publishing, CheckpointInv, stageVars,
          IInv, TypeOK
  <2>2. NothingMixed'
    BY <1>1, <1>4, <1>5, Holder DEF NothingMixed, IInv, TypeOK
  <2> QED BY <1>1, <1>5, <2>1, <2>2, InPublish DEF Publishing, DataInv, RegisteredIsEmpty,
            SuccessIsComplete
<1> QED BY <1>1, <1>5, <1>6, <1>7, FaultStep

\* The attempt goes on to acceptance when every range task is committed.
LEMMA FinishPublishStep ==
  ASSUME IInv, ~ErrorsAfterAccept, NEW p \in Procs, FinishPublish(p)
  PROVE  IInv'
<1>1. /\ pc[p] = "range" /\ task[p] \notin Tasks
      /\ UNCHANGED <<status, dataVars, mustReplay>>
      /\ Continue(p, "accept") \/ (Raise(p) /\ UNCHANGED boundVars)
  BY DEF FinishPublish
<1>2. CASE Raise(p) /\ UNCHANGED boundVars
  BY <1>1, <1>2, RaiseStep
<1>3. CASE Continue(p, "accept")
  <2>1. ControlInv(p)' /\ ControlTypes'
    BY <1>1, <1>3, OnwardControl DEF Tried, Dropping
  <2>2. DataTypes' /\ DataInv'
    BY <1>1, DataUnchanged
  <2>3. StageInv(p)'
    BY <1>1, <1>3, InPublish DEF Publishing, Continue, Goto, IInv, TypeOK, StageInv, Staged,
          dataVars, stageVars
  <2>4. \A i \in Tasks : ledger[i] = "SUCCESS"
    BY <1>1, InPublish, Holder, CnConstants DEF Publishing, PublishInv, Tasks
  <2>5. PublishInv(p)'
    BY <1>1, <1>3, <2>4, InPublish DEF Continue, Goto, IInv, TypeOK, PublishInv, Publishing,
          dataVars, pubVars
  <2> QED BY <1>1, <1>3, <2>1, <2>2, <2>3, <2>5, ContinueProc, Parts
<1> QED BY <1>1, <1>2, <1>3

-----------------------------------------------------------------------------
(* Accepting the package and dropping the temporary data.                  *)

\* The SUCCESS write finds complete durable rows.
LEMMA AcceptStep ==
  ASSUME IInv, NEW p \in Procs, Accept(p)
  PROVE  IInv'
<1>1. /\ pc[p] = "accept" /\ status' = "SUCCESS" /\ Continue(p, "dropStage")
      /\ UNCHANGED <<dataVars, mustReplay>>
  BY DEF Accept
<1>2. \A i \in Tasks : out[i] = "good"
  BY <1>1, Holder DEF PublishInv, CheckpointInv
<1>3. ControlTypes'
  BY <1>1, ContinueTypes DEF Pcs, Dropping
<1>4. DataTypes'
  BY <1>1 DEF IInv, TypeOK, DataTypes, dataVars, stageVars, pubVars, outVars, Statuses
<1>5. DataInv'
  BY <1>1, <1>2, InPublish, Holder DEF Publishing, DataInv, CheckpointInv, RegisteredIsEmpty,
        SuccessIsComplete, NothingMixed, dataVars, stageVars, pubVars, outVars
<1>6. ControlInv(p)'
  BY <1>1, InPublish, ContinueControl DEF Publishing, Tried, Unaccepted, Dropping
<1>7. StageInv(p)' /\ PublishInv(p)'
  BY <1>1 DEF Continue, Goto, IInv, TypeOK, StageInv, PublishInv, Staged, Publishing
<1> QED BY <1>1, <1>3, <1>4, <1>5, <1>6, <1>7, ContinueProc, Parts

\* The steps of the cleanup touch neither durable rows nor the status.
LEMMA DropStep ==
  ASSUME IInv, ~ErrorsAfterAccept, NEW p \in Procs,
         \/ DropStage(p) \/ DropPublishStages(p)
         \/ DropPublishCheckpoint(p) \/ DropStageCheckpoint(p)
  PROVE  IInv'
<1>1. /\ pc[p] \in Dropping /\ UNCHANGED <<status, outVars, mustReplay>>
      /\ Fault(p) \/ \E l \in (Dropping \ {"dropStage"}) \cup {"release"} : Continue(p, l)
  <2>1. trying[p]
    BY Holder DEF DropStage, DropPublishStages, DropPublishCheckpoint, DropStageCheckpoint,
          ControlInv, Tried, Dropping
  <2> QED BY <2>1 DEF DropStage, DropPublishStages, DropPublishCheckpoint,
            DropStageCheckpoint, DeleteStage, Dropping
<1>2. status # "REGISTERED" /\ trying[p]
  BY <1>1, Holder DEF ControlInv, Tried, Dropping
<1>3. /\ stage' \in Rows
      /\ pub' \in [PUBLISH_STAGE_TABLES -> Rows]
      /\ \/ UNCHANGED <<stageCkpt, ckptAged>>
         \/ stageCkpt' = {} /\ ckptAged' = FALSE
      /\ \/ UNCHANGED <<pubCkpt, ledger>>
         \/ pubCkpt' = {} /\ ledger' = NoLedger
  BY DEF DropStage, DropPublishStages, DropPublishCheckpoint, DropStageCheckpoint,
         DeleteStage, ClearPublishCheckpoint, ClearStageCheckpoint, Torn, AllRows, Rows,
         stageVars, pubVars, IInv, TypeOK
<1>4. DataTypes'
  BY <1>1, <1>3 DEF IInv, TypeOK, DataTypes, outVars, NoLedger
<1>5. DataInv'
  BY <1>1, <1>2, <1>3 DEF IInv, DataInv, CheckpointInv, RegisteredIsEmpty, SuccessIsComplete,
        NothingMixed, outVars, NoLedger
<1>6. CASE Fault(p)
  BY <1>1, <1>4, <1>5, <1>6, FaultStep DEF Dropping
<1>7. ASSUME NEW l \in (Dropping \ {"dropStage"}) \cup {"release"}, Continue(p, l)
      PROVE  IInv'
  <2>1. pc[p] # "idle"
    BY <1>1 DEF Dropping
  <2>2. ControlTypes'
    BY <1>7, ContinueTypes DEF Pcs, Dropping
  <2>3. ControlInv(p)' /\ StageInv(p)' /\ PublishInv(p)'
    BY <1>1, <1>2, <1>7, <2>1, Holder DEF Continue, Goto, IInv, TypeOK, ControlInv, StageInv,
          PublishInv, Tried, Unaccepted, Dropping, Staged, Publishing
  <2> QED BY <1>4, <1>5, <1>7, <2>1, <2>2, <2>3, ContinueProc, Parts
<1> QED BY <1>1, <1>6, <1>7

-----------------------------------------------------------------------------
(* The surroundings.                                                       *)

\* Nothing happens to the processes while all of them are idle.
LEMMA IdleFrame ==
  ASSUME IInv, NobodyWorks, UNCHANGED <<lock, procVars>>
  PROVE  ProcInv'
<1> SUFFICES ASSUME NEW p \in Procs
             PROVE  ControlInv(p)' /\ StageInv(p)' /\ PublishInv(p)'
  BY DEF ProcInv
<1>1. pc[p] = "idle" /\ ~trying[p]
  BY DEF NobodyWorks, IInv, ProcInv, ControlInv, Tried, Dropping
<1> QED BY <1>1 DEF procVars, ControlInv, StageInv, PublishInv, Tried, Unaccepted, Staged,
             Publishing, Dropping

\* A requeue happens under the lock, while nobody works.
LEMMA RequeueStep ==
  ASSUME IInv, Requeue
  PROVE  IInv'
<1>1. NobodyWorks
  BY CnConstants DEF Requeue, NobodyWorks, IInv, ProcInv, ControlInv
<1>2. ProcInv'
  BY <1>1, IdleFrame DEF Requeue
<1>3. TypeOK'
  BY DEF Requeue, IInv, TypeOK, procVars, dataVars, stageVars, pubVars, outVars, Statuses
<1>4. DataInv'
  BY DEF Requeue, IInv, DataInv, CheckpointInv, RegisteredIsEmpty, SuccessIsComplete,
         NothingMixed, dataVars, stageVars, pubVars, outVars
<1> QED BY <1>2, <1>3, <1>4 DEF IInv

\* An aged checkpoint vouches for no more than before.
LEMMA AgeStep ==
  ASSUME IInv, AgeStageCheckpoint
  PROVE  IInv'
<1> USE DEF AgeStageCheckpoint, procVars, pubVars, outVars, boundVars
<1>1. TypeOK'
  BY DEF IInv, TypeOK
<1>2. ProcInv'
  BY DEF IInv, ProcInv, ControlInv, StageInv, PublishInv
<1>3. DataInv'
  BY DEF IInv, DataInv, CheckpointInv, RegisteredIsEmpty, SuccessIsComplete, NothingMixed
<1> QED BY <1>1, <1>2, <1>3 DEF IInv

\* Rows expire between attempts; no durable row is touched.
LEMMA ExpireStep ==
  ASSUME IInv, ExpireStage \/ \E t \in PUBLISH_STAGE_TABLES : ExpirePublishStage(t)
  PROVE  IInv'
<1>1. /\ NobodyWorks
      /\ UNCHANGED <<status, lock, procVars, stageCkpt, ckptAged, pubCkpt, ledger, outVars,
                     mustReplay, boundVars>>
      /\ stage' \in Rows /\ pub' \in [PUBLISH_STAGE_TABLES -> Rows]
  BY DEF ExpireStage, ExpirePublishStage, DeleteExpiredRows, Torn, Rows, stageVars, pubVars,
         IInv, TypeOK
<1>2. status # "REGISTERED"
  BY DEF ExpireStage, ExpirePublishStage, DeleteExpiredRows, AllRows, IInv, DataInv,
         RegisteredIsEmpty
<1>3. ProcInv'
  BY <1>1, IdleFrame
<1>4. TypeOK'
  BY <1>1 DEF IInv, TypeOK, procVars, outVars, boundVars
<1>5. DataInv'
  BY <1>1, <1>2 DEF IInv, DataInv, CheckpointInv, RegisteredIsEmpty, SuccessIsComplete,
        NothingMixed, outVars
<1> QED BY <1>3, <1>4, <1>5 DEF IInv

-----------------------------------------------------------------------------
(* The theorems.                                                           *)

\* Every step keeps the invariant while nothing raises after SUCCESS.
LEMMA NextStep ==
  ASSUME IInv, ~ErrorsAfterAccept, [Next]_vars
  PROVE  IInv'
<1>1. CASE UNCHANGED vars
  <2>1. UNCHANGED <<lock, procVars, boundVars>> /\ UNCHANGED <<status, dataVars, mustReplay>>
    BY <1>1 DEF vars
  <2>2. DataTypes' /\ DataInv'
    BY <2>1, DataUnchanged
  <2>3. ControlTypes'
    BY <2>1 DEF IInv, TypeOK, ControlTypes, procVars, boundVars
  <2>4. ProcInv'
    BY <2>1 DEF IInv, ProcInv, ControlInv, StageInv, PublishInv, procVars, dataVars,
          stageVars, pubVars, outVars
  <2> QED BY <2>2, <2>3, <2>4, Parts
<1>2. ASSUME NEW p \in Procs,
             \/ Acquire(p) \/ Recover(p) \/ SelectNothing(p) \/ Enter(p) \/ Start(p)
             \/ Select(p, NormalCandidates) \/ Select(p, RetryCandidates)
             \/ MarkPackageFailed(p) \/ Release(p) \/ Interrupt(p)
      PROVE  IInv'
  BY <1>2, AcquireStep, RecoverStep, SelectNothingStep, EnterStep, StartStep, SelectStep,
     MarkPackageFailedStep, ReleaseStep, InterruptStep DEF NormalCandidates, RetryCandidates
<1>3. ASSUME NEW p \in Procs,
             \/ CleanStage(p) \/ FailStage(p) \/ CleanOutputs(p) \/ FailOutputs(p)
             \/ Parse(p) \/ Quality(p) \/ BeginPublish(p) \/ RefusePublish(p)
             \/ PublishGoods(p) \/ MaterializeCase(p) \/ MaterializeParty(p)
             \/ SavePublishCheckpoint(p)
      PROVE  IInv'
  BY <1>3, CleanStageStep, CleanOutputsStep, ParseStep, QualityStep, BeginPublishStep,
     RefusePublishStep, PublishGoodsStep, MaterializeStep, SavePublishCheckpointStep
<1>4. ASSUME NEW p \in Procs,
             \/ SkipRange(p) \/ MarkRunning(p) \/ ExecuteRange(p) \/ FailRange(p)
             \/ FinishPublish(p) \/ Accept(p)
             \/ DropStage(p) \/ DropPublishStages(p)
             \/ DropPublishCheckpoint(p) \/ DropStageCheckpoint(p)
      PROVE  IInv'
  BY <1>4, SkipRangeStep, MarkRunningStep, ExecuteRangeStep, FailRangeStep,
     FinishPublishStep, AcceptStep, DropStep
<1>5. CASE \/ Requeue \/ AgeStageCheckpoint \/ ExpireStage
           \/ \E t \in PUBLISH_STAGE_TABLES : ExpirePublishStage(t)
  BY <1>5, RequeueStep, AgeStep, ExpireStep
<1> QED BY <1>1, <1>2, <1>3, <1>4, <1>5 DEF Next, Attempt

\* The invariant holds in every reachable state.
LEMMA Invariance ==
  ASSUME ~ErrorsAfterAccept
  PROVE  Spec => []IInv
<1>1. IInv /\ [Next]_vars => IInv'
  BY NextStep
<1> QED BY InitInv, <1>1, PTL DEF Spec

\* The state of the package pipeline keeps its types, whatever is interrupted.
THEOREM PipelineTypes ==
  ASSUME ~ErrorsAfterAccept
  PROVE  Spec => []TypeOK
<1>1. IInv => TypeOK
  BY DEF IInv
<1> QED BY Invariance, <1>1, PTL

\* When no call raises between the SUCCESS status and the return of the attempt,
\* a package that update_package_status marked SUCCESS has all its goods rows and
\* the rows of all range tasks, after any number of crashes, errors, retries,
\* resumes, expiries and requeues.
THEOREM AcceptedIsComplete ==
  ASSUME ~ErrorsAfterAccept
  PROVE  Spec => []SuccessIsComplete
<1>1. IInv => SuccessIsComplete
  BY DEF IInv, DataInv
<1> QED BY Invariance, <1>1, PTL

\* Under the same condition no durable row is computed from a partly written,
\* expired or doubled stage, nor goods published over goods.
THEOREM DurableRowsAreSound ==
  ASSUME ~ErrorsAfterAccept
  PROVE  Spec => []NothingMixed
<1>1. IInv => NothingMixed
  BY DEF IInv, DataInv
<1> QED BY Invariance, <1>1, PTL

-----------------------------------------------------------------------------
(* What a step may never do.                                               *)

\* The actions that write durable rows, the ledger or the publish checkpoint.
Writing(p) ==
    \/ CleanOutputs(p) \/ FailOutputs(p) \/ PublishGoods(p) \/ ExecuteRange(p)
    \/ FailRange(p) \/ Enter(p) \/ SavePublishCheckpoint(p) \/ MarkRunning(p)
    \/ DropPublishCheckpoint(p)

\* Every other step leaves them alone.
LEMMA OtherSteps ==
  ASSUME [Next]_vars, \A p \in Procs : ~Writing(p)
  PROVE  UNCHANGED <<pubCkpt, ledger, goods, out>>
<1> USE DEF dataVars, stageVars, pubVars, outVars
<1>1. CASE UNCHANGED vars
  BY <1>1 DEF vars
<1>2. ASSUME NEW p \in Procs,
             \/ Acquire(p) \/ Recover(p) \/ SelectNothing(p) \/ Start(p)
             \/ Select(p, NormalCandidates) \/ Select(p, RetryCandidates)
             \/ MarkPackageFailed(p) \/ Release(p) \/ Interrupt(p)
      PROVE  UNCHANGED <<pubCkpt, ledger, goods, out>>
  BY <1>2 DEF Acquire, Recover, SelectNothing, Start, Select, MarkPackageFailed, Release,
        Interrupt
<1>3. ASSUME NEW p \in Procs,
             \/ CleanStage(p) \/ FailStage(p) \/ Parse(p) \/ Quality(p)
             \/ BeginPublish(p) \/ RefusePublish(p)
             \/ MaterializeCase(p) \/ MaterializeParty(p)
      PROVE  UNCHANGED <<pubCkpt, ledger, goods, out>>
  BY <1>3 DEF CleanStage, FailStage, CleanStageKeepingCheckpoint, Parse, Quality,
        BeginPublish, RefusePublish, MaterializeCase, MaterializeParty, Materialize
<1>4. ASSUME NEW p \in Procs,
             \/ SkipRange(p) \/ FinishPublish(p) \/ Accept(p) \/ DropStage(p)
             \/ DropPublishStages(p) \/ DropStageCheckpoint(p)
      PROVE  UNCHANGED <<pubCkpt, ledger, goods, out>>
  BY <1>4 DEF SkipRange, FinishPublish, Accept, DropStage, DropPublishStages,
        DropStageCheckpoint
<1>5. CASE \/ Requeue \/ AgeStageCheckpoint \/ ExpireStage
           \/ \E t \in PUBLISH_STAGE_TABLES : ExpirePublishStage(t)
  BY <1>5 DEF Requeue, AgeStageCheckpoint, ExpireStage, ExpirePublishStage, DeleteExpiredRows
<1> QED BY <1>1, <1>2, <1>3, <1>4, <1>5 DEF Next, Attempt, Writing

\* Durable rows are written before the package is accepted, and not after.
LEMMA RowsKeptStep ==
  ASSUME IInv, [Next]_vars, status = "SUCCESS"
  PROVE  UNCHANGED outVars
<1>1. ASSUME NEW p \in Procs, Writing(p)
      PROVE  UNCHANGED outVars
  <2>1. pc[p] \notin Unaccepted
    BY DEF IInv, ProcInv, ControlInv
  <2>2. DropPublishCheckpoint(p)
    BY <1>1, <2>1 DEF Writing, CleanOutputs, FailOutputs, PublishGoods, ExecuteRange,
          FailRange, Enter, SavePublishCheckpoint, MarkRunning, Unaccepted, Tried, Dropping
  <2> QED BY <2>2 DEF DropPublishCheckpoint
<1> QED BY <1>1, OtherSteps DEF outVars

\* A committed range task keeps its ledger row and its durable rows as long as
\* the publish checkpoint stands.
LEMMA DurableStep ==
  ASSUME IInv, [Next]_vars, NEW i \in Tasks, ledger[i] = "SUCCESS", pubCkpt' # {}
  PROVE  ledger'[i] = "SUCCESS" /\ out'[i] = out[i]
<1>1. pubCkpt # {} /\ out[i] = "good"
  BY DEF IInv, DataInv, CheckpointInv
<1>2. ASSUME NEW p \in Procs, Enter(p) \/ DropPublishCheckpoint(p)
      PROVE  UNCHANGED <<ledger, out>>
  BY <1>2 DEF Enter, DropPublishCheckpoint, ClearPublishCheckpoint, outVars
<1>3. ASSUME NEW p \in Procs, CleanOutputs(p) \/ FailOutputs(p)
      PROVE  UNCHANGED <<ledger, out>>
  BY <1>1, <1>3 DEF CleanOutputs, FailOutputs, CleanPartialOutputs, HasPublishCheckpoint
<1>4. ASSUME NEW p \in Procs, PublishGoods(p) \/ SavePublishCheckpoint(p)
      PROVE  UNCHANGED <<ledger, out>>
  BY <1>4 DEF PublishGoods, SavePublishCheckpoint, outVars
<1>5. ASSUME NEW p \in Procs, MarkRunning(p)
      PROVE  ledger'[i] = "SUCCESS" /\ out'[i] = out[i]
  BY <1>5 DEF MarkRunning, NeedsRun, outVars, IInv, TypeOK
<1>6. ASSUME NEW p \in Procs, ExecuteRange(p) \/ FailRange(p)
      PROVE  ledger'[i] = "SUCCESS" /\ out'[i] = out[i]
  <2>1. pc[p] = "execute"
    BY <1>6 DEF ExecuteRange, FailRange
  <2>2. task[p] # i
    BY <2>1 DEF IInv, ProcInv, PublishInv
  <2> QED BY <1>6, <2>2 DEF ExecuteRange, FailRange, IInv, TypeOK
<1> QED BY <1>2, <1>3, <1>4, <1>5, <1>6, OtherSteps DEF Writing

\* While nothing raises between the SUCCESS write and the return, the goods rows
\* and the range rows of a package do not change as long as it says SUCCESS: the
\* cleanup of the attempt, later cycles, expiries and crashes leave them alone.
THEOREM AcceptedRowsStay ==
  ASSUME ~ErrorsAfterAccept
  PROVE  Spec => AcceptedRowsKept
<1>1. IInv /\ [Next]_vars => [status = "SUCCESS" => UNCHANGED outVars]_vars
  BY RowsKeptStep
<1> QED BY Invariance, <1>1, PTL DEF Spec, AcceptedRowsKept

\* Under the same condition cn_publish_subtask is a ledger of durable work: no
\* retry, resume, error or crash runs a SUCCESS range task again or touches its
\* rows before clear_publish_checkpoint.
THEOREM CommittedWorkStays ==
  ASSUME ~ErrorsAfterAccept
  PROVE  Spec => DurableWork
<1> DEFINE A == \A i \in Tasks :
                  ledger[i] = "SUCCESS" /\ pubCkpt' # {} =>
                     ledger'[i] = "SUCCESS" /\ out'[i] = out[i]
<1>1. IInv /\ [Next]_vars => [A]_vars
  BY DurableStep
<1> QED BY Invariance, <1>1, PTL DEF Spec, DurableWork

-----------------------------------------------------------------------------
(* The ingestion lock alone, whatever raises.                              *)

\* Places before the try block.
Untried == {"idle", "recover", "select", "enter"}

\* A process in a cycle holds the lock, and has no try block open before one begins.
GuardInv ==
    /\ lock \in Procs \cup {NoProc}
    /\ pc \in [Procs -> Pcs] /\ trying \in [Procs -> BOOLEAN]
    /\ \A p \in Procs : /\ pc[p] # "idle" => lock = p
                        /\ pc[p] \in Untried => ~trying[p]

\* What a step of p does to the lock and to the control state.
Moves(p) ==
    \E l \in Pcs, b \in BOOLEAN :
        /\ pc' = [pc EXCEPT ![p] = l] /\ trying' = [trying EXCEPT ![p] = b]
        /\ l \in Untried => ~b
        /\ lock' = IF l = "idle" THEN NoProc ELSE p

\* Such a step keeps the lock exclusive.
LEMMA MovesKeep ==
  ASSUME GuardInv, NEW p \in Procs, lock \in {p, NoProc}, Moves(p)
  PROVE  GuardInv'
<1>1. PICK l \in Pcs, b \in BOOLEAN :
        /\ pc' = [pc EXCEPT ![p] = l] /\ trying' = [trying EXCEPT ![p] = b]
        /\ l \in Untried => ~b
        /\ lock' = IF l = "idle" THEN NoProc ELSE p
  BY DEF Moves
<1>2. \A q \in Procs \ {p} : pc[q] = "idle" /\ pc'[q] = "idle" /\ trying'[q] = trying[q]
  BY <1>1, CnConstants DEF GuardInv
<1> QED BY <1>1, <1>2 DEF GuardInv

\* Going on, raising, dying and ending the cycle are such steps.
LEMMA StepsMove ==
  ASSUME GuardInv, NEW p \in Procs, pc[p] # "idle"
  PROVE  /\ \A l \in Pcs \ Untried : Continue(p, l) => Moves(p)
         /\ \A l \in {"select"} : pc[p] \in Untried /\ Continue(p, l) => Moves(p)
         /\ Raise(p) => Moves(p)
         /\ Fault(p) => Moves(p)
<1>1. lock = p /\ pc[p] \in Pcs
  BY DEF GuardInv
<1>2. ASSUME NEW l \in Pcs \ Untried, Continue(p, l) PROVE Moves(p)
  <2>1. trying' = [trying EXCEPT ![p] = trying[p]] /\ trying[p] \in BOOLEAN
    BY <1>2 DEF GuardInv, Continue
  <2>2. pc' = [pc EXCEPT ![p] = l] /\ lock' = p /\ l # "idle"
    BY <1>1, <1>2 DEF Continue, Goto, Untried
  <2> QED BY <2>1, <2>2, Zenon DEF Moves
<1>3. \A l \in {"select"} : pc[p] \in Untried /\ Continue(p, l) => Moves(p)
  BY <1>1 DEF GuardInv, Continue, Goto, Moves, Untried, Pcs
<1>4. Raise(p) => Moves(p)
  <2>1. Handler(p) \in Pcs \ Untried
    BY DEF Handler, Pcs, Untried
  <2> QED BY <1>1, <2>1 DEF Raise, Goto, Moves, Untried
<1>5. Die(p) => Moves(p)
  BY <1>1 DEF Die, EndCycle, Goto, Moves, Pcs, Untried
<1> QED BY <1>2, <1>3, <1>4, <1>5 DEF Fault

\* So is every step of a cycle.
LEMMA CycleMoves ==
  ASSUME GuardInv, NEW p \in Procs,
         \/ Acquire(p) \/ Attempt(p) \/ FailRange(p) \/ Interrupt(p)
         \/ Select(p, NormalCandidates) \/ Select(p, RetryCandidates)
  PROVE  lock \in {p, NoProc} /\ Moves(p)
<1>0. pc[p] \in Pcs /\ (pc[p] # "idle" => lock = p)
  BY DEF GuardInv
<1> USE DEF Pcs, Untried, Dropping
<1>1. CASE Acquire(p)
  BY <1>1 DEF GuardInv, Acquire, LockIsFree, Goto, Moves
<1>2. CASE Select(p, NormalCandidates) \/ Select(p, RetryCandidates)
  BY <1>0, <1>2 DEF GuardInv, Select, Goto, Moves
<1>3. CASE Enter(p)
  <2>1. pc' = [pc EXCEPT ![p] = "start"] /\ trying' = [trying EXCEPT ![p] = TRUE]
    BY <1>3 DEF Enter, Goto
  <2>2. lock = p /\ lock' = p
    BY <1>0, <1>3 DEF Enter
  <2>3. Moves(p)
    <3>1. "start" \in Pcs \ Untried /\ "start" # "idle"
      OBVIOUS
    <3> QED BY <2>1, <2>2, <3>1, Zenon DEF Moves
  <2> QED BY <2>2, <2>3
<1>12. CASE Release(p)
  <2>1. pc' = [pc EXCEPT ![p] = "idle"] /\ trying' = [trying EXCEPT ![p] = FALSE]
    BY <1>12 DEF Release, EndCycle, Goto
  <2>2. lock = p /\ lock' = NoProc
    BY <1>0, <1>12 DEF Release
  <2>3. Moves(p)
    <3>1. "idle" \in Pcs
      OBVIOUS
    <3> QED BY <2>1, <2>2, <3>1, Zenon DEF Moves
  <2> QED BY <2>2, <2>3
<1>4. CASE \/ BeginPublish(p) \/ SkipRange(p) \/ ExecuteRange(p)
  BY <1>0, <1>4 DEF GuardInv, BeginPublish, SkipRange, ExecuteRange, Goto, Moves
<1>5. CASE Recover(p) \/ SelectNothing(p)
  BY <1>0, <1>5, StepsMove DEF Recover, SelectNothing
<1>6. CASE \/ Start(p) \/ Accept(p) \/ MarkPackageFailed(p) \/ SavePublishCheckpoint(p)
           \/ MarkRunning(p) \/ DropPublishCheckpoint(p) \/ DropStageCheckpoint(p)
  BY <1>0, <1>6, StepsMove DEF Start, Accept, MarkPackageFailed, SavePublishCheckpoint,
        MarkRunning, DropPublishCheckpoint, DropStageCheckpoint
<1>7. CASE RefusePublish(p) \/ FailRange(p) \/ Interrupt(p)
  BY <1>0, <1>7, StepsMove DEF RefusePublish, FailRange, Interrupt
<1>8. CASE Parse(p) \/ Quality(p) \/ FinishPublish(p)
  BY <1>0, <1>8, StepsMove DEF Parse, Quality, FinishPublish
<1>9. CASE CleanStage(p) \/ FailStage(p) \/ DropStage(p)
  BY <1>0, <1>9, StepsMove DEF CleanStage, FailStage, CleanStageKeepingCheckpoint, DropStage,
        DeleteStage
<1>10. CASE CleanOutputs(p) \/ FailOutputs(p) \/ DropPublishStages(p)
  BY <1>0, <1>10, StepsMove DEF CleanOutputs, FailOutputs, CleanPartialOutputs,
        DeleteOutputs, DropPublishStages
<1>11. CASE PublishGoods(p) \/ MaterializeCase(p) \/ MaterializeParty(p)
  BY <1>0, <1>11, StepsMove DEF PublishGoods, MaterializeCase, MaterializeParty, Materialize
<1> QED BY <1>1, <1>2, <1>3, <1>4, <1>5, <1>6, <1>7, <1>8, <1>9, <1>10, <1>11,
           <1>12 DEF Attempt

\* The lock is exclusive in every reachable state.
LEMMA GuardHolds == Spec => []GuardInv
<1>1. Init => GuardInv
  BY DEF Init, GuardInv, Pcs, Untried
<1>2. GuardInv /\ [Next]_vars => GuardInv'
  <2> SUFFICES ASSUME GuardInv, [Next]_vars PROVE GuardInv'
    OBVIOUS
  <2>1. CASE UNCHANGED <<lock, procVars>>
    BY <2>1 DEF GuardInv, procVars
  <2>2. CASE \/ Requeue \/ AgeStageCheckpoint \/ ExpireStage \/ UNCHANGED vars
             \/ \E t \in PUBLISH_STAGE_TABLES : ExpirePublishStage(t)
    BY <2>1, <2>2 DEF Requeue, AgeStageCheckpoint, ExpireStage, ExpirePublishStage,
          DeleteExpiredRows, vars
  <2> QED BY <2>2, CycleMoves, MovesKeep DEF Next
<1> QED BY <1>1, <1>2, PTL DEF Spec

\* cn_ingestion_guard makes recovery safe: as long as the lock's session lasts,
\* recover_interrupted_cn_ingestions turns PROCESSING into INTERRUPTED only when no
\* process is in the try block of an attempt.
THEOREM AbandonedRecovered == Spec => OnlyAbandonedRecovered
<1> DEFINE A == status = "PROCESSING" /\ status' = "INTERRUPTED" =>
                  \A p \in Procs : ~trying[p]
<1>1. GuardInv /\ [Next]_vars => [A]_vars
  <2> SUFFICES ASSUME GuardInv, Next, status = "PROCESSING", status' = "INTERRUPTED",
                      NEW q \in Procs
               PROVE  ~trying[q]
    OBVIOUS
  <2>1. PICK p \in Procs : Recover(p)
    <3> USE DEF dataVars
    <3>1. ~(Requeue \/ AgeStageCheckpoint \/ ExpireStage
            \/ \E t \in PUBLISH_STAGE_TABLES : ExpirePublishStage(t))
      BY DEF Requeue, AgeStageCheckpoint, ExpireStage, ExpirePublishStage, DeleteExpiredRows
    <3>2. ASSUME NEW p \in Procs
          PROVE  ~(\/ Acquire(p) \/ SelectNothing(p) \/ Enter(p) \/ Start(p)
                   \/ Select(p, NormalCandidates) \/ Select(p, RetryCandidates)
                   \/ MarkPackageFailed(p) \/ Release(p) \/ Interrupt(p)
                   \/ CleanStage(p) \/ FailStage(p) \/ Parse(p) \/ Quality(p)
                   \/ BeginPublish(p) \/ RefusePublish(p) \/ CleanOutputs(p)
                   \/ FailOutputs(p) \/ PublishGoods(p))
      BY DEF Acquire, SelectNothing, Enter, Start, Select, MarkPackageFailed, Release,
             Interrupt, CleanStage, FailStage, CleanStageKeepingCheckpoint, Parse, Quality,
             BeginPublish, RefusePublish, CleanOutputs, FailOutputs, CleanPartialOutputs,
             PublishGoods
    <3>3. ASSUME NEW p \in Procs
          PROVE  ~(\/ MaterializeCase(p) \/ MaterializeParty(p) \/ SavePublishCheckpoint(p)
                   \/ SkipRange(p) \/ MarkRunning(p) \/ ExecuteRange(p) \/ FailRange(p)
                   \/ FinishPublish(p) \/ Accept(p) \/ DropStage(p) \/ DropPublishStages(p)
                   \/ DropPublishCheckpoint(p) \/ DropStageCheckpoint(p))
      BY DEF MaterializeCase, MaterializeParty, Materialize, SavePublishCheckpoint,
             SkipRange, MarkRunning, ExecuteRange, FailRange, FinishPublish, Accept,
             DropStage, DropPublishStages, DropPublishCheckpoint, DropStageCheckpoint
    <3> QED BY <3>1, <3>2, <3>3 DEF Next, Attempt
  <2>2. pc[p] = "recover"
    BY <2>1 DEF Recover
  <2> QED BY <2>2, CnConstants DEF GuardInv, Untried
<1> QED BY GuardHolds, <1>1, PTL DEF Spec, OnlyAbandonedRecovered

=============================================================================
