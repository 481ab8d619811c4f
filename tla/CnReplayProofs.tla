--------------------------- MODULE CnReplayProofs ---------------------------
(***************************************************************************)
(* Proofs about CnReplay, for any number of packages, runners and faults:  *)
(* its types, that at most one package says PROCESSING, and that no        *)
(* accepted package is ingested again; and, for one runner at a time, that *)
(* the replay is ordered and that COMPLETE means complete.                 *)
(***************************************************************************)
EXTENDS CnReplay, TLAPS

\* Where a runner is inside cn_ingestion_guard.
Holding == {"recover", "list", "pick", "attempt", "archived", "accepted", "release"}

\* The session lock is held exactly inside cn_ingestion_guard.
LockInv == \A r \in Runners : pc[r] \in Holding <=> lock = r

\* An attempt has a package.
AttemptInv ==
    \A r \in Runners : pc[r] \in {"attempt", "archived", "accepted"} => cur[r] \in Packages

\* Once recovery has run, the lock's holder knows the only PROCESSING package.
ProcessingInv ==
    \A r \in Runners, p \in Packages : status[p] = "PROCESSING" =>
        /\ pc[r] \notin {"list", "pick", "accepted", "release"}
        /\ pc[r] \in {"attempt", "archived"} => cur[r] = p

\* The candidates read under the lock stay candidates until it is released.
CandidatesInv ==
    \A r \in Runners, p \in Packages :
        pc[r] = "pick" /\ p \in todo[r] => status[p] # "SUCCESS"

SafeInv == LockInv /\ AttemptInv /\ ProcessingInv /\ CandidatesInv /\ OneProcessing

IInv == TypeOK /\ SafeInv

\* The invariant holds before the first cycle.
LEMMA InitIInv == Init => IInv
  BY ReplayConstants
  DEF Init, IInv, SafeInv, TypeOK, LockInv, AttemptInv, ProcessingInv, CandidatesInv, OneProcessing,
      Holding, Statuses, Pcs, Verdicts, Packages

\* TypeOK in three parts.
RegistryTypes ==
    /\ status \in [Packages -> Statuses]
    /\ file \in [Packages -> {"none", "incoming", "archive"}]
    /\ lock \in Runners \cup {NoRunner}
    /\ crashes \in Nat /\ failures \in Nat /\ losses \in Nat

ControlTypes ==
    /\ pc \in [Runners -> Pcs] /\ kind \in [Runners -> Kinds]
    /\ verdict \in [Runners -> Verdicts]

CallTypes ==
    /\ repairing \in [Runners -> BOOLEAN] /\ scanFailed \in [Runners -> BOOLEAN]
    /\ todo \in [Runners -> SUBSET Packages]
    /\ cur \in [Runners -> 0..NumPackages]
    /\ got \in [Runners -> SUBSET {"success", "failed", "missing"}]

\* TypeOK is its three parts.
LEMMA TypeParts == TypeOK <=> RegistryTypes /\ ControlTypes /\ CallTypes
  BY DEF TypeOK, RegistryTypes, ControlTypes, CallTypes

\* The end of a cycle resets its local state.
LEMMA EndCallTypes ==
  ASSUME CallTypes, NEW r \in Runners, NEW v \in Verdicts, End(r, v)
  PROVE  CallTypes'
<1>1. repairing' \in [Runners -> BOOLEAN] /\ scanFailed' \in [Runners -> BOOLEAN]
  BY DEF CallTypes, End
<1>2. todo' \in [Runners -> SUBSET Packages] /\ got' \in [Runners -> SUBSET {"success", "failed", "missing"}]
  BY DEF CallTypes, End
<1>3. cur' \in [Runners -> 0..NumPackages]
  BY ReplayConstants DEF CallTypes, End
<1> QED BY <1>1, <1>2, <1>3 DEF CallTypes

\* Every step keeps the types.
LEMMA TypeStep == ASSUME TypeOK, Next PROVE TypeOK'
<1> USE ReplayConstants DEF callVars, runnerVars, boundVars, Goto, Failing
<1>0. RegistryTypes /\ ControlTypes /\ CallTypes
  BY TypeParts
<1>1. ASSUME NEW r \in Runners, NEW k \in Kinds, Start(r, k) PROVE TypeOK'
  <2>1. RegistryTypes' BY <1>0, <1>1 DEF Start, RegistryTypes, Statuses, Packages
  <2>2. ControlTypes' BY <1>0, <1>1 DEF End, Start, ControlTypes, Pcs, Verdicts
  <2>3. CallTypes' BY <1>0, <1>1 DEF Start, CallTypes, Packages
  <2> QED BY <2>1, <2>2, <2>3, TypeParts DEF TypeOK, RegistryTypes, ControlTypes, CallTypes
<1>2. ASSUME NEW r \in Runners, GuardClean(r) PROVE TypeOK'
  <2>1. RegistryTypes' BY <1>0, <1>2 DEF GuardClean, RegistryTypes, Statuses, Packages
  <2>2. ControlTypes' BY <1>0, <1>2 DEF End, GuardClean, ControlTypes, Pcs, Verdicts
  <2>3. CallTypes' BY <1>0, <1>2, EndCallTypes DEF GuardClean, CallTypes, Packages, Verdicts
  <2> QED BY <2>1, <2>2, <2>3, TypeParts DEF TypeOK, RegistryTypes, ControlTypes, CallTypes
<1>3. ASSUME NEW r \in Runners, GuardRetry(r) PROVE TypeOK'
  <2>1. RegistryTypes' BY <1>0, <1>3 DEF GuardRetry, RegistryTypes, Statuses, Packages
  <2>2. ControlTypes' BY <1>0, <1>3 DEF End, GuardRetry, ControlTypes, Pcs, Verdicts
  <2>3. CallTypes' BY <1>0, <1>3, EndCallTypes DEF GuardRetry, CallTypes, Packages, Verdicts
  <2> QED BY <2>1, <2>2, <2>3, TypeParts DEF TypeOK, RegistryTypes, ControlTypes, CallTypes
<1>4. ASSUME NEW r \in Runners, GuardContinue(r) PROVE TypeOK'
  <2>1. RegistryTypes' BY <1>0, <1>4 DEF GuardContinue, RegistryTypes, Statuses, Packages
  <2>2. ControlTypes' BY <1>0, <1>4 DEF End, GuardContinue, ControlTypes, Pcs, Verdicts
  <2>3. CallTypes' BY <1>0, <1>4 DEF GuardContinue, CallTypes, Packages
  <2> QED BY <2>1, <2>2, <2>3, TypeParts DEF TypeOK, RegistryTypes, ControlTypes, CallTypes
<1>5. ASSUME NEW r \in Runners, GuardBlocked(r) PROVE TypeOK'
  <2>1. RegistryTypes' BY <1>0, <1>5 DEF GuardBlocked, RegistryTypes, Statuses, Packages
  <2>2. ControlTypes' BY <1>0, <1>5 DEF End, GuardBlocked, ControlTypes, Pcs, Verdicts
  <2>3. CallTypes' BY <1>0, <1>5, EndCallTypes DEF GuardBlocked, CallTypes, Packages, Verdicts
  <2> QED BY <2>1, <2>2, <2>3, TypeParts DEF TypeOK, RegistryTypes, ControlTypes, CallTypes
<1>6. ASSUME NEW r \in Runners, NEW p \in Packages, Register(r, p) PROVE TypeOK'
  <2>1. RegistryTypes' BY <1>0, <1>6 DEF Register, RegistryTypes, Statuses, Packages
  <2>2. ControlTypes' BY <1>0, <1>6 DEF End, Register, ControlTypes, Pcs, Verdicts
  <2>3. CallTypes' BY <1>0, <1>6 DEF Register, CallTypes, Packages
  <2> QED BY <2>1, <2>2, <2>3, TypeParts DEF TypeOK, RegistryTypes, ControlTypes, CallTypes
<1>7. ASSUME NEW r \in Runners, ScanDone(r) PROVE TypeOK'
  <2>1. RegistryTypes' BY <1>0, <1>7 DEF ScanDone, RegistryTypes, Statuses, Packages
  <2>2. ControlTypes' BY <1>0, <1>7 DEF End, ScanDone, ControlTypes, Pcs, Verdicts
  <2>3. CallTypes' BY <1>0, <1>7, EndCallTypes DEF ScanDone, CallTypes, Packages, Verdicts
  <2> QED BY <2>1, <2>2, <2>3, TypeParts DEF TypeOK, RegistryTypes, ControlTypes, CallTypes
<1>8. ASSUME NEW r \in Runners, Acquire(r) \/ Busy(r) PROVE TypeOK'
  <2>1. RegistryTypes' BY <1>0, <1>8 DEF Acquire, Busy, RegistryTypes, Statuses, Packages
  <2>2. ControlTypes' BY <1>0, <1>8 DEF End, Acquire, Busy, ControlTypes, Pcs, Verdicts
  <2>3. CallTypes' BY <1>0, <1>8, EndCallTypes DEF Acquire, Busy, CallTypes, Packages, Verdicts
  <2> QED BY <2>1, <2>2, <2>3, TypeParts DEF TypeOK, RegistryTypes, ControlTypes, CallTypes
<1>9. ASSUME NEW r \in Runners, Recover(r) PROVE TypeOK'
  <2>1. RegistryTypes' BY <1>0, <1>9 DEF Recover, RegistryTypes, Statuses, Packages
  <2>2. ControlTypes' BY <1>0, <1>9 DEF End, Recover, ControlTypes, Pcs, Verdicts
  <2>3. CallTypes' BY <1>0, <1>9 DEF Recover, CallTypes, Packages
  <2> QED BY <2>1, <2>2, <2>3, TypeParts DEF TypeOK, RegistryTypes, ControlTypes, CallTypes
<1>10. ASSUME NEW r \in Runners, List(r) \/ PickNothing(r) PROVE TypeOK'
  <2>1. RegistryTypes' BY <1>0, <1>10 DEF List, PickNothing, RegistryTypes, Statuses, Packages
  <2>2. ControlTypes' BY <1>0, <1>10 DEF End, List, PickNothing, ControlTypes, Pcs, Verdicts
  <2>3. CallTypes' BY <1>0, <1>10 DEF List, PickNothing, CallTypes, Packages
  <2> QED BY <2>1, <2>2, <2>3, TypeParts DEF TypeOK, RegistryTypes, ControlTypes, CallTypes
<1>11. ASSUME NEW r \in Runners, NEW p \in Packages, PickMissing(r, p) PROVE TypeOK'
  <2>1. RegistryTypes' BY <1>0, <1>11 DEF PickMissing, RegistryTypes, Statuses, Packages
  <2>2. ControlTypes' BY <1>0, <1>11 DEF End, PickMissing, ControlTypes, Pcs, Verdicts
  <2>3. CallTypes' BY <1>0, <1>11 DEF PickMissing, CallTypes, Packages
  <2> QED BY <2>1, <2>2, <2>3, TypeParts DEF TypeOK, RegistryTypes, ControlTypes, CallTypes
<1>12. ASSUME NEW r \in Runners, NEW p \in Packages, Pick(r, p) PROVE TypeOK'
  <2>1. RegistryTypes' BY <1>0, <1>12 DEF Pick, RegistryTypes, Statuses, Packages
  <2>2. ControlTypes' BY <1>0, <1>12 DEF End, Pick, ControlTypes, Pcs, Verdicts
  <2>3. CallTypes' BY <1>0, <1>12 DEF Pick, CallTypes, Packages
  <2> QED BY <2>1, <2>2, <2>3, TypeParts DEF TypeOK, RegistryTypes, ControlTypes, CallTypes
<1>13. ASSUME NEW r \in Runners, Archive(r) \/ Accept(r) PROVE TypeOK'
  <2>1. RegistryTypes' BY <1>0, <1>13 DEF Archive, Accept, RegistryTypes, Statuses, Packages
  <2>2. ControlTypes' BY <1>0, <1>13 DEF End, Archive, Accept, ControlTypes, Pcs, Verdicts
  <2>3. CallTypes' BY <1>0, <1>13 DEF Archive, Accept, CallTypes, Packages
  <2> QED BY <2>1, <2>2, <2>3, TypeParts DEF TypeOK, RegistryTypes, ControlTypes, CallTypes
<1>14. ASSUME NEW r \in Runners, Finish(r) \/ Fail(r) PROVE TypeOK'
  <2>1. RegistryTypes' BY <1>0, <1>14 DEF Finish, Fail, Return, RegistryTypes, Statuses, Packages
  <2>2. ControlTypes' BY <1>0, <1>14 DEF End, Finish, Fail, Return, ControlTypes, Pcs, Verdicts
  <2>3. CallTypes' BY <1>0, <1>14 DEF Finish, Fail, Return, CallTypes, Packages
  <2> QED BY <2>1, <2>2, <2>3, TypeParts DEF TypeOK, RegistryTypes, ControlTypes, CallTypes
<1>15. ASSUME NEW r \in Runners, Release(r) \/ ReportResult(r) PROVE TypeOK'
  <2>1. RegistryTypes' BY <1>0, <1>15 DEF Release, ReportResult, RegistryTypes, Statuses, Packages
  <2>2. ControlTypes' BY <1>0, <1>15 DEF End, Release, ReportResult, ControlTypes, Pcs, Verdicts
  <2>3. CallTypes' BY <1>0, <1>15, EndCallTypes DEF Release, ReportResult, CallTypes, Packages, Verdicts
  <2> QED BY <2>1, <2>2, <2>3, TypeParts DEF TypeOK, RegistryTypes, ControlTypes, CallTypes
<1>16. ASSUME NEW r \in Runners, ReplayResult(r) PROVE TypeOK'
  <2>1. RegistryTypes' BY <1>0, <1>16 DEF ReplayResult, RegistryTypes, Statuses, Packages
  <2>2. ControlTypes' BY <1>0, <1>16 DEF End, ReplayResult, ControlTypes, Pcs, Verdicts
  <2>3. CallTypes' BY <1>0, <1>16, EndCallTypes DEF ReplayResult, CallTypes, Packages, Verdicts
  <2> QED BY <2>1, <2>2, <2>3, TypeParts DEF TypeOK, RegistryTypes, ControlTypes, CallTypes
<1>17. ASSUME NEW r \in Runners, Crash(r) PROVE TypeOK'
  <2>1. RegistryTypes' BY <1>0, <1>17 DEF Crash, RegistryTypes, Statuses, Packages
  <2>2. ControlTypes' BY <1>0, <1>17 DEF End, Crash, ControlTypes, Pcs, Verdicts
  <2>3. CallTypes' BY <1>0, <1>17, EndCallTypes DEF Crash, CallTypes, Packages, Verdicts
  <2> QED BY <2>1, <2>2, <2>3, TypeParts DEF TypeOK, RegistryTypes, ControlTypes, CallTypes
<1>18. ASSUME NEW p \in Packages, Deliver(p) \/ LoseFile(p) PROVE TypeOK'
  <2>1. RegistryTypes' BY <1>0, <1>18 DEF Deliver, LoseFile, RegistryTypes, Statuses, Packages
  <2>2. ControlTypes' BY <1>0, <1>18 DEF End, Deliver, LoseFile, ControlTypes, Pcs, Verdicts
  <2>3. CallTypes' BY <1>0, <1>18 DEF Deliver, LoseFile, CallTypes, Packages
  <2> QED BY <2>1, <2>2, <2>3, TypeParts DEF TypeOK, RegistryTypes, ControlTypes, CallTypes
<1> QED
  BY <1>1, <1>2, <1>3, <1>4, <1>5, <1>6, <1>7, <1>8, <1>9, <1>10, <1>11, <1>12, <1>13, <1>14, <1>15, <1>16, <1>17, <1>18
  DEF Next, Cycle

-----------------------------------------------------------------------------

\* What a runner does outside the lock: it touches neither lock nor candidates of
\* the holder, and registration writes only REGISTERED and FAILED.
OutsideStep(r, l) ==
    /\ pc[r] \notin Holding /\ l \notin Holding
    /\ pc' = [pc EXCEPT ![r] = l] /\ lock' = lock
    /\ \A q \in Runners \ {r} : cur'[q] = cur[q] /\ todo'[q] = todo[q]
    /\ \A p \in Packages : status'[p] \in {status[p], "REGISTERED", "FAILED"}

\* A step outside the ingestion lock that begins no package keeps the safe part.
LEMMA OutsideSafe ==
  ASSUME IInv, NEW r \in Runners, NEW l, OutsideStep(r, l)
  PROVE  SafeInv'
<1> USE DEF IInv, SafeInv, TypeOK, OutsideStep, Holding
<1>1. LockInv' BY DEF LockInv
<1>2. AttemptInv' BY DEF AttemptInv
<1>3. ProcessingInv' BY DEF ProcessingInv
<1>4. CandidatesInv' BY DEF CandidatesInv
<1>5. OneProcessing' BY DEF OneProcessing
<1> QED BY <1>1, <1>2, <1>3, <1>4, <1>5

\* The guard, the scan and the reports are such steps.
LEMMA OutsideActions ==
  ASSUME IInv, NEW r \in Runners,
         \/ \E k \in Kinds : Start(r, k)
         \/ GuardClean(r) \/ GuardRetry(r) \/ GuardContinue(r) \/ GuardBlocked(r)
         \/ \E p \in Packages : Register(r, p)
         \/ ScanDone(r) \/ Busy(r) \/ ReportResult(r) \/ ReplayResult(r)
  PROVE  SafeInv'
<1> USE DEF IInv, TypeOK, OutsideStep, Holding, Goto, callVars, boundVars, Failing
<1>0. ASSUME NEW v, End(r, v), lock' = lock, status' = status, pc[r] \notin Holding
      PROVE  OutsideStep(r, "idle")
  BY <1>0 DEF End
<1>1. ASSUME NEW k \in Kinds, Start(r, k) PROVE SafeInv'
  <2>1. OutsideStep(r, "acquire") \/ OutsideStep(r, "guard") BY <1>1 DEF Start
  <2> QED BY <2>1, OutsideSafe
<1>2. CASE GuardClean(r)
  <2>1. OutsideStep(r, "scan") \/ OutsideStep(r, "idle") BY <1>0, <1>2 DEF GuardClean
  <2> QED BY <2>1, OutsideSafe
<1>3. CASE GuardRetry(r)
  <2>1. OutsideStep(r, "acquire") \/ OutsideStep(r, "idle") BY <1>0, <1>3 DEF GuardRetry
  <2> QED BY <2>1, OutsideSafe
<1>4. CASE GuardContinue(r)
  <2>1. OutsideStep(r, "acquire") \/ OutsideStep(r, "scan") BY <1>4 DEF GuardContinue
  <2> QED BY <2>1, OutsideSafe
<1>5. CASE GuardBlocked(r)
  <2>1. OutsideStep(r, "idle") BY <1>0, <1>5 DEF GuardBlocked
  <2> QED BY <2>1, OutsideSafe
<1>6. ASSUME NEW p \in Packages, Register(r, p) PROVE SafeInv'
  <2>1. OutsideStep(r, "scan") BY <1>6 DEF Register
  <2> QED BY <2>1, OutsideSafe
<1>7. CASE ScanDone(r)
  <2>1. OutsideStep(r, "idle") \/ OutsideStep(r, "acquire") \/ OutsideStep(r, "reguard")
    BY <1>0, <1>7 DEF ScanDone
  <2> QED BY <2>1, OutsideSafe
<1>8. CASE Busy(r) \/ ReportResult(r)
  <2>1. OutsideStep(r, "idle") BY <1>0, <1>8 DEF Busy, ReportResult
  <2> QED BY <2>1, OutsideSafe
<1>9. CASE ReplayResult(r)
  <2>1. OutsideStep(r, "idle") \/ OutsideStep(r, "acquire") \/ OutsideStep(r, "reguard")
    BY <1>0, <1>9 DEF ReplayResult
  <2> QED BY <2>1, OutsideSafe
<1> QED BY <1>1, <1>2, <1>3, <1>4, <1>5, <1>6, <1>7, <1>8, <1>9

\* Taking the free lock keeps it.
LEMMA AcquireSafe ==
  ASSUME IInv, NEW r \in Runners, Acquire(r)
  PROVE  SafeInv'
<1> USE DEF IInv, SafeInv, TypeOK, Goto, callVars, Acquire, LockIsFree
<1>1. LockInv' BY ReplayConstants DEF LockInv, Holding
<1>2. AttemptInv' BY DEF AttemptInv
<1>3. ProcessingInv' BY DEF ProcessingInv, LockInv, Holding
<1>4. CandidatesInv' BY DEF CandidatesInv, LockInv, Holding
<1>5. OneProcessing' BY DEF OneProcessing, ProcessingInv
<1> QED BY <1>1, <1>2, <1>3, <1>4, <1>5

\* Recovery leaves no PROCESSING package.
LEMMA RecoverSafe ==
  ASSUME IInv, NEW r \in Runners, Recover(r)
  PROVE  SafeInv'
<1> USE DEF IInv, SafeInv, TypeOK, Goto, callVars, Recover
<1>1. LockInv' BY ReplayConstants DEF LockInv, Holding
<1>2. AttemptInv' BY DEF AttemptInv
<1>3. ProcessingInv' BY DEF ProcessingInv, LockInv, Holding
<1>4. CandidatesInv' BY DEF CandidatesInv, LockInv, Holding
<1>5. OneProcessing' BY DEF OneProcessing, ProcessingInv
<1> QED BY <1>1, <1>2, <1>3, <1>4, <1>5

\* The candidates are not accepted when they are read.
LEMMA ListSafe ==
  ASSUME IInv, NEW r \in Runners, List(r)
  PROVE  SafeInv'
<1> USE DEF IInv, SafeInv, TypeOK, Goto, callVars, List
<1>1. LockInv' BY ReplayConstants DEF LockInv, Holding
<1>2. AttemptInv' BY DEF AttemptInv
<1>3. ProcessingInv' BY DEF ProcessingInv, LockInv, Holding, NormalCandidates, RepairCandidates
<1>4. CandidatesInv' BY DEF CandidatesInv, LockInv, Holding, NormalCandidates, RepairCandidates
<1>5. OneProcessing' BY DEF OneProcessing, ProcessingInv, NormalCandidates, RepairCandidates
<1> QED BY <1>1, <1>2, <1>3, <1>4, <1>5

\* Skipping a missing file keeps it.
LEMMA PickMissingSafe ==
  ASSUME IInv, NEW r \in Runners, NEW p \in Packages, PickMissing(r, p)
  PROVE  SafeInv'
<1> USE DEF IInv, SafeInv, TypeOK, Goto, callVars, PickMissing, First
<1>1. LockInv' BY ReplayConstants DEF LockInv, Holding
<1>2. AttemptInv' BY DEF AttemptInv
<1>3. ProcessingInv' BY DEF ProcessingInv, LockInv, Holding
<1>4. CandidatesInv' BY DEF CandidatesInv, LockInv, Holding
<1>5. OneProcessing' BY DEF OneProcessing, ProcessingInv
<1> QED BY <1>1, <1>2, <1>3, <1>4, <1>5

\* The package that begins is the only PROCESSING one.
LEMMA PickSafe ==
  ASSUME IInv, NEW r \in Runners, NEW p \in Packages, Pick(r, p)
  PROVE  SafeInv'
<1> USE DEF IInv, SafeInv, TypeOK, Goto, callVars, Pick, First
<1>1. LockInv' BY ReplayConstants DEF LockInv, Holding
<1>2. AttemptInv' BY DEF AttemptInv
<1>3. ProcessingInv' BY DEF ProcessingInv, LockInv, Holding
<1>4. CandidatesInv' BY DEF CandidatesInv, LockInv, Holding
<1>5. OneProcessing' BY DEF OneProcessing, ProcessingInv
<1> QED BY <1>1, <1>2, <1>3, <1>4, <1>5

\* Ending the list keeps it.
LEMMA PickNothingSafe ==
  ASSUME IInv, NEW r \in Runners, PickNothing(r)
  PROVE  SafeInv'
<1> USE DEF IInv, SafeInv, TypeOK, Goto, callVars, PickNothing
<1>1. LockInv' BY ReplayConstants DEF LockInv, Holding
<1>2. AttemptInv' BY DEF AttemptInv
<1>3. ProcessingInv' BY DEF ProcessingInv, LockInv, Holding
<1>4. CandidatesInv' BY DEF CandidatesInv, LockInv, Holding
<1>5. OneProcessing' BY DEF OneProcessing, ProcessingInv
<1> QED BY <1>1, <1>2, <1>3, <1>4, <1>5

\* The archive move keeps it.
LEMMA ArchiveSafe ==
  ASSUME IInv, NEW r \in Runners, Archive(r)
  PROVE  SafeInv'
<1> USE DEF IInv, SafeInv, TypeOK, Goto, callVars, Archive
<1>1. LockInv' BY ReplayConstants DEF LockInv, Holding
<1>2. AttemptInv' BY DEF AttemptInv
<1>3. ProcessingInv' BY DEF ProcessingInv, LockInv, Holding
<1>4. CandidatesInv' BY DEF CandidatesInv, LockInv, Holding
<1>5. OneProcessing' BY DEF OneProcessing, ProcessingInv
<1> QED BY <1>1, <1>2, <1>3, <1>4, <1>5

\* The SUCCESS write ends PROCESSING.
LEMMA AcceptSafe ==
  ASSUME IInv, NEW r \in Runners, Accept(r)
  PROVE  SafeInv'
<1> USE DEF IInv, SafeInv, TypeOK, Goto, callVars, Accept
<1>1. LockInv' BY ReplayConstants DEF LockInv, Holding
<1>2. AttemptInv' BY DEF AttemptInv
<1>3. ProcessingInv' BY DEF ProcessingInv, LockInv, Holding, AttemptInv
<1>4. CandidatesInv' BY DEF CandidatesInv, LockInv, Holding, AttemptInv
<1>5. OneProcessing' BY DEF OneProcessing, ProcessingInv, AttemptInv
<1> QED BY <1>1, <1>2, <1>3, <1>4, <1>5

\* Returning from an accepted package keeps it.
LEMMA FinishSafe ==
  ASSUME IInv, NEW r \in Runners, Finish(r)
  PROVE  SafeInv'
<1> USE DEF IInv, SafeInv, TypeOK, Goto, callVars, Finish, Return
<1>1. LockInv' BY ReplayConstants DEF LockInv, Holding
<1>2. AttemptInv' BY DEF AttemptInv
<1>3. ProcessingInv' BY DEF ProcessingInv, LockInv, Holding
<1>4. CandidatesInv' BY DEF CandidatesInv, LockInv, Holding
<1>5. OneProcessing' BY DEF OneProcessing, ProcessingInv
<1> QED BY <1>1, <1>2, <1>3, <1>4, <1>5

\* The FAILED write ends PROCESSING.
LEMMA FailSafe ==
  ASSUME IInv, NEW r \in Runners, Fail(r)
  PROVE  SafeInv'
<1> USE DEF IInv, SafeInv, TypeOK, Goto, callVars, Fail, Return
<1>1. LockInv' BY ReplayConstants DEF LockInv, Holding
<1>2. AttemptInv' BY DEF AttemptInv
<1>3. ProcessingInv' BY DEF ProcessingInv, LockInv, Holding, AttemptInv
<1>4. CandidatesInv' BY DEF CandidatesInv, LockInv, Holding, AttemptInv
<1>5. OneProcessing' BY DEF OneProcessing, ProcessingInv, AttemptInv
<1> QED BY <1>1, <1>2, <1>3, <1>4, <1>5

\* Releasing the lock keeps it.
LEMMA ReleaseSafe ==
  ASSUME IInv, NEW r \in Runners, Release(r)
  PROVE  SafeInv'
<1> USE DEF IInv, SafeInv, TypeOK, Goto, callVars, Release
<1>1. LockInv' BY ReplayConstants DEF LockInv, Holding
<1>2. AttemptInv' BY DEF AttemptInv
<1>3. ProcessingInv' BY DEF ProcessingInv, LockInv, Holding
<1>4. CandidatesInv' BY DEF CandidatesInv, LockInv, Holding
<1>5. OneProcessing' BY DEF OneProcessing, ProcessingInv
<1> QED BY <1>1, <1>2, <1>3, <1>4, <1>5

\* A death frees the lock and may leave its package PROCESSING.
LEMMA CrashSafe ==
  ASSUME IInv, NEW r \in Runners, Crash(r)
  PROVE  SafeInv'
<1> USE DEF IInv, SafeInv, TypeOK, Goto, callVars, Crash, End
<1>1. LockInv' BY ReplayConstants DEF LockInv, Holding
<1>2. AttemptInv' BY DEF AttemptInv
<1>3. ProcessingInv' BY DEF ProcessingInv, LockInv, Holding
<1>4. CandidatesInv' BY DEF CandidatesInv, LockInv, Holding
<1>5. OneProcessing' BY DEF OneProcessing, ProcessingInv
<1> QED BY <1>1, <1>2, <1>3, <1>4, <1>5

\* Every step keeps the safe part.
LEMMA SafeStep == ASSUME IInv, Next PROVE SafeInv'
<1>1. ASSUME NEW p \in Packages, Deliver(p) \/ LoseFile(p) PROVE SafeInv'
  BY <1>1 DEF IInv, SafeInv, Deliver, LoseFile, runnerVars, callVars, LockInv, AttemptInv,
              ProcessingInv, CandidatesInv, OneProcessing
<1> QED
  BY <1>1, OutsideActions, AcquireSafe, RecoverSafe, ListSafe, PickMissingSafe, PickSafe,
     PickNothingSafe, ArchiveSafe, AcceptSafe, FinishSafe, FailSafe, ReleaseSafe, CrashSafe
  DEF Next, Cycle

\* Stuttering keeps the invariant.
LEMMA StutterStep == ASSUME IInv, UNCHANGED vars PROVE IInv'
  BY DEF IInv, SafeInv, TypeOK, LockInv, AttemptInv, ProcessingInv, CandidatesInv,
         OneProcessing, vars, runnerVars, callVars, boundVars

\* The invariant holds in every reachable state.
LEMMA Invariant == Spec => []IInv
<1>1. IInv /\ [Next]_vars => IInv'
  BY TypeStep, SafeStep, StutterStep DEF IInv
<1> QED BY InitIInv, <1>1, PTL DEF Spec

-----------------------------------------------------------------------------

\* The registry, the files and the runners keep their types.
THEOREM ReplayTypes == Spec => []TypeOK
<1>1. IInv => TypeOK BY DEF IInv
<1> QED BY Invariant, <1>1, PTL

\* Recovery and the ingestion lock leave at most one PROCESSING package.
THEOREM AtMostOneProcessing == Spec => []OneProcessing
<1>1. IInv => OneProcessing BY DEF IInv, SafeInv
<1> QED BY Invariant, <1>1, PTL

\* An accepted package is never ingested again.
THEOREM AcceptedNotRepeated == Spec => SuccessNotRepeated
<1> DEFINE A == \A p \in Packages : status[p] = "SUCCESS" => status'[p] # "PROCESSING"
<1>1. IInv /\ [Next]_vars => [A]_vars
  <2> SUFFICES ASSUME IInv, Next, NEW p \in Packages, status[p] = "SUCCESS"
               PROVE  status'[p] # "PROCESSING"
    OBVIOUS
  <2>1. ASSUME NEW r \in Runners, NEW q \in Packages, Register(r, q) \/ PickMissing(r, q) \/ Pick(r, q)
        PROVE  status'[p] # "PROCESSING"
    BY <2>1 DEF IInv, SafeInv, TypeOK, CandidatesInv, Register, PickMissing, Pick, First
  <2>2. ASSUME NEW r \in Runners, Recover(r) \/ Accept(r) \/ Fail(r)
        PROVE  status'[p] # "PROCESSING"
    BY <2>2 DEF IInv, TypeOK, Recover, Accept, Fail
  <2>3. CASE UNCHANGED status
    BY <2>3
  <2> QED
    BY <2>1, <2>2, <2>3
    DEF Next, Cycle, Start, GuardClean, GuardRetry, GuardContinue, GuardBlocked, ScanDone,
        Acquire, Busy, List, PickNothing, Archive, Finish, Release, ReportResult,
        ReplayResult, Crash, Deliver, LoseFile
<1> QED BY Invariant, <1>1, PTL DEF Spec, SuccessNotRepeated

-----------------------------------------------------------------------------
(* Replay by one runner at a time.                                         *)

\* The execution guard is evaluated outside the lock, so the order of the replay
\* is a promise to an operator who runs one entry point at a time.
OneRunner == \A r, s \in Runners : r = s

\* Past the retry barrier nothing needs a repair, until the call itself meets it.
BarrierInv(r) ==
    ~repairing[r] => \A p \in Packages :
        /\ pc[r] \in {"scan", "acquire", "recover", "list"} =>
             status[p] \notin {"FAILED", "MISSING_FILE"}
        /\ pc[r] \in (Holding \ {"recover", "list"}) \cup {"after"} =>
             /\ status[p] = "FAILED" => "failed" \in got[r]
             /\ status[p] = "MISSING_FILE" => "missing" \in got[r]

\* The candidate list is the queue: a failure ends it, and an empty result means an empty queue.
QueueInv(r) == \A p \in Packages :
    /\ pc[r] = "pick" => "failed" \notin got[r]
    /\ pc[r] = "pick" /\ ~repairing[r] /\ status[p] \in NormalCandidates => p \in todo[r]
    /\ pc[r] = "pick" /\ repairing[r] /\ p \in todo[r] => status[p] \in RepairCandidates
    /\ pc[r] \in {"release", "after"} /\ ~repairing[r] /\ got[r] = {} =>
         status[p] \in {"ABSENT", "SUCCESS"}

ReplayInv == \A r \in Runners : BarrierInv(r) /\ QueueInv(r)

\* The guard and the scan: only they open the way past the barrier.
LEMMA EntrySteps ==
  ASSUME IInv, ReplayInv, NEW r \in Runners,
         \/ \E k \in Kinds : Start(r, k)
         \/ GuardClean(r) \/ GuardRetry(r) \/ GuardContinue(r) \/ GuardBlocked(r)
         \/ \E p \in Packages : Register(r, p)
         \/ ScanDone(r)
  PROVE  BarrierInv(r)' /\ QueueInv(r)'
<1> USE DEF IInv, ReplayInv, TypeOK, Goto, BarrierInv, QueueInv, Holding
<1>0. ASSUME NEW v, End(r, v) PROVE BarrierInv(r)' /\ QueueInv(r)'
  BY <1>0 DEF End
<1>1. ASSUME NEW k \in Kinds, Start(r, k) PROVE BarrierInv(r)' /\ QueueInv(r)'
  BY <1>1 DEF Start
<1>2. CASE GuardClean(r)
  BY <1>0, <1>2 DEF GuardClean, Registered
<1>3. CASE GuardRetry(r)
  BY <1>0, <1>3 DEF GuardRetry
<1>4. CASE GuardContinue(r)
  BY <1>4 DEF GuardContinue, RetryRequired
<1>5. CASE GuardBlocked(r)
  BY <1>0, <1>5 DEF GuardBlocked
<1>6. ASSUME NEW p \in Packages, Register(r, p) PROVE BarrierInv(r)' /\ QueueInv(r)'
  BY <1>6 DEF Register
<1>7. CASE ScanDone(r)
  BY <1>0, <1>7 DEF ScanDone, callVars
<1> QED BY <1>1, <1>2, <1>3, <1>4, <1>5, <1>6, <1>7

\* The call under the lock: what it meets is in its result.
LEMMA CallSteps ==
  ASSUME IInv, ReplayInv, NEW r \in Runners,
         \/ Acquire(r) \/ Busy(r) \/ Recover(r) \/ List(r) \/ PickNothing(r)
         \/ \E p \in Packages : PickMissing(r, p) \/ Pick(r, p)
  PROVE  BarrierInv(r)' /\ QueueInv(r)'
<1> USE DEF IInv, ReplayInv, TypeOK, Goto, BarrierInv, QueueInv, Holding, callVars
<1>1. CASE Acquire(r)
  BY <1>1 DEF Acquire
<1>2. CASE Busy(r)
  BY <1>2 DEF Busy, End
<1>3. CASE Recover(r)
  BY <1>3 DEF Recover
<1>4. CASE List(r)
  BY <1>4 DEF List
<1>5. CASE PickNothing(r)
  <2>1. \A p \in Packages : status[p] # "PROCESSING"
    BY <1>5 DEF PickNothing, SafeInv, ProcessingInv
  <2> QED BY <1>5, <2>1 DEF PickNothing, NormalCandidates, Statuses
<1>6. ASSUME NEW p \in Packages, PickMissing(r, p) PROVE BarrierInv(r)' /\ QueueInv(r)'
  BY <1>6 DEF PickMissing, First, NormalCandidates
<1>7. ASSUME NEW p \in Packages, Pick(r, p) PROVE BarrierInv(r)' /\ QueueInv(r)'
  BY <1>7 DEF Pick
<1> QED BY <1>1, <1>2, <1>3, <1>4, <1>5, <1>6, <1>7

\* The attempt and what the caller makes of it.
LEMMA ResultSteps ==
  ASSUME IInv, ReplayInv, NEW r \in Runners,
         \/ Archive(r) \/ Accept(r) \/ Finish(r) \/ Fail(r) \/ Release(r)
         \/ ReportResult(r) \/ ReplayResult(r) \/ Crash(r)
  PROVE  BarrierInv(r)' /\ QueueInv(r)'
<1> USE DEF IInv, ReplayInv, TypeOK, Goto, BarrierInv, QueueInv, Holding, callVars
<1>0. ASSUME NEW v, End(r, v) PROVE BarrierInv(r)' /\ QueueInv(r)'
  BY <1>0 DEF End
<1>1. CASE Archive(r) \/ Accept(r)
  BY <1>1 DEF Archive, Accept
<1>2. CASE Finish(r)
  BY <1>2 DEF Finish, Return
<1>3. CASE Fail(r)
  BY <1>3 DEF Fail, Return
<1>4. CASE Release(r)
  BY <1>4 DEF Release
<1>5. CASE ReportResult(r) \/ Crash(r)
  BY <1>0, <1>5 DEF ReportResult, Crash
<1>6. CASE ReplayResult(r)
  BY <1>0, <1>6 DEF ReplayResult, ResultFailed
<1> QED BY <1>1, <1>2, <1>3, <1>4, <1>5, <1>6

\* With one runner the barrier holds in every reachable state.
LEMMA ReplayInvariant ==
  ASSUME OneRunner
  PROVE  Spec => []ReplayInv
<1>1. Init => ReplayInv
  BY DEF Init, ReplayInv, BarrierInv, QueueInv, Holding
<1>2. IInv /\ ReplayInv /\ [Next]_vars => ReplayInv'
  <2> SUFFICES ASSUME IInv, ReplayInv, [Next]_vars, NEW s \in Runners
               PROVE  BarrierInv(s)' /\ QueueInv(s)'
    BY DEF ReplayInv
  <2>1. CASE UNCHANGED <<status, runnerVars>>
    BY <2>1 DEF ReplayInv, BarrierInv, QueueInv, runnerVars, callVars
  <2>2. ASSUME NEW p \in Packages, Deliver(p) \/ LoseFile(p)
        PROVE  BarrierInv(s)' /\ QueueInv(s)'
    BY <2>1, <2>2 DEF Deliver, LoseFile
  <2>3. ASSUME NEW r \in Runners,
               Cycle(r) \/ GuardBlocked(r) \/ Crash(r) \/ \E k \in Kinds : Start(r, k)
        PROVE  BarrierInv(s)' /\ QueueInv(s)'
    <3>1. BarrierInv(r)' /\ QueueInv(r)'
      BY <2>3, EntrySteps, CallSteps, ResultSteps DEF Cycle
    <3> QED BY <3>1 DEF OneRunner
  <2> QED BY <2>1, <2>2, <2>3 DEF Next, vars
<1> QED BY <1>1, <1>2, Invariant, PTL DEF Spec

\* The retry barrier of build_execution_guard: with one runner at a time,
\* ingest_pending_cn does not begin a registered package while a package of lower
\* source_rank is FAILED, INTERRUPTED or PROCESSING, whatever fails or crashes.
THEOREM ReplayIsOrdered ==
  ASSUME OneRunner
  PROVE  Spec => OrderedReplay
<1> DEFINE A == \A p, q \in Packages : Begins(p) /\ q < p =>
                  status[q] \notin {"FAILED", "INTERRUPTED", "PROCESSING"}
<1>1. IInv /\ ReplayInv /\ [Next]_vars => [A]_vars
  <2> SUFFICES ASSUME IInv, ReplayInv, Next, NEW p \in Packages, NEW q \in Packages,
                      Begins(p), q < p
               PROVE  status[q] \notin {"FAILED", "INTERRUPTED", "PROCESSING"}
    OBVIOUS
  <2>1. PICK r \in Runners, o \in Packages : Pick(r, o)
    <3>1. ASSUME NEW r \in Runners, NEW o \in Packages, Register(r, o) \/ PickMissing(r, o)
          PROVE  FALSE
      BY <3>1 DEF Begins, IInv, TypeOK, Register, PickMissing
    <3>2. ASSUME NEW r \in Runners, Recover(r) \/ Accept(r) \/ Fail(r)
          PROVE  FALSE
      BY <3>2 DEF Begins, IInv, TypeOK, Recover, Accept, Fail
    <3>3. ~UNCHANGED status
      BY DEF Begins
    <3> QED
      BY <3>1, <3>2, <3>3
      DEF Next, Cycle, Start, GuardClean, GuardRetry, GuardContinue, GuardBlocked, ScanDone,
          Acquire, Busy, List, PickNothing, Archive, Finish, Release, ReportResult,
          ReplayResult, Crash, Deliver, LoseFile
  <2>2. pc[r] = "pick" /\ First(r, p)
    BY <2>1 DEF Pick, Begins, IInv, TypeOK
  <2>3. ~repairing[r]
    BY <2>2 DEF ReplayInv, QueueInv, First, Begins, RepairCandidates, IInv, TypeOK
  <2>4. q \notin todo[r]
    BY <2>2 DEF First, Packages
  <2>5. status[q] \notin {"INTERRUPTED", "PROCESSING"}
    BY <2>2, <2>3, <2>4 DEF ReplayInv, QueueInv, NormalCandidates, IInv, SafeInv, ProcessingInv
  <2>6. status[q] # "FAILED"
    BY <2>2, <2>3 DEF ReplayInv, BarrierInv, QueueInv, Holding
  <2> QED BY <2>5, <2>6
<1> QED BY ReplayInvariant, Invariant, <1>1, PTL DEF Spec, OrderedReplay

\* run_full_replay, alone, reports COMPLETE only when every registered package is
\* SUCCESS: a failed, missing or interrupted one always shows in a call's result.
THEOREM CompleteMeansComplete ==
  ASSUME OneRunner
  PROVE  Spec => CompleteIsComplete
<1> DEFINE A == \A r \in Runners :
                  verdict[r] # "COMPLETE" /\ verdict'[r] = "COMPLETE" =>
                     \A p \in Registered : status[p] = "SUCCESS"
<1>1. IInv /\ ReplayInv /\ [Next]_vars => [A]_vars
  <2> SUFFICES ASSUME IInv, ReplayInv, Next, NEW r \in Runners,
                      verdict[r] # "COMPLETE", verdict'[r] = "COMPLETE"
               PROVE  \A p \in Registered : status[p] = "SUCCESS"
    OBVIOUS
  <2>1. PICK s \in Runners : ReplayResult(s)
    <3> USE DEF IInv, TypeOK, runnerVars
    <3>1. ASSUME NEW s \in Runners, NEW k \in Kinds, Start(s, k) PROVE FALSE
      BY <3>1 DEF Start
    <3>2. ASSUME NEW s \in Runners, NEW v, End(s, v), v # "COMPLETE" PROVE FALSE
      BY <3>2 DEF End
    <3>3. ASSUME NEW s \in Runners,
                 \/ GuardClean(s) \/ GuardRetry(s) \/ GuardBlocked(s) \/ ScanDone(s)
                 \/ Busy(s) \/ ReportResult(s) \/ Crash(s)
          PROVE  FALSE
      BY <3>2, <3>3 DEF GuardClean, GuardRetry, GuardBlocked, ScanDone, Busy, ReportResult,
            Crash
    <3>4. ~UNCHANGED verdict
      OBVIOUS
    <3> QED
      BY <3>1, <3>3, <3>4
      DEF Next, Cycle, GuardContinue, Register, PickMissing, Pick, Acquire, Recover, List,
          PickNothing, Archive, Accept, Finish, Fail, Return, Release, Deliver, LoseFile
  <2>2. pc[s] = "after" /\ ~ResultFailed(s) /\ ~repairing[s] /\ ~Attempted(s)
    BY <2>1 DEF ReplayResult, End, IInv, TypeOK
  <2>3. got[s] = {}
    BY <2>2 DEF ResultFailed, Attempted, IInv, TypeOK
  <2> QED BY <2>2, <2>3 DEF ReplayInv, QueueInv, Registered
<1> QED BY ReplayInvariant, Invariant, <1>1, PTL DEF Spec, CompleteIsComplete

=============================================================================
