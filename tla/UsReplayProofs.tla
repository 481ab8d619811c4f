--------------------------- MODULE UsReplayProofs ---------------------------
(***************************************************************************)
(* Proofs about UsReplay, for any number of packages, batches and runners  *)
(* and any faults, crashes and file changes: its types, that an accepted   *)
(* package is whole, that packages are accepted in order and that COMPLETE *)
(* is complete.  That an accepted package stays whole needs that nothing   *)
(* raises after the SUCCESS write (~LateErrors); the others do not.        *)
(***************************************************************************)
EXTENDS UsReplay, TLAPS, WellFoundedInduction

\* Where a runner is inside us_ingestion_guard, inside ingest_us_package, and in
\* the part of it that parses and publishes.
Holding == {"recover", "preflight", "plan", "discover", "choose", "hash", "begin", "check",
            "load", "archive", "accept", "finish", "fail", "mark"}
Chosen == {"discover", "hash", "begin", "check", "load", "archive", "accept", "fail", "mark"}
Attempting == {"begin", "check", "load", "archive", "accept"}

\* The session lock is held exactly inside the guard.
LockInv == \A r \in Runners : pc[r] \in Holding <=> lock = r

\* No later package is accepted while a package is at work.
OrderInv ==
    \A r \in Runners : pc[r] \in Attempting => Monotonic(cur[r])

\* An attempt counts its batches from none and stops at the last.
BatchInv ==
    \A r \in Runners :
        /\ pc[r] \notin {"load", "archive", "accept", "finish", "fail", "mark"} => batch[r] = 0
        /\ pc[r] = "load" => batch[r] < NumBatches

\* Candidates and the package at work are not accepted; it says PROCESSING from
\* the check on.
StatusInv(r) ==
    /\ pc[r] \in Chosen => status[cur[r]] # "SUCCESS"
    /\ pc[r] \in {"check", "load", "archive", "accept"} => status[cur[r]] = "PROCESSING"
    /\ pc[r] \in {"hash", "begin"} => status[cur[r]] # "UNREGISTERED"
    /\ pc[r] = "choose" => \A p \in todo[r] :
          status[p] \notin {"SUCCESS", "PROCESSING", "UNREGISTERED"}

\* What a runner parses from incoming is what it hashed, or the registered bytes
\* put back, or gone; an archived source stays archived.
FileInv(r) ==
    /\ pc[r] \in {"begin", "check", "load", "archive"} /\ from[r] = "incoming" =>
          incoming[cur[r]] \in {content[r], "registered", "none"}
    /\ pc[r] \in {"begin", "check", "load", "archive"} /\ from[r] = "archive" =>
          "registered" \in archive[cur[r]]
    /\ pc[r] = "accept" => "registered" \in archive[cur[r]]

\* An attempt starts from no rows; then they are the batches published so far.
RowsInv(r) ==
    /\ pc[r] = "discover" /\ ~retrying[r] =>
          status[cur[r]] = "PROCESSING" \/ facts[cur[r]] = {}
    /\ pc[r] \in {"hash", "begin", "check"} /\ ~retrying[r] => facts[cur[r]] = {}
    /\ pc[r] = "load" => /\ content[r] = "registered"
                         /\ facts[cur[r]] = {"registered"} \X (1..batch[r])
    /\ pc[r] \in {"archive", "accept"} =>
          content[r] = "registered" /\ facts[cur[r]] = {"registered"} \X Batches

RunnerInv(r) == StatusInv(r) /\ FileInv(r) /\ RowsInv(r)

\* Only registered bytes are archived, and a package that was never attempted has
\* no rows.
PackageInv ==
    \A p \in Packages :
        /\ archive[p] \subseteq {"registered"}
        /\ status[p] \in {"UNREGISTERED", "REGISTERED"} => facts[p] = {}

OrderIInv == TypeOK /\ BatchInv /\ LockInv /\ OrderInv
WorkInv == (\A r \in Runners : RunnerInv(r)) /\ PackageInv /\ SuccessIsWhole
IInv == OrderIInv /\ WorkInv

----------------------------------------------------------------------------
\* The order of the package ranks, as a set of pairs.
Less == {ss \in Nat \X Nat : ss[1] < ss[2]}

\* The order of the naturals is well founded, as a set of pairs.
LEMMA LessWellFounded == IsWellFoundedOn(Less, Nat)
  BY NatLessThanWellFounded DEF OpToRel, Less

\* A set of packages has a first one.
LEMMA FirstFacts == ASSUME NEW S \in SUBSET Packages, S # {} PROVE First(S) \in S
<1>1. S \subseteq Nat
  BY DEF Packages
<1>2. PICK x \in S : \A y \in S : ~(<<y, x>> \in Less)
  BY <1>1, WFMin, LessWellFounded
<1>3. \A y \in S : x <= y
  <2> SUFFICES ASSUME NEW y \in S, y < x PROVE FALSE
    BY <1>1
  <2>1. <<y, x>> \in Less
    BY <1>1 DEF Less
  <2> QED BY <1>2, <2>1
<1> QED BY <1>3 DEF First

\* A membership is a Boolean.
LEMMA Truth == ASSUME NEW x, NEW S PROVE \E b \in BOOLEAN : b = (x \in S)
<1>1. (x \in S) \in BOOLEAN
  OBVIOUS
<1> QED BY <1>1

\* TypeOK in five parts.
StoreTypes ==
    /\ status \in [Packages -> Statuses]
    /\ incoming \in [Packages -> Contents \cup {"none"}]
    /\ archive \in [Packages -> SUBSET Contents]
    /\ facts \in [Packages -> SUBSET (Contents \X Batches)]

ControlTypes ==
    /\ lock \in Runners \cup {NoRunner}
    /\ pc \in [Runners -> {"idle", "gate", "scan", "lock", "recover", "preflight", "plan", "discover",
                          "choose", "hash", "begin", "check", "load", "archive", "accept",
                          "finish", "fail", "mark"}]
    /\ kind \in [Runners -> {"none", "run", "retry", "replay"}]
    /\ verdict \in [Runners -> {"none", "COMPLETE"}]

ChoiceTypes ==
    /\ frozen \in [Runners -> [Packages -> {"incoming", "archive", "none"}]]
    /\ todo \in [Runners -> SUBSET Packages]
    /\ cur \in [Runners -> Packages] /\ from \in [Runners -> {"incoming", "archive"}]
    /\ retrying \in [Runners -> BOOLEAN]

WorkTypes == content \in [Runners -> Contents] /\ batch \in [Runners -> 0..NumBatches]

BoundTypes ==
    /\ faults \in 0..MaxFaults /\ crashes \in 0..MaxCrashes
    /\ oneShots \in 0..MaxOneShots /\ fileOps \in 0..MaxFileOps

\* TypeOK is its parts.
LEMMA TypeParts ==
    TypeOK <=> StoreTypes /\ ControlTypes /\ ChoiceTypes /\ WorkTypes /\ BoundTypes
  BY DEF TypeOK, StoreTypes, ControlTypes, ChoiceTypes, WorkTypes, BoundTypes

\* A runner that returns keeps the types.
LEMMA ReturnTypes ==
    ASSUME NEW r \in Runners, NEW v \in {"none", "COMPLETE"}, ReturnWith(r, v),
           ControlTypes, ChoiceTypes, WorkTypes
    PROVE  ControlTypes' /\ ChoiceTypes' /\ WorkTypes'
<1>1. ControlTypes'
  BY DEF ReturnWith, ControlTypes
<1>2. ChoiceTypes'
  BY ReplayConstants DEF ReturnWith, ChoiceTypes, Packages
<1>3. WorkTypes'
  BY ReplayConstants DEF ReturnWith, WorkTypes, Contents
<1> QED BY <1>1, <1>2, <1>3

\* Every step keeps the types.
LEMMA TypeStep == ASSUME TypeOK, BatchInv, Next PROVE TypeOK'
<1> USE ReplayConstants DEF fileVars, choiceVars, workVars, boundVars
<1>0. StoreTypes /\ ControlTypes /\ ChoiceTypes /\ WorkTypes /\ BoundTypes
  BY TypeParts
<1>1. ASSUME NEW r \in Runners, NEW k \in {"run", "retry", "replay"}, Begin(r, k) PROVE TypeOK'
  <2>1. StoreTypes'
    BY <1>0, <1>1 DEF Begin, StoreTypes
  <2>2. ControlTypes'
    BY <1>0, <1>1 DEF Begin, Goto, ControlTypes
  <2>3. ChoiceTypes'
    BY <1>0, <1>1 DEF Begin, ChoiceTypes
  <2>4. WorkTypes'
    BY <1>0, <1>1 DEF Begin, WorkTypes
  <2>5. BoundTypes'
    BY <1>0, <1>1 DEF Begin, BoundTypes
  <2> QED BY <2>1, <2>2, <2>3, <2>4, <2>5 DEF TypeOK, StoreTypes, ControlTypes, ChoiceTypes,
             WorkTypes, BoundTypes
<1>2. ASSUME NEW r \in Runners, Gate(r) PROVE TypeOK'
  <2>1. StoreTypes'
    BY <1>0, <1>2 DEF Gate, StoreTypes
  <2>2. ControlTypes'
    BY <1>0, <1>2, ReturnTypes DEF Gate, Goto, Return, ControlTypes
  <2>3. ChoiceTypes'
    BY <1>0, <1>2, ReturnTypes DEF Gate, Return, ChoiceTypes
  <2>4. WorkTypes'
    BY <1>0, <1>2, ReturnTypes DEF Gate, Return, WorkTypes
  <2>5. BoundTypes'
    BY <1>0, <1>2 DEF Gate, BoundTypes
  <2> QED BY <2>1, <2>2, <2>3, <2>4, <2>5 DEF TypeOK, StoreTypes, ControlTypes, ChoiceTypes,
             WorkTypes, BoundTypes
<1>3. ASSUME NEW r \in Runners, Scan(r) PROVE TypeOK'
  <2>a. \A p \in Packages : Register(p) \in Statuses
    BY <1>0 DEF Register, StoreTypes, Statuses, Retryable
  <2>1. StoreTypes'
    BY <1>0, <1>3, <2>a DEF Scan, StoreTypes
  <2>2. ControlTypes'
    BY <1>0, <1>3, ReturnTypes DEF Scan, Goto, Return, ControlTypes
  <2>3. ChoiceTypes'
    BY <1>0, <1>3, ReturnTypes DEF Scan, Return, ChoiceTypes
  <2>4. WorkTypes'
    BY <1>0, <1>3, ReturnTypes DEF Scan, Return, WorkTypes
  <2>5. BoundTypes'
    BY <1>0, <1>3 DEF Scan, BoundTypes
  <2> QED BY <2>1, <2>2, <2>3, <2>4, <2>5 DEF TypeOK, StoreTypes, ControlTypes, ChoiceTypes,
             WorkTypes, BoundTypes
<1>4. ASSUME NEW r \in Runners, Lock(r) PROVE TypeOK'
  <2>1. StoreTypes'
    BY <1>0, <1>4 DEF Lock, StoreTypes
  <2>2. ControlTypes'
    BY <1>0, <1>4, ReturnTypes DEF Lock, Goto, Return, ControlTypes
  <2>3. ChoiceTypes'
    BY <1>0, <1>4, ReturnTypes DEF Lock, Return, ChoiceTypes
  <2>4. WorkTypes'
    BY <1>0, <1>4, ReturnTypes DEF Lock, Return, WorkTypes
  <2>5. BoundTypes'
    BY <1>0, <1>4 DEF Lock, BoundTypes
  <2> QED BY <2>1, <2>2, <2>3, <2>4, <2>5 DEF TypeOK, StoreTypes, ControlTypes, ChoiceTypes,
             WorkTypes, BoundTypes
<1>5. ASSUME NEW r \in Runners, Recover(r) PROVE TypeOK'
  <2>a. status' \in [Packages -> Statuses]
    BY <1>0, <1>5 DEF Recover, StoreTypes, Statuses, Retryable
  <2>1. StoreTypes'
    BY <1>0, <1>5, <2>a DEF Recover, StoreTypes
  <2>2. ControlTypes'
    BY <1>0, <1>5 DEF Recover, Goto, ControlTypes
  <2>3. ChoiceTypes'
    BY <1>0, <1>5 DEF Recover, ChoiceTypes
  <2>4. WorkTypes'
    BY <1>0, <1>5 DEF Recover, WorkTypes
  <2>5. BoundTypes'
    BY <1>0, <1>5 DEF Recover, BoundTypes
  <2> QED BY <2>1, <2>2, <2>3, <2>4, <2>5 DEF TypeOK, StoreTypes, ControlTypes, ChoiceTypes,
             WorkTypes, BoundTypes
<1>6. ASSUME NEW r \in Runners, Preflight(r) PROVE TypeOK'
  <2>1. StoreTypes'
    BY <1>0, <1>6 DEF Preflight, StoreTypes
  <2>2. ControlTypes'
    BY <1>0, <1>6, ReturnTypes DEF Preflight, Goto, Return, ControlTypes
  <2>3. ChoiceTypes'
    <3>1. \A p \in Packages : Location(p) \in {"incoming", "archive", "none"}
      BY DEF Location
    <3>2. CASE SafeToReplay
      <4>1. PICK f \in [Packages -> {"incoming", "archive", "none"}] :
               f = [p \in Packages |-> Location(p)]
        BY <3>1
      <4>2. frozen' = [frozen EXCEPT ![r] = f] /\ UNCHANGED <<todo, cur, from, retrying>>
        BY <1>6, <3>2, <4>1 DEF Preflight
      <4> QED BY <1>0, <4>2 DEF ChoiceTypes
    <3>3. CASE ~SafeToReplay
      BY <1>0, <1>6, <3>3, ReturnTypes DEF Preflight, Return
    <3> QED BY <3>2, <3>3
  <2>4. WorkTypes'
    BY <1>0, <1>6, ReturnTypes DEF Preflight, Return, WorkTypes
  <2>5. BoundTypes'
    BY <1>0, <1>6 DEF Preflight, BoundTypes
  <2> QED BY <2>1, <2>2, <2>3, <2>4, <2>5 DEF TypeOK, StoreTypes, ControlTypes, ChoiceTypes,
             WorkTypes, BoundTypes
<1>7. ASSUME NEW r \in Runners, Plan(r) PROVE TypeOK'
  <2>1. StoreTypes'
    BY <1>0, <1>7 DEF Plan, StoreTypes
  <2>2. ControlTypes'
    BY <1>0, <1>7, ReturnTypes DEF Plan, Goto, Return, ControlTypes
  <2>3. ChoiceTypes'
    <3>1. CASE Return(r) \/ ReturnWith(r, "COMPLETE")
      BY <1>0, <3>1, ReturnTypes DEF Return
    <3>2. CASE Unfinished(r) # {} /\ ~Return(r) /\ ~ReturnWith(r, "COMPLETE")
      <4>1. PICK p \in Packages : p = First(Unfinished(r))
        BY <3>2, FirstFacts DEF Unfinished, Planned
      <4>2. PICK b \in BOOLEAN : b = (status[p] \in Retryable)
        BY Truth
      <4>3. /\ cur' = [cur EXCEPT ![r] = p]
            /\ from' = [from EXCEPT ![r] = "incoming"]
            /\ retrying' = [retrying EXCEPT ![r] = b]
            /\ UNCHANGED <<frozen, todo>>
        BY <1>7, <3>2, <4>1, <4>2 DEF Plan
      <4> QED BY <1>0, <4>3 DEF ChoiceTypes
    <3> QED BY <1>7, <3>1, <3>2 DEF Plan
  <2>4. WorkTypes'
    BY <1>0, <1>7, ReturnTypes DEF Plan, Return, WorkTypes
  <2>5. BoundTypes'
    BY <1>0, <1>7 DEF Plan, BoundTypes
  <2> QED BY <2>1, <2>2, <2>3, <2>4, <2>5 DEF TypeOK, StoreTypes, ControlTypes, ChoiceTypes,
             WorkTypes, BoundTypes
<1>8. ASSUME NEW r \in Runners, Pause(r) PROVE TypeOK'
  <2>1. StoreTypes'
    BY <1>0, <1>8 DEF Pause, StoreTypes
  <2>2. ControlTypes'
    BY <1>0, <1>8, ReturnTypes DEF Pause, Return
  <2>3. ChoiceTypes'
    BY <1>0, <1>8, ReturnTypes DEF Pause, Return
  <2>4. WorkTypes'
    BY <1>0, <1>8, ReturnTypes DEF Pause, Return
  <2>5. BoundTypes'
    BY <1>0, <1>8 DEF Pause, BoundTypes
  <2> QED BY <2>1, <2>2, <2>3, <2>4, <2>5 DEF TypeOK, StoreTypes, ControlTypes, ChoiceTypes,
             WorkTypes, BoundTypes
<1>9. ASSUME NEW r \in Runners, Discover(r) PROVE TypeOK'
  <2>1. StoreTypes'
    BY <1>0, <1>9 DEF Discover, StoreTypes, Statuses
  <2>2. ControlTypes'
    BY <1>0, <1>9, ReturnTypes DEF Discover, Goto, Return, ControlTypes
  <2>3. ChoiceTypes'
    BY <1>0, <1>9, ReturnTypes DEF Discover, Return, ChoiceTypes
  <2>4. WorkTypes'
    BY <1>0, <1>9, ReturnTypes DEF Discover, Return, WorkTypes
  <2>5. BoundTypes'
    BY <1>0, <1>9 DEF Discover, BoundTypes
  <2> QED BY <2>1, <2>2, <2>3, <2>4, <2>5 DEF TypeOK, StoreTypes, ControlTypes, ChoiceTypes,
             WorkTypes, BoundTypes
<1>10. ASSUME NEW r \in Runners, Choose(r) PROVE TypeOK'
  <2>a. First(todo[r]) \in Packages
    BY <1>0, <1>10, FirstFacts DEF Choose, ChoiceTypes
  <2>b. Resolved(First(todo[r])) # "none" => Resolved(First(todo[r])) \in {"incoming", "archive"}
    BY DEF Resolved
  <2>1. StoreTypes'
    BY <1>0, <1>10 DEF Choose, StoreTypes, Statuses, Retryable
  <2>2. ControlTypes'
    BY <1>0, <1>10 DEF Choose, Goto, ControlTypes
  <2>3. ChoiceTypes'
    <3>1. PICK p \in Packages : p = First(todo[r])
      BY <2>a
    <3>2. PICK b \in BOOLEAN : b = (status[p] \in Retryable)
      BY Truth
    <3>3. CASE Resolved(p) = "none"
      <4>1. todo' = [todo EXCEPT ![r] = @ \ {p}] /\ UNCHANGED <<frozen, cur, from, retrying>>
        BY <1>10, <3>1, <3>3 DEF Choose
      <4> QED BY <1>0, <4>1 DEF ChoiceTypes
    <3>4. CASE Resolved(p) # "none"
      <4>1. /\ cur' = [cur EXCEPT ![r] = p]
            /\ from' = [from EXCEPT ![r] = Resolved(p)]
            /\ retrying' = [retrying EXCEPT ![r] = b]
            /\ todo' = [todo EXCEPT ![r] = {}] /\ UNCHANGED frozen
        BY <1>10, <3>1, <3>2, <3>4 DEF Choose
      <4> QED BY <1>0, <2>b, <3>1, <3>4, <4>1 DEF ChoiceTypes
    <3> QED BY <3>3, <3>4
  <2>4. WorkTypes'
    BY <1>0, <1>10 DEF Choose, WorkTypes
  <2>5. BoundTypes'
    BY <1>0, <1>10 DEF Choose, BoundTypes
  <2> QED BY <2>1, <2>2, <2>3, <2>4, <2>5 DEF TypeOK, StoreTypes, ControlTypes, ChoiceTypes,
             WorkTypes, BoundTypes
<1>11. ASSUME NEW r \in Runners, NothingPending(r) PROVE TypeOK'
  <2>1. StoreTypes'
    BY <1>0, <1>11 DEF NothingPending, StoreTypes
  <2>2. ControlTypes'
    BY <1>0, <1>11, ReturnTypes DEF NothingPending, Return
  <2>3. ChoiceTypes'
    BY <1>0, <1>11, ReturnTypes DEF NothingPending, Return
  <2>4. WorkTypes'
    BY <1>0, <1>11, ReturnTypes DEF NothingPending, Return
  <2>5. BoundTypes'
    BY <1>0, <1>11 DEF NothingPending, BoundTypes
  <2> QED BY <2>1, <2>2, <2>3, <2>4, <2>5 DEF TypeOK, StoreTypes, ControlTypes, ChoiceTypes,
             WorkTypes, BoundTypes
<1>12. ASSUME NEW r \in Runners, Hash(r) PROVE TypeOK'
  <2>1. StoreTypes'
    BY <1>0, <1>12 DEF Hash, StoreTypes
  <2>2. ControlTypes'
    BY <1>0, <1>12, ReturnTypes DEF Hash, Goto, Return, ControlTypes
  <2>3. ChoiceTypes'
    BY <1>0, <1>12, ReturnTypes DEF Hash, Return, ChoiceTypes
  <2>a. {incoming[cur[r]]} \ {"none"} \subseteq Contents /\ archive[cur[r]] \subseteq Contents
    BY <1>0 DEF StoreTypes, ChoiceTypes
  <2>4. WorkTypes'
    BY <1>0, <1>12, <2>a, ReturnTypes DEF Hash, Return, WorkTypes
  <2>5. BoundTypes'
    BY <1>0, <1>12 DEF Hash, BoundTypes
  <2> QED BY <2>1, <2>2, <2>3, <2>4, <2>5 DEF TypeOK, StoreTypes, ControlTypes, ChoiceTypes,
             WorkTypes, BoundTypes
<1>13. ASSUME NEW r \in Runners, BeginPackage(r) PROVE TypeOK'
  <2>1. StoreTypes'
    BY <1>0, <1>13 DEF BeginPackage, StoreTypes, Statuses
  <2>2. ControlTypes'
    BY <1>0, <1>13 DEF BeginPackage, Goto, ControlTypes
  <2>3. ChoiceTypes'
    BY <1>0, <1>13 DEF BeginPackage, ChoiceTypes
  <2>4. WorkTypes'
    BY <1>0, <1>13 DEF BeginPackage, WorkTypes
  <2>5. BoundTypes'
    BY <1>0, <1>13 DEF BeginPackage, BoundTypes
  <2> QED BY <2>1, <2>2, <2>3, <2>4, <2>5 DEF TypeOK, StoreTypes, ControlTypes, ChoiceTypes,
             WorkTypes, BoundTypes
<1>14. ASSUME NEW r \in Runners, CheckPackage(r) PROVE TypeOK'
  <2>1. StoreTypes'
    BY <1>0, <1>14 DEF CheckPackage, StoreTypes
  <2>2. ControlTypes'
    BY <1>0, <1>14 DEF CheckPackage, Goto, ControlTypes
  <2>3. ChoiceTypes'
    BY <1>0, <1>14 DEF CheckPackage, ChoiceTypes
  <2>4. WorkTypes'
    BY <1>0, <1>14 DEF CheckPackage, WorkTypes
  <2>5. BoundTypes'
    BY <1>0, <1>14 DEF CheckPackage, BoundTypes
  <2> QED BY <2>1, <2>2, <2>3, <2>4, <2>5 DEF TypeOK, StoreTypes, ControlTypes, ChoiceTypes,
             WorkTypes, BoundTypes
<1>15. ASSUME NEW r \in Runners, PublishBatch(r) PROVE TypeOK'
  <2>a. cur[r] \in Packages /\ content[r] \in Contents /\ batch[r] + 1 \in 1..NumBatches
    BY <1>0, <1>15 DEF ChoiceTypes, WorkTypes, PublishBatch, BatchInv
  <2>1. StoreTypes'
    BY <1>0, <1>15, <2>a DEF PublishBatch, StoreTypes, Batches
  <2>2. ControlTypes'
    BY <1>0, <1>15 DEF PublishBatch, Goto, ControlTypes
  <2>3. ChoiceTypes'
    BY <1>0, <1>15 DEF PublishBatch, ChoiceTypes
  <2>4. WorkTypes'
    BY <1>0, <1>15, <2>a DEF PublishBatch, WorkTypes
  <2>5. BoundTypes'
    BY <1>0, <1>15 DEF PublishBatch, BoundTypes
  <2> QED BY <2>1, <2>2, <2>3, <2>4, <2>5 DEF TypeOK, StoreTypes, ControlTypes, ChoiceTypes,
             WorkTypes, BoundTypes
<1>16. ASSUME NEW r \in Runners, Archive(r) PROVE TypeOK'
  <2>a. cur[r] \in Packages /\ incoming[cur[r]] \in Contents \cup {"none"}
    BY <1>0 DEF ChoiceTypes, StoreTypes
  <2>1. StoreTypes'
    BY <1>0, <1>16 DEF Archive, StoreTypes
  <2>2. ControlTypes'
    BY <1>0, <1>16 DEF Archive, Goto, ControlTypes
  <2>3. ChoiceTypes'
    BY <1>0, <1>16 DEF Archive, ChoiceTypes
  <2>4. WorkTypes'
    BY <1>0, <1>16 DEF Archive, WorkTypes
  <2>5. BoundTypes'
    BY <1>0, <1>16 DEF Archive, BoundTypes
  <2> QED BY <2>1, <2>2, <2>3, <2>4, <2>5 DEF TypeOK, StoreTypes, ControlTypes, ChoiceTypes,
             WorkTypes, BoundTypes
<1>17. ASSUME NEW r \in Runners, Accept(r) PROVE TypeOK'
  <2>1. StoreTypes'
    BY <1>0, <1>17 DEF Accept, StoreTypes, Statuses
  <2>2. ControlTypes'
    BY <1>0, <1>17 DEF Accept, Goto, ControlTypes
  <2>3. ChoiceTypes'
    BY <1>0, <1>17 DEF Accept, ChoiceTypes
  <2>4. WorkTypes'
    BY <1>0, <1>17 DEF Accept, WorkTypes
  <2>5. BoundTypes'
    BY <1>0, <1>17 DEF Accept, BoundTypes
  <2> QED BY <2>1, <2>2, <2>3, <2>4, <2>5 DEF TypeOK, StoreTypes, ControlTypes, ChoiceTypes,
             WorkTypes, BoundTypes
<1>18. ASSUME NEW r \in Runners, Finish(r) PROVE TypeOK'
  <2>1. StoreTypes'
    BY <1>0, <1>18 DEF Finish, StoreTypes
  <2>2. ControlTypes'
    BY <1>0, <1>18, ReturnTypes DEF Finish, Goto, Return, ControlTypes
  <2>3. ChoiceTypes'
    BY <1>0, <1>18, ReturnTypes DEF Finish, Return, ChoiceTypes
  <2>4. WorkTypes'
    BY <1>0, <1>18, ReturnTypes DEF Finish, Return, WorkTypes
  <2>5. BoundTypes'
    BY <1>0, <1>18 DEF Finish, BoundTypes
  <2> QED BY <2>1, <2>2, <2>3, <2>4, <2>5 DEF TypeOK, StoreTypes, ControlTypes, ChoiceTypes,
             WorkTypes, BoundTypes
<1>19. ASSUME NEW r \in Runners, CleanUp(r) PROVE TypeOK'
  <2>1. StoreTypes'
    BY <1>0, <1>19 DEF CleanUp, StoreTypes
  <2>2. ControlTypes'
    BY <1>0, <1>19 DEF CleanUp, Goto, ControlTypes
  <2>3. ChoiceTypes'
    BY <1>0, <1>19 DEF CleanUp, ChoiceTypes
  <2>4. WorkTypes'
    BY <1>0, <1>19 DEF CleanUp, WorkTypes
  <2>5. BoundTypes'
    BY <1>0, <1>19 DEF CleanUp, BoundTypes
  <2> QED BY <2>1, <2>2, <2>3, <2>4, <2>5 DEF TypeOK, StoreTypes, ControlTypes, ChoiceTypes,
             WorkTypes, BoundTypes
<1>20. ASSUME NEW r \in Runners, MarkFailed(r) PROVE TypeOK'
  <2>a. status' \in [Packages -> Statuses]
    BY <1>0, <1>20 DEF MarkFailed, StoreTypes, Statuses, Retryable
  <2>1. StoreTypes'
    BY <1>0, <1>20, <2>a DEF MarkFailed, StoreTypes
  <2>2. ControlTypes'
    BY <1>0, <1>20, ReturnTypes DEF MarkFailed, Return
  <2>3. ChoiceTypes'
    BY <1>0, <1>20, ReturnTypes DEF MarkFailed, Return
  <2>4. WorkTypes'
    BY <1>0, <1>20, ReturnTypes DEF MarkFailed, Return
  <2>5. BoundTypes'
    BY <1>0, <1>20 DEF MarkFailed, BoundTypes
  <2> QED BY <2>1, <2>2, <2>3, <2>4, <2>5 DEF TypeOK, StoreTypes, ControlTypes, ChoiceTypes,
             WorkTypes, BoundTypes
<1>21. ASSUME NEW r \in Runners, Fault(r) PROVE TypeOK'
  <2>1. StoreTypes'
    BY <1>0, <1>21 DEF Fault, StoreTypes
  <2>2. ControlTypes'
    BY <1>0, <1>21, ReturnTypes DEF Fault, Goto, Return, ControlTypes
  <2>3. ChoiceTypes'
    BY <1>0, <1>21, ReturnTypes DEF Fault, Return, ChoiceTypes
  <2>4. WorkTypes'
    BY <1>0, <1>21, ReturnTypes DEF Fault, Return, WorkTypes
  <2>5. BoundTypes'
    BY <1>0, <1>21 DEF Fault, BoundTypes
  <2> QED BY <2>1, <2>2, <2>3, <2>4, <2>5 DEF TypeOK, StoreTypes, ControlTypes, ChoiceTypes,
             WorkTypes, BoundTypes
<1>22. ASSUME NEW r \in Runners, Crash(r) PROVE TypeOK'
  <2>1. StoreTypes'
    BY <1>0, <1>22 DEF Crash, StoreTypes
  <2>2. ControlTypes'
    BY <1>0, <1>22, ReturnTypes DEF Crash, Return
  <2>3. ChoiceTypes'
    BY <1>0, <1>22, ReturnTypes DEF Crash, Return
  <2>4. WorkTypes'
    BY <1>0, <1>22, ReturnTypes DEF Crash, Return
  <2>5. BoundTypes'
    BY <1>0, <1>22 DEF Crash, BoundTypes
  <2> QED BY <2>1, <2>2, <2>3, <2>4, <2>5 DEF TypeOK, StoreTypes, ControlTypes, ChoiceTypes,
             WorkTypes, BoundTypes
<1>23. ASSUME NEW p \in Packages, Arrive(p) PROVE TypeOK'
  <2>1. StoreTypes'
    BY <1>0, <1>23 DEF Arrive, RestUnchanged, StoreTypes, Contents
  <2>2. ControlTypes'
    BY <1>0, <1>23 DEF Arrive, RestUnchanged, ControlTypes
  <2>3. ChoiceTypes'
    BY <1>0, <1>23 DEF Arrive, RestUnchanged, ChoiceTypes
  <2>4. WorkTypes'
    BY <1>0, <1>23 DEF Arrive, RestUnchanged, WorkTypes
  <2>5. BoundTypes'
    BY <1>0, <1>23 DEF Arrive, RestUnchanged, BoundTypes
  <2> QED BY <2>1, <2>2, <2>3, <2>4, <2>5 DEF TypeOK, StoreTypes, ControlTypes, ChoiceTypes,
             WorkTypes, BoundTypes
<1>24. ASSUME NEW p \in Packages, NEW c \in {"none", "other"}, Disturb(p, c) PROVE TypeOK'
  <2>1. StoreTypes'
    BY <1>0, <1>24 DEF Disturb, RestUnchanged, StoreTypes, Contents
  <2>2. ControlTypes'
    BY <1>0, <1>24 DEF Disturb, RestUnchanged, ControlTypes
  <2>3. ChoiceTypes'
    BY <1>0, <1>24 DEF Disturb, RestUnchanged, ChoiceTypes
  <2>4. WorkTypes'
    BY <1>0, <1>24 DEF Disturb, RestUnchanged, WorkTypes
  <2>5. BoundTypes'
    BY <1>0, <1>24 DEF Disturb, RestUnchanged, BoundTypes
  <2> QED BY <2>1, <2>2, <2>3, <2>4, <2>5 DEF TypeOK, StoreTypes, ControlTypes, ChoiceTypes,
             WorkTypes, BoundTypes
<1>25. ASSUME NEW p \in Packages, Restore(p) PROVE TypeOK'
  <2>1. StoreTypes'
    BY <1>0, <1>25 DEF Restore, RestUnchanged, StoreTypes, Contents
  <2>2. ControlTypes'
    BY <1>0, <1>25 DEF Restore, RestUnchanged, ControlTypes
  <2>3. ChoiceTypes'
    BY <1>0, <1>25 DEF Restore, RestUnchanged, ChoiceTypes
  <2>4. WorkTypes'
    BY <1>0, <1>25 DEF Restore, RestUnchanged, WorkTypes
  <2>5. BoundTypes'
    BY <1>0, <1>25 DEF Restore, RestUnchanged, BoundTypes
  <2> QED BY <2>1, <2>2, <2>3, <2>4, <2>5 DEF TypeOK, StoreTypes, ControlTypes, ChoiceTypes,
             WorkTypes, BoundTypes
<1>26. ASSUME NEW p \in Packages, Stage(p) PROVE TypeOK'
  <2>1. StoreTypes'
    BY <1>0, <1>26 DEF Stage, RestUnchanged, StoreTypes
  <2>2. ControlTypes'
    BY <1>0, <1>26 DEF Stage, RestUnchanged, ControlTypes
  <2>3. ChoiceTypes'
    BY <1>0, <1>26 DEF Stage, RestUnchanged, ChoiceTypes
  <2>4. WorkTypes'
    BY <1>0, <1>26 DEF Stage, RestUnchanged, WorkTypes
  <2>5. BoundTypes'
    BY <1>0, <1>26 DEF Stage, RestUnchanged, BoundTypes
  <2> QED BY <2>1, <2>2, <2>3, <2>4, <2>5 DEF TypeOK, StoreTypes, ControlTypes, ChoiceTypes,
             WorkTypes, BoundTypes
<1> QED BY <1>1, <1>2, <1>3, <1>4, <1>5, <1>6, <1>7, <1>8, <1>9, <1>10, <1>11, <1>12, <1>13,
           <1>14, <1>15, <1>16, <1>17, <1>18, <1>19, <1>20, <1>21, <1>22, <1>23, <1>24, <1>25,
           <1>26 DEF Next, Step, IngestStep, Files

----------------------------------------------------------------------------
\* A step of one runner.
RunnerStep(r) ==
    \/ Step(r) \/ Lock(r) \/ Pause(r) \/ Fault(r) \/ Crash(r)
    \/ \E k \in {"run", "retry", "replay"} : Begin(r, k)

\* Runner s does not move.
Stays(s) == /\ pc'[s] = pc[s] /\ cur'[s] = cur[s] /\ from'[s] = from[s]
            /\ retrying'[s] = retrying[s] /\ content'[s] = content[s]
            /\ batch'[s] = batch[s] /\ todo'[s] = todo[s]

\* A runner that returns leaves the others alone.
LEMMA ReturnStays ==
    ASSUME TypeOK, NEW r \in Runners, NEW v, ReturnWith(r, v), NEW s \in Runners, s # r
    PROVE  Stays(s)
  BY DEF ReturnWith, Stays

\* A step of one runner leaves the others alone.
LEMMA OthersStay ==
    ASSUME TypeOK, NEW r \in Runners, RunnerStep(r), NEW s \in Runners, s # r
    PROVE  Stays(s)
<1> USE DEF choiceVars, workVars
<1>1. CASE \E k \in {"run", "retry", "replay"} : Begin(r, k)
  BY <1>1 DEF Begin, Goto, Stays
<1>2. CASE Gate(r)
  BY <1>2, ReturnStays DEF Gate, Goto, Return, TypeOK, Stays
<1>3. CASE Scan(r)
  BY <1>3, ReturnStays DEF Scan, Goto, Return, TypeOK, Stays
<1>4. CASE Lock(r)
  BY <1>4, ReturnStays DEF Lock, Goto, Return, TypeOK, Stays
<1>5. CASE Recover(r)
  BY <1>5 DEF Recover, Goto, Stays
<1>6. CASE Preflight(r)
  BY <1>6, ReturnStays DEF Preflight, Goto, Return, TypeOK, Stays
<1>7. CASE Plan(r)
  BY <1>7, ReturnStays DEF Plan, Goto, Return, TypeOK, Stays
<1>8. CASE Pause(r)
  BY <1>8, ReturnStays DEF Pause, Return
<1>9. CASE Discover(r)
  BY <1>9, ReturnStays DEF Discover, Goto, Return, TypeOK, Stays
<1>10. CASE Choose(r)
  BY <1>10 DEF Choose, Goto, TypeOK, Stays
<1>11. CASE NothingPending(r)
  BY <1>11, ReturnStays DEF NothingPending, Return
<1>12. CASE Hash(r)
  <2>1. CASE Return(r)
    BY <2>1, ReturnStays DEF Return
  <2>2. CASE ~Return(r)
    <3>1. PICK c : content' = [content EXCEPT ![r] = c]
      BY <1>12, <2>2 DEF Hash
    <3>2. Goto(r, "begin") /\ UNCHANGED <<choiceVars, batch>>
      BY <1>12, <2>2 DEF Hash
    <3> QED BY <3>1, <3>2 DEF Goto, Stays
  <2> QED BY <2>1, <2>2
<1>13. CASE BeginPackage(r)
  BY <1>13 DEF BeginPackage, Goto, Stays
<1>14. CASE CheckPackage(r)
  BY <1>14 DEF CheckPackage, Goto, TypeOK, Stays
<1>15. CASE PublishBatch(r)
  BY <1>15 DEF PublishBatch, Goto, Stays
<1>16. CASE Archive(r)
  BY <1>16 DEF Archive, Goto, TypeOK, Stays
<1>17. CASE Accept(r)
  BY <1>17 DEF Accept, Goto, Stays
<1>18. CASE Finish(r)
  BY <1>18, ReturnStays DEF Finish, Goto, Return, TypeOK, Stays
<1>19. CASE CleanUp(r)
  BY <1>19 DEF CleanUp, Goto, Stays
<1>20. CASE MarkFailed(r)
  BY <1>20, ReturnStays DEF MarkFailed, Return
<1>21. CASE Fault(r)
  BY <1>21, ReturnStays DEF Fault, Goto, Return, TypeOK, Stays
<1>22. CASE Crash(r)
  BY <1>22, ReturnStays DEF Crash, Return
<1> QED BY <1>1, <1>2, <1>3, <1>4, <1>5, <1>6, <1>7, <1>8, <1>9, <1>10, <1>11, <1>12, <1>13,
           <1>14, <1>15, <1>16, <1>17, <1>18, <1>19, <1>20, <1>21, <1>22 DEF RunnerStep, Step,
           IngestStep

\* A runner that returns releases the lock, counts no batches and is outside the
\* guard.
LEMMA ReturnFrees ==
    ASSUME TypeOK, NEW r \in Runners, NEW v, ReturnWith(r, v)
    PROVE  /\ pc'[r] = "idle" /\ batch'[r] = 0
           /\ lock' = IF lock = r THEN NoRunner ELSE lock
  BY DEF TypeOK, ReturnWith

\* The lock is held exactly inside the guard.
LEMMA LockStep ==
    ASSUME TypeOK, LockInv, Next
    PROVE  LockInv'
<1> USE ReplayConstants DEF choiceVars, workVars
<1>1. ASSUME NEW r \in Runners, NEW k \in {"run", "retry", "replay"}, Begin(r, k) PROVE LockInv'
  <2>1. \A s \in Runners : s # r => Stays(s)
    BY <1>1, OthersStay DEF RunnerStep
  <2>2. (pc'[r] \in Holding <=> lock' = r) /\ (\A s \in Runners : s # r => (lock' = s <=> lock = s))
    BY <1>1 DEF Begin, Goto, LockInv, Holding
  <2> QED BY <2>1, <2>2 DEF Stays, LockInv
<1>2. ASSUME NEW r \in Runners, Gate(r) PROVE LockInv'
  <2>1. \A s \in Runners : s # r => Stays(s)
    BY <1>2, OthersStay DEF RunnerStep, Step
  <2>2. (pc'[r] \in Holding <=> lock' = r) /\ (\A s \in Runners : s # r => (lock' = s <=> lock = s))
    BY <1>2, ReturnFrees DEF Gate, Goto, Return, LockInv, Holding, TypeOK
  <2> QED BY <2>1, <2>2 DEF Stays, LockInv
<1>3. ASSUME NEW r \in Runners, Scan(r) PROVE LockInv'
  <2>1. \A s \in Runners : s # r => Stays(s)
    BY <1>3, OthersStay DEF RunnerStep, Step
  <2>2. (pc'[r] \in Holding <=> lock' = r) /\ (\A s \in Runners : s # r => (lock' = s <=> lock = s))
    BY <1>3, ReturnFrees DEF Scan, Goto, Return, LockInv, Holding, TypeOK
  <2> QED BY <2>1, <2>2 DEF Stays, LockInv
<1>4. ASSUME NEW r \in Runners, Lock(r) PROVE LockInv'
  <2>1. \A s \in Runners : s # r => Stays(s)
    BY <1>4, OthersStay DEF RunnerStep
  <2>2. (pc'[r] \in Holding <=> lock' = r) /\ (\A s \in Runners : s # r => (lock' = s <=> lock = s))
    BY <1>4, ReturnFrees DEF Lock, Goto, Return, LockInv, Holding, TypeOK
  <2> QED BY <2>1, <2>2 DEF Stays, LockInv
<1>5. ASSUME NEW r \in Runners, Recover(r) PROVE LockInv'
  <2>1. \A s \in Runners : s # r => Stays(s)
    BY <1>5, OthersStay DEF RunnerStep, Step
  <2>2. (pc'[r] \in Holding <=> lock' = r) /\ (\A s \in Runners : s # r => (lock' = s <=> lock = s))
    BY <1>5 DEF Recover, Goto, LockInv, Holding
  <2> QED BY <2>1, <2>2 DEF Stays, LockInv
<1>6. ASSUME NEW r \in Runners, Preflight(r) PROVE LockInv'
  <2>1. \A s \in Runners : s # r => Stays(s)
    BY <1>6, OthersStay DEF RunnerStep, Step
  <2>2. (pc'[r] \in Holding <=> lock' = r) /\ (\A s \in Runners : s # r => (lock' = s <=> lock = s))
    BY <1>6, ReturnFrees DEF Preflight, Goto, Return, LockInv, Holding, TypeOK
  <2> QED BY <2>1, <2>2 DEF Stays, LockInv
<1>7. ASSUME NEW r \in Runners, Plan(r) PROVE LockInv'
  <2>1. \A s \in Runners : s # r => Stays(s)
    BY <1>7, OthersStay DEF RunnerStep, Step
  <2>2. (pc'[r] \in Holding <=> lock' = r) /\ (\A s \in Runners : s # r => (lock' = s <=> lock = s))
    BY <1>7, ReturnFrees DEF Plan, Goto, Return, LockInv, Holding, TypeOK
  <2> QED BY <2>1, <2>2 DEF Stays, LockInv
<1>8. ASSUME NEW r \in Runners, Pause(r) PROVE LockInv'
  <2>1. \A s \in Runners : s # r => Stays(s)
    BY <1>8, OthersStay DEF RunnerStep
  <2>2. (pc'[r] \in Holding <=> lock' = r) /\ (\A s \in Runners : s # r => (lock' = s <=> lock = s))
    BY <1>8, ReturnFrees DEF Pause, Return, Holding
  <2> QED BY <2>1, <2>2 DEF Stays, LockInv
<1>9. ASSUME NEW r \in Runners, Discover(r) PROVE LockInv'
  <2>1. \A s \in Runners : s # r => Stays(s)
    BY <1>9, OthersStay DEF RunnerStep, Step
  <2>2. (pc'[r] \in Holding <=> lock' = r) /\ (\A s \in Runners : s # r => (lock' = s <=> lock = s))
    BY <1>9, ReturnFrees DEF Discover, Goto, Return, LockInv, Holding, TypeOK
  <2> QED BY <2>1, <2>2 DEF Stays, LockInv
<1>10. ASSUME NEW r \in Runners, Choose(r) PROVE LockInv'
  <2>1. \A s \in Runners : s # r => Stays(s)
    BY <1>10, OthersStay DEF RunnerStep, Step
  <2>2. (pc'[r] \in Holding <=> lock' = r) /\ (\A s \in Runners : s # r => (lock' = s <=> lock = s))
    BY <1>10 DEF Choose, Goto, LockInv, Holding, TypeOK
  <2> QED BY <2>1, <2>2 DEF Stays, LockInv
<1>11. ASSUME NEW r \in Runners, NothingPending(r) PROVE LockInv'
  <2>1. \A s \in Runners : s # r => Stays(s)
    BY <1>11, OthersStay DEF RunnerStep, Step
  <2>2. (pc'[r] \in Holding <=> lock' = r) /\ (\A s \in Runners : s # r => (lock' = s <=> lock = s))
    BY <1>11, ReturnFrees DEF NothingPending, Return, Holding
  <2> QED BY <2>1, <2>2 DEF Stays, LockInv
<1>12. ASSUME NEW r \in Runners, Hash(r) PROVE LockInv'
  <2>0. pc[r] = "hash" /\ (Return(r) \/ (Goto(r, "begin") /\ UNCHANGED <<batch, lock>>))
    BY <1>12 DEF Hash
  <2>1. \A s \in Runners : s # r => Stays(s)
    BY <1>12, OthersStay DEF RunnerStep, Step, IngestStep
  <2>2. (pc'[r] \in Holding <=> lock' = r) /\ (\A s \in Runners : s # r => (lock' = s <=> lock = s))
    BY <2>0, ReturnFrees DEF Goto, Return, LockInv, Holding, TypeOK
  <2> QED BY <2>1, <2>2 DEF Stays, LockInv
<1>13. ASSUME NEW r \in Runners, BeginPackage(r) PROVE LockInv'
  <2>1. \A s \in Runners : s # r => Stays(s)
    BY <1>13, OthersStay DEF RunnerStep, Step, IngestStep
  <2>2. (pc'[r] \in Holding <=> lock' = r) /\ (\A s \in Runners : s # r => (lock' = s <=> lock = s))
    BY <1>13 DEF BeginPackage, Goto, LockInv, Holding
  <2> QED BY <2>1, <2>2 DEF Stays, LockInv
<1>14. ASSUME NEW r \in Runners, CheckPackage(r) PROVE LockInv'
  <2>0. pc[r] = "check" /\ (Goto(r, "load") \/ Goto(r, "fail")) /\ UNCHANGED <<batch, lock>>
    BY <1>14 DEF CheckPackage
  <2>1. \A s \in Runners : s # r => Stays(s)
    BY <1>14, OthersStay DEF RunnerStep, Step, IngestStep
  <2>2. (pc'[r] \in Holding <=> lock' = r) /\ (\A s \in Runners : s # r => (lock' = s <=> lock = s))
    BY <2>0 DEF Goto, LockInv, Holding, TypeOK
  <2> QED BY <2>1, <2>2 DEF Stays, LockInv
<1>15. ASSUME NEW r \in Runners, PublishBatch(r) PROVE LockInv'
  <2>1. \A s \in Runners : s # r => Stays(s)
    BY <1>15, OthersStay DEF RunnerStep, Step, IngestStep
  <2>2. (pc'[r] \in Holding <=> lock' = r) /\ (\A s \in Runners : s # r => (lock' = s <=> lock = s))
    BY <1>15 DEF PublishBatch, Goto, LockInv, Holding
  <2> QED BY <2>1, <2>2 DEF Stays, LockInv
<1>16. ASSUME NEW r \in Runners, Archive(r) PROVE LockInv'
  <2>1. \A s \in Runners : s # r => Stays(s)
    BY <1>16, OthersStay DEF RunnerStep, Step, IngestStep
  <2>2. (pc'[r] \in Holding <=> lock' = r) /\ (\A s \in Runners : s # r => (lock' = s <=> lock = s))
    BY <1>16 DEF Archive, Goto, LockInv, Holding, TypeOK
  <2> QED BY <2>1, <2>2 DEF Stays, LockInv
<1>17. ASSUME NEW r \in Runners, Accept(r) PROVE LockInv'
  <2>1. \A s \in Runners : s # r => Stays(s)
    BY <1>17, OthersStay DEF RunnerStep, Step, IngestStep
  <2>2. (pc'[r] \in Holding <=> lock' = r) /\ (\A s \in Runners : s # r => (lock' = s <=> lock = s))
    BY <1>17 DEF Accept, Goto, LockInv, Holding
  <2> QED BY <2>1, <2>2 DEF Stays, LockInv
<1>18. ASSUME NEW r \in Runners, Finish(r) PROVE LockInv'
  <2>1. \A s \in Runners : s # r => Stays(s)
    BY <1>18, OthersStay DEF RunnerStep, Step, IngestStep
  <2>2. (pc'[r] \in Holding <=> lock' = r) /\ (\A s \in Runners : s # r => (lock' = s <=> lock = s))
    BY <1>18, ReturnFrees DEF Finish, Goto, Return, LockInv, Holding, TypeOK
  <2> QED BY <2>1, <2>2 DEF Stays, LockInv
<1>19. ASSUME NEW r \in Runners, CleanUp(r) PROVE LockInv'
  <2>1. \A s \in Runners : s # r => Stays(s)
    BY <1>19, OthersStay DEF RunnerStep, Step, IngestStep
  <2>2. (pc'[r] \in Holding <=> lock' = r) /\ (\A s \in Runners : s # r => (lock' = s <=> lock = s))
    BY <1>19 DEF CleanUp, Goto, LockInv, Holding
  <2> QED BY <2>1, <2>2 DEF Stays, LockInv
<1>20. ASSUME NEW r \in Runners, MarkFailed(r) PROVE LockInv'
  <2>1. \A s \in Runners : s # r => Stays(s)
    BY <1>20, OthersStay DEF RunnerStep, Step, IngestStep
  <2>2. (pc'[r] \in Holding <=> lock' = r) /\ (\A s \in Runners : s # r => (lock' = s <=> lock = s))
    BY <1>20, ReturnFrees DEF MarkFailed, Return, Holding
  <2> QED BY <2>1, <2>2 DEF Stays, LockInv
<1>21. ASSUME NEW r \in Runners, Fault(r) PROVE LockInv'
  <2>1. \A s \in Runners : s # r => Stays(s)
    BY <1>21, OthersStay DEF RunnerStep
  <2>2. (pc'[r] \in Holding <=> lock' = r) /\ (\A s \in Runners : s # r => (lock' = s <=> lock = s))
    BY <1>21, ReturnFrees DEF Fault, Goto, Return, Raises, LockInv, Holding, TypeOK
  <2> QED BY <2>1, <2>2 DEF Stays, LockInv
<1>22. ASSUME NEW r \in Runners, Crash(r) PROVE LockInv'
  <2>1. \A s \in Runners : s # r => Stays(s)
    BY <1>22, OthersStay DEF RunnerStep
  <2>2. (pc'[r] \in Holding <=> lock' = r) /\ (\A s \in Runners : s # r => (lock' = s <=> lock = s))
    BY <1>22, ReturnFrees DEF Crash, Return, Holding
  <2> QED BY <2>1, <2>2 DEF Stays, LockInv
<1>23. ASSUME NEW p \in Packages, Arrive(p) PROVE LockInv'
  BY <1>23 DEF Arrive, RestUnchanged, LockInv
<1>24. ASSUME NEW p \in Packages, NEW c \in {"none", "other"}, Disturb(p, c) PROVE LockInv'
  BY <1>24 DEF Disturb, RestUnchanged, LockInv
<1>25. ASSUME NEW p \in Packages, Restore(p) PROVE LockInv'
  BY <1>25 DEF Restore, RestUnchanged, LockInv
<1>26. ASSUME NEW p \in Packages, Stage(p) PROVE LockInv'
  BY <1>26 DEF Stage, RestUnchanged, LockInv
<1> QED BY <1>1, <1>2, <1>3, <1>4, <1>5, <1>6, <1>7, <1>8, <1>9, <1>10, <1>11, <1>12, <1>13,
           <1>14, <1>15, <1>16, <1>17, <1>18, <1>19, <1>20, <1>21, <1>22, <1>23, <1>24, <1>25,
           <1>26 DEF Next, Step, IngestStep, Files

\* The batches of an attempt are counted from none.
LEMMA BatchStep ==
    ASSUME TypeOK, BatchInv, Next
    PROVE  BatchInv'
<1> USE ReplayConstants DEF choiceVars, workVars
<1>1. ASSUME NEW r \in Runners, NEW k \in {"run", "retry", "replay"}, Begin(r, k) PROVE BatchInv'
  <2>1. \A s \in Runners : s # r => Stays(s)
    BY <1>1, OthersStay DEF RunnerStep
  <2>2. /\ pc'[r] \notin {"load", "archive", "accept", "finish", "fail", "mark"} => batch'[r] = 0
        /\ pc'[r] = "load" => batch'[r] < NumBatches
    BY <1>1 DEF Begin, BatchInv
  <2> QED BY <2>1, <2>2 DEF Stays, BatchInv
<1>2. ASSUME NEW r \in Runners, Gate(r) PROVE BatchInv'
  <2>1. \A s \in Runners : s # r => Stays(s)
    BY <1>2, OthersStay DEF RunnerStep, Step
  <2>2. /\ pc'[r] \notin {"load", "archive", "accept", "finish", "fail", "mark"} => batch'[r] = 0
        /\ pc'[r] = "load" => batch'[r] < NumBatches
    BY <1>2, ReturnFrees DEF Gate, Return, BatchInv
  <2> QED BY <2>1, <2>2 DEF Stays, BatchInv
<1>3. ASSUME NEW r \in Runners, Scan(r) PROVE BatchInv'
  <2>1. \A s \in Runners : s # r => Stays(s)
    BY <1>3, OthersStay DEF RunnerStep, Step
  <2>2. /\ pc'[r] \notin {"load", "archive", "accept", "finish", "fail", "mark"} => batch'[r] = 0
        /\ pc'[r] = "load" => batch'[r] < NumBatches
    BY <1>3, ReturnFrees DEF Scan, Return, BatchInv
  <2> QED BY <2>1, <2>2 DEF Stays, BatchInv
<1>4. ASSUME NEW r \in Runners, Lock(r) PROVE BatchInv'
  <2>1. \A s \in Runners : s # r => Stays(s)
    BY <1>4, OthersStay DEF RunnerStep
  <2>2. /\ pc'[r] \notin {"load", "archive", "accept", "finish", "fail", "mark"} => batch'[r] = 0
        /\ pc'[r] = "load" => batch'[r] < NumBatches
    BY <1>4, ReturnFrees DEF Lock, Goto, Return, BatchInv, TypeOK
  <2> QED BY <2>1, <2>2 DEF Stays, BatchInv
<1>5. ASSUME NEW r \in Runners, Recover(r) PROVE BatchInv'
  <2>1. \A s \in Runners : s # r => Stays(s)
    BY <1>5, OthersStay DEF RunnerStep, Step
  <2>2. /\ pc'[r] \notin {"load", "archive", "accept", "finish", "fail", "mark"} => batch'[r] = 0
        /\ pc'[r] = "load" => batch'[r] < NumBatches
    BY <1>5 DEF Recover, BatchInv
  <2> QED BY <2>1, <2>2 DEF Stays, BatchInv
<1>6. ASSUME NEW r \in Runners, Preflight(r) PROVE BatchInv'
  <2>1. \A s \in Runners : s # r => Stays(s)
    BY <1>6, OthersStay DEF RunnerStep, Step
  <2>2. /\ pc'[r] \notin {"load", "archive", "accept", "finish", "fail", "mark"} => batch'[r] = 0
        /\ pc'[r] = "load" => batch'[r] < NumBatches
    BY <1>6, ReturnFrees DEF Preflight, Return, BatchInv
  <2> QED BY <2>1, <2>2 DEF Stays, BatchInv
<1>7. ASSUME NEW r \in Runners, Plan(r) PROVE BatchInv'
  <2>1. \A s \in Runners : s # r => Stays(s)
    BY <1>7, OthersStay DEF RunnerStep, Step
  <2>2. /\ pc'[r] \notin {"load", "archive", "accept", "finish", "fail", "mark"} => batch'[r] = 0
        /\ pc'[r] = "load" => batch'[r] < NumBatches
    BY <1>7, ReturnFrees DEF Plan, Return, BatchInv
  <2> QED BY <2>1, <2>2 DEF Stays, BatchInv
<1>8. ASSUME NEW r \in Runners, Pause(r) PROVE BatchInv'
  <2>1. \A s \in Runners : s # r => Stays(s)
    BY <1>8, OthersStay DEF RunnerStep
  <2>2. /\ pc'[r] \notin {"load", "archive", "accept", "finish", "fail", "mark"} => batch'[r] = 0
        /\ pc'[r] = "load" => batch'[r] < NumBatches
    BY <1>8, ReturnFrees DEF Pause, Return
  <2> QED BY <2>1, <2>2 DEF Stays, BatchInv
<1>9. ASSUME NEW r \in Runners, Discover(r) PROVE BatchInv'
  <2>1. \A s \in Runners : s # r => Stays(s)
    BY <1>9, OthersStay DEF RunnerStep, Step
  <2>2. /\ pc'[r] \notin {"load", "archive", "accept", "finish", "fail", "mark"} => batch'[r] = 0
        /\ pc'[r] = "load" => batch'[r] < NumBatches
    BY <1>9, ReturnFrees DEF Discover, Goto, Return, BatchInv, TypeOK
  <2> QED BY <2>1, <2>2 DEF Stays, BatchInv
<1>10. ASSUME NEW r \in Runners, Choose(r) PROVE BatchInv'
  <2>1. \A s \in Runners : s # r => Stays(s)
    BY <1>10, OthersStay DEF RunnerStep, Step
  <2>2. /\ pc'[r] \notin {"load", "archive", "accept", "finish", "fail", "mark"} => batch'[r] = 0
        /\ pc'[r] = "load" => batch'[r] < NumBatches
    BY <1>10 DEF Choose, BatchInv
  <2> QED BY <2>1, <2>2 DEF Stays, BatchInv
<1>11. ASSUME NEW r \in Runners, NothingPending(r) PROVE BatchInv'
  <2>1. \A s \in Runners : s # r => Stays(s)
    BY <1>11, OthersStay DEF RunnerStep, Step
  <2>2. /\ pc'[r] \notin {"load", "archive", "accept", "finish", "fail", "mark"} => batch'[r] = 0
        /\ pc'[r] = "load" => batch'[r] < NumBatches
    BY <1>11, ReturnFrees DEF NothingPending, Return
  <2> QED BY <2>1, <2>2 DEF Stays, BatchInv
<1>12. ASSUME NEW r \in Runners, Hash(r) PROVE BatchInv'
  <2>0. pc[r] = "hash" /\ (Return(r) \/ (Goto(r, "begin") /\ UNCHANGED <<batch, lock>>))
    BY <1>12 DEF Hash
  <2>1. \A s \in Runners : s # r => Stays(s)
    BY <1>12, OthersStay DEF RunnerStep, Step, IngestStep
  <2>2. /\ pc'[r] \notin {"load", "archive", "accept", "finish", "fail", "mark"} => batch'[r] = 0
        /\ pc'[r] = "load" => batch'[r] < NumBatches
    BY <2>0, ReturnFrees DEF Return, BatchInv
  <2> QED BY <2>1, <2>2 DEF Stays, BatchInv
<1>13. ASSUME NEW r \in Runners, BeginPackage(r) PROVE BatchInv'
  <2>1. \A s \in Runners : s # r => Stays(s)
    BY <1>13, OthersStay DEF RunnerStep, Step, IngestStep
  <2>2. /\ pc'[r] \notin {"load", "archive", "accept", "finish", "fail", "mark"} => batch'[r] = 0
        /\ pc'[r] = "load" => batch'[r] < NumBatches
    BY <1>13 DEF BeginPackage, BatchInv
  <2> QED BY <2>1, <2>2 DEF Stays, BatchInv
<1>14. ASSUME NEW r \in Runners, CheckPackage(r) PROVE BatchInv'
  <2>0. pc[r] = "check" /\ (Goto(r, "load") \/ Goto(r, "fail")) /\ UNCHANGED <<batch, lock>>
    BY <1>14 DEF CheckPackage
  <2>1. \A s \in Runners : s # r => Stays(s)
    BY <1>14, OthersStay DEF RunnerStep, Step, IngestStep
  <2>2. pc'[r] \in {"load", "fail"} /\ batch'[r] = batch[r]
    BY <2>0 DEF Goto, TypeOK
  <2>3. batch[r] = 0
    BY <2>0 DEF BatchInv
  <2> QED BY <2>1, <2>2, <2>3 DEF Stays, BatchInv
<1>15. ASSUME NEW r \in Runners, PublishBatch(r) PROVE BatchInv'
  <2>1. \A s \in Runners : s # r => Stays(s)
    BY <1>15, OthersStay DEF RunnerStep, Step, IngestStep
  <2>2. /\ pc'[r] \notin {"load", "archive", "accept", "finish", "fail", "mark"} => batch'[r] = 0
        /\ pc'[r] = "load" => batch'[r] < NumBatches
    BY <1>15 DEF PublishBatch, Goto, BatchInv, TypeOK
  <2> QED BY <2>1, <2>2 DEF Stays, BatchInv
<1>16. ASSUME NEW r \in Runners, Archive(r) PROVE BatchInv'
  <2>1. \A s \in Runners : s # r => Stays(s)
    BY <1>16, OthersStay DEF RunnerStep, Step, IngestStep
  <2>2. /\ pc'[r] \notin {"load", "archive", "accept", "finish", "fail", "mark"} => batch'[r] = 0
        /\ pc'[r] = "load" => batch'[r] < NumBatches
    BY <1>16 DEF Archive, Goto, TypeOK
  <2> QED BY <2>1, <2>2 DEF Stays, BatchInv
<1>17. ASSUME NEW r \in Runners, Accept(r) PROVE BatchInv'
  <2>1. \A s \in Runners : s # r => Stays(s)
    BY <1>17, OthersStay DEF RunnerStep, Step, IngestStep
  <2>2. /\ pc'[r] \notin {"load", "archive", "accept", "finish", "fail", "mark"} => batch'[r] = 0
        /\ pc'[r] = "load" => batch'[r] < NumBatches
    BY <1>17 DEF Accept, Goto
  <2> QED BY <2>1, <2>2 DEF Stays, BatchInv
<1>18. ASSUME NEW r \in Runners, Finish(r) PROVE BatchInv'
  <2>1. \A s \in Runners : s # r => Stays(s)
    BY <1>18, OthersStay DEF RunnerStep, Step, IngestStep
  <2>2. /\ pc'[r] \notin {"load", "archive", "accept", "finish", "fail", "mark"} => batch'[r] = 0
        /\ pc'[r] = "load" => batch'[r] < NumBatches
    BY <1>18, ReturnFrees DEF Finish, Return, TypeOK
  <2> QED BY <2>1, <2>2 DEF Stays, BatchInv
<1>19. ASSUME NEW r \in Runners, CleanUp(r) PROVE BatchInv'
  <2>1. \A s \in Runners : s # r => Stays(s)
    BY <1>19, OthersStay DEF RunnerStep, Step, IngestStep
  <2>2. /\ pc'[r] \notin {"load", "archive", "accept", "finish", "fail", "mark"} => batch'[r] = 0
        /\ pc'[r] = "load" => batch'[r] < NumBatches
    BY <1>19 DEF CleanUp, Goto
  <2> QED BY <2>1, <2>2 DEF Stays, BatchInv
<1>20. ASSUME NEW r \in Runners, MarkFailed(r) PROVE BatchInv'
  <2>1. \A s \in Runners : s # r => Stays(s)
    BY <1>20, OthersStay DEF RunnerStep, Step, IngestStep
  <2>2. /\ pc'[r] \notin {"load", "archive", "accept", "finish", "fail", "mark"} => batch'[r] = 0
        /\ pc'[r] = "load" => batch'[r] < NumBatches
    BY <1>20, ReturnFrees DEF MarkFailed, Return
  <2> QED BY <2>1, <2>2 DEF Stays, BatchInv
<1>21. ASSUME NEW r \in Runners, Fault(r) PROVE BatchInv'
  <2>1. \A s \in Runners : s # r => Stays(s)
    BY <1>21, OthersStay DEF RunnerStep
  <2>2. /\ pc'[r] \notin {"load", "archive", "accept", "finish", "fail", "mark"} => batch'[r] = 0
        /\ pc'[r] = "load" => batch'[r] < NumBatches
    BY <1>21, ReturnFrees DEF Fault, Goto, Return, TypeOK
  <2> QED BY <2>1, <2>2 DEF Stays, BatchInv
<1>22. ASSUME NEW r \in Runners, Crash(r) PROVE BatchInv'
  <2>1. \A s \in Runners : s # r => Stays(s)
    BY <1>22, OthersStay DEF RunnerStep
  <2>2. /\ pc'[r] \notin {"load", "archive", "accept", "finish", "fail", "mark"} => batch'[r] = 0
        /\ pc'[r] = "load" => batch'[r] < NumBatches
    BY <1>22, ReturnFrees DEF Crash, Return
  <2> QED BY <2>1, <2>2 DEF Stays, BatchInv
<1>23. ASSUME NEW p \in Packages, Arrive(p) PROVE BatchInv'
  BY <1>23 DEF Arrive, RestUnchanged, BatchInv
<1>24. ASSUME NEW p \in Packages, NEW c \in {"none", "other"}, Disturb(p, c) PROVE BatchInv'
  BY <1>24 DEF Disturb, RestUnchanged, BatchInv
<1>25. ASSUME NEW p \in Packages, Restore(p) PROVE BatchInv'
  BY <1>25 DEF Restore, RestUnchanged, BatchInv
<1>26. ASSUME NEW p \in Packages, Stage(p) PROVE BatchInv'
  BY <1>26 DEF Stage, RestUnchanged, BatchInv
<1> QED BY <1>1, <1>2, <1>3, <1>4, <1>5, <1>6, <1>7, <1>8, <1>9, <1>10, <1>11, <1>12, <1>13,
           <1>14, <1>15, <1>16, <1>17, <1>18, <1>19, <1>20, <1>21, <1>22, <1>23, <1>24, <1>25,
           <1>26 DEF Next, Step, IngestStep, Files

\* A runner inside the guard is the only one.
LEMMA OnlyHolder ==
    ASSUME LockInv, NEW r \in Runners, pc[r] \in Holding, NEW s \in Runners, s # r
    PROVE  pc[s] \notin Holding
  BY DEF LockInv

\* No package is accepted behind the one at work.
LEMMA OrderStep ==
    ASSUME TypeOK, LockInv, OrderInv, Next
    PROVE  OrderInv'
<1> USE DEF choiceVars, workVars
<1>1. ASSUME NEW r \in Runners, NEW k \in {"run", "retry", "replay"}, Begin(r, k) PROVE OrderInv'
  <2>1. \A s \in Runners : s # r => Stays(s)
    BY <1>1, OthersStay DEF RunnerStep
  <2>2. Accepted' \subseteq Accepted
    BY <1>1 DEF Accepted, Begin
  <2>3. pc'[r] \in Attempting => cur'[r] = cur[r] /\ Monotonic(cur[r])
    BY <1>1 DEF Begin, Goto, Attempting
  <2> QED BY <2>1, <2>2, <2>3 DEF Stays, OrderInv, Monotonic
<1>2. ASSUME NEW r \in Runners, Gate(r) PROVE OrderInv'
  <2>1. \A s \in Runners : s # r => Stays(s)
    BY <1>2, OthersStay DEF RunnerStep, Step
  <2>2. Accepted' \subseteq Accepted
    BY <1>2 DEF Accepted, Gate
  <2>3. pc'[r] \in Attempting => cur'[r] = cur[r] /\ Monotonic(cur[r])
    BY <1>2, ReturnFrees DEF Gate, Goto, Return, TypeOK, Attempting
  <2> QED BY <2>1, <2>2, <2>3 DEF Stays, OrderInv, Monotonic
<1>3. ASSUME NEW r \in Runners, Scan(r) PROVE OrderInv'
  <2>1. \A s \in Runners : s # r => Stays(s)
    BY <1>3, OthersStay DEF RunnerStep, Step
  <2>0. \A p \in Packages : Register(p) = "SUCCESS" => status[p] = "SUCCESS"
    BY DEF Register
  <2>2. Accepted' \subseteq Accepted
    BY <1>3, <2>0 DEF Accepted, Scan
  <2>3. pc'[r] \in Attempting => cur'[r] = cur[r] /\ Monotonic(cur[r])
    BY <1>3, ReturnFrees DEF Scan, Goto, Return, TypeOK, Attempting
  <2> QED BY <2>1, <2>2, <2>3 DEF Stays, OrderInv, Monotonic
<1>4. ASSUME NEW r \in Runners, Lock(r) PROVE OrderInv'
  <2>1. \A s \in Runners : s # r => Stays(s)
    BY <1>4, OthersStay DEF RunnerStep
  <2>2. Accepted' \subseteq Accepted
    BY <1>4 DEF Accepted, Lock
  <2>3. pc'[r] \in Attempting => cur'[r] = cur[r] /\ Monotonic(cur[r])
    BY <1>4, ReturnFrees DEF Lock, Goto, Return, TypeOK, Attempting
  <2> QED BY <2>1, <2>2, <2>3 DEF Stays, OrderInv, Monotonic
<1>5. ASSUME NEW r \in Runners, Recover(r) PROVE OrderInv'
  <2>1. \A s \in Runners : s # r => Stays(s)
    BY <1>5, OthersStay DEF RunnerStep, Step
  <2>2. Accepted' \subseteq Accepted
    BY <1>5 DEF Accepted, Recover
  <2>3. pc'[r] \in Attempting => cur'[r] = cur[r] /\ Monotonic(cur[r])
    BY <1>5 DEF Recover, Goto, Attempting
  <2> QED BY <2>1, <2>2, <2>3 DEF Stays, OrderInv, Monotonic
<1>6. ASSUME NEW r \in Runners, Preflight(r) PROVE OrderInv'
  <2>1. \A s \in Runners : s # r => Stays(s)
    BY <1>6, OthersStay DEF RunnerStep, Step
  <2>2. Accepted' \subseteq Accepted
    BY <1>6 DEF Accepted, Preflight
  <2>3. pc'[r] \in Attempting => cur'[r] = cur[r] /\ Monotonic(cur[r])
    BY <1>6, ReturnFrees DEF Preflight, Goto, Return, TypeOK, Attempting
  <2> QED BY <2>1, <2>2, <2>3 DEF Stays, OrderInv, Monotonic
<1>7. ASSUME NEW r \in Runners, Plan(r) PROVE OrderInv'
  <2>1. \A s \in Runners : s # r => Stays(s)
    BY <1>7, OthersStay DEF RunnerStep, Step
  <2>2. Accepted' \subseteq Accepted
    BY <1>7 DEF Accepted, Plan
  <2>3. pc'[r] \in Attempting => cur'[r] = cur[r] /\ Monotonic(cur[r])
    BY <1>7, ReturnFrees DEF Plan, Goto, Return, TypeOK, Attempting
  <2> QED BY <2>1, <2>2, <2>3 DEF Stays, OrderInv, Monotonic
<1>8. ASSUME NEW r \in Runners, Pause(r) PROVE OrderInv'
  <2>1. \A s \in Runners : s # r => Stays(s)
    BY <1>8, OthersStay DEF RunnerStep
  <2>2. Accepted' \subseteq Accepted
    BY <1>8 DEF Accepted, Pause
  <2>3. pc'[r] \in Attempting => cur'[r] = cur[r] /\ Monotonic(cur[r])
    BY <1>8, ReturnFrees DEF Pause, Return, Attempting
  <2> QED BY <2>1, <2>2, <2>3 DEF Stays, OrderInv, Monotonic
<1>9. ASSUME NEW r \in Runners, Discover(r) PROVE OrderInv'
  <2>1. \A s \in Runners : s # r => Stays(s)
    BY <1>9, OthersStay DEF RunnerStep, Step
  <2>2. Accepted' \subseteq Accepted
    BY <1>9 DEF Accepted, TypeOK, Discover
  <2>3. pc'[r] \in Attempting => cur'[r] = cur[r] /\ Monotonic(cur[r])
    BY <1>9, ReturnFrees DEF Discover, Goto, Return, TypeOK, Attempting
  <2> QED BY <2>1, <2>2, <2>3 DEF Stays, OrderInv, Monotonic
<1>10. ASSUME NEW r \in Runners, Choose(r) PROVE OrderInv'
  <2>1. \A s \in Runners : s # r => Stays(s)
    BY <1>10, OthersStay DEF RunnerStep, Step
  <2>2. Accepted' \subseteq Accepted
    BY <1>10 DEF Accepted, TypeOK, Choose
  <2>3. pc'[r] \in Attempting => cur'[r] = cur[r] /\ Monotonic(cur[r])
    BY <1>10 DEF Choose, Goto, TypeOK, Attempting
  <2> QED BY <2>1, <2>2, <2>3 DEF Stays, OrderInv, Monotonic
<1>11. ASSUME NEW r \in Runners, NothingPending(r) PROVE OrderInv'
  <2>1. \A s \in Runners : s # r => Stays(s)
    BY <1>11, OthersStay DEF RunnerStep, Step
  <2>2. Accepted' \subseteq Accepted
    BY <1>11 DEF Accepted, NothingPending
  <2>3. pc'[r] \in Attempting => cur'[r] = cur[r] /\ Monotonic(cur[r])
    BY <1>11, ReturnFrees DEF NothingPending, Return, Attempting
  <2> QED BY <2>1, <2>2, <2>3 DEF Stays, OrderInv, Monotonic
<1>12. ASSUME NEW r \in Runners, Hash(r) PROVE OrderInv'
  <2>1. \A s \in Runners : s # r => Stays(s)
    BY <1>12, OthersStay DEF RunnerStep, Step, IngestStep
  <2>2. Accepted' \subseteq Accepted
    BY <1>12 DEF Accepted, Hash
  <2>3. pc'[r] \in Attempting => cur'[r] = cur[r] /\ Monotonic(cur[r])
    <3>1. CASE Return(r)
      BY <3>1, ReturnFrees DEF Return, Attempting
    <3>2. CASE ~Return(r)
      BY <1>12, <3>2 DEF Hash
    <3> QED BY <3>1, <3>2
  <2> QED BY <2>1, <2>2, <2>3 DEF Stays, OrderInv, Monotonic
<1>13. ASSUME NEW r \in Runners, BeginPackage(r) PROVE OrderInv'
  <2>1. \A s \in Runners : s # r => Stays(s)
    BY <1>13, OthersStay DEF RunnerStep, Step, IngestStep
  <2>2. Accepted' \subseteq Accepted
    BY <1>13 DEF Accepted, BeginPackage
  <2>3. pc'[r] \in Attempting => cur'[r] = cur[r] /\ Monotonic(cur[r])
    BY <1>13 DEF BeginPackage, OrderInv, Attempting
  <2> QED BY <2>1, <2>2, <2>3 DEF Stays, OrderInv, Monotonic
<1>14. ASSUME NEW r \in Runners, CheckPackage(r) PROVE OrderInv'
  <2>0. pc[r] = "check" /\ (Goto(r, "load") \/ Goto(r, "fail")) /\ UNCHANGED <<batch, lock, cur>>
    BY <1>14 DEF CheckPackage
  <2>1. \A s \in Runners : s # r => Stays(s)
    BY <1>14, OthersStay DEF RunnerStep, Step, IngestStep
  <2>2. Accepted' \subseteq Accepted
    BY <1>14 DEF Accepted, CheckPackage
  <2>3. pc'[r] \in Attempting => cur'[r] = cur[r] /\ Monotonic(cur[r])
    BY <2>0 DEF OrderInv, Attempting
  <2> QED BY <2>1, <2>2, <2>3 DEF Stays, OrderInv, Monotonic
<1>15. ASSUME NEW r \in Runners, PublishBatch(r) PROVE OrderInv'
  <2>1. \A s \in Runners : s # r => Stays(s)
    BY <1>15, OthersStay DEF RunnerStep, Step, IngestStep
  <2>2. Accepted' \subseteq Accepted
    BY <1>15 DEF Accepted, PublishBatch
  <2>3. pc'[r] \in Attempting => cur'[r] = cur[r] /\ Monotonic(cur[r])
    BY <1>15 DEF PublishBatch, OrderInv, Attempting
  <2> QED BY <2>1, <2>2, <2>3 DEF Stays, OrderInv, Monotonic
<1>16. ASSUME NEW r \in Runners, Archive(r) PROVE OrderInv'
  <2>1. \A s \in Runners : s # r => Stays(s)
    BY <1>16, OthersStay DEF RunnerStep, Step, IngestStep
  <2>2. Accepted' \subseteq Accepted
    BY <1>16 DEF Accepted, Archive
  <2>3. pc'[r] \in Attempting => cur'[r] = cur[r] /\ Monotonic(cur[r])
    BY <1>16 DEF Archive, OrderInv, Attempting
  <2> QED BY <2>1, <2>2, <2>3 DEF Stays, OrderInv, Monotonic
<1>17. ASSUME NEW r \in Runners, Accept(r) PROVE OrderInv'
  <2>1. \A s \in Runners : s # r => Stays(s)
    BY <1>17, OthersStay DEF RunnerStep, Step, IngestStep
  <2>2. pc'[r] \notin Attempting
    BY <1>17 DEF Accept, Goto, TypeOK, Attempting
  <2>3. \A s \in Runners : s # r => pc'[s] \notin Attempting
    BY <1>17, <2>1, OnlyHolder DEF Accept, Stays, Holding, Attempting
  <2> QED BY <2>2, <2>3 DEF OrderInv
<1>18. ASSUME NEW r \in Runners, Finish(r) PROVE OrderInv'
  <2>1. \A s \in Runners : s # r => Stays(s)
    BY <1>18, OthersStay DEF RunnerStep, Step, IngestStep
  <2>2. Accepted' \subseteq Accepted
    BY <1>18 DEF Accepted, Finish
  <2>3. pc'[r] \in Attempting => cur'[r] = cur[r] /\ Monotonic(cur[r])
    BY <1>18, ReturnFrees DEF Finish, Goto, Return, TypeOK, Attempting
  <2> QED BY <2>1, <2>2, <2>3 DEF Stays, OrderInv, Monotonic
<1>19. ASSUME NEW r \in Runners, CleanUp(r) PROVE OrderInv'
  <2>1. \A s \in Runners : s # r => Stays(s)
    BY <1>19, OthersStay DEF RunnerStep, Step, IngestStep
  <2>2. Accepted' \subseteq Accepted
    BY <1>19 DEF Accepted, CleanUp
  <2>3. pc'[r] \in Attempting => cur'[r] = cur[r] /\ Monotonic(cur[r])
    BY <1>19 DEF CleanUp, Goto, Attempting
  <2> QED BY <2>1, <2>2, <2>3 DEF Stays, OrderInv, Monotonic
<1>20. ASSUME NEW r \in Runners, MarkFailed(r) PROVE OrderInv'
  <2>1. \A s \in Runners : s # r => Stays(s)
    BY <1>20, OthersStay DEF RunnerStep, Step, IngestStep
  <2>2. Accepted' \subseteq Accepted
    BY <1>20 DEF Accepted, MarkFailed
  <2>3. pc'[r] \in Attempting => cur'[r] = cur[r] /\ Monotonic(cur[r])
    BY <1>20, ReturnFrees DEF MarkFailed, Return, Attempting
  <2> QED BY <2>1, <2>2, <2>3 DEF Stays, OrderInv, Monotonic
<1>21. ASSUME NEW r \in Runners, Fault(r) PROVE OrderInv'
  <2>1. \A s \in Runners : s # r => Stays(s)
    BY <1>21, OthersStay DEF RunnerStep
  <2>2. Accepted' \subseteq Accepted
    BY <1>21 DEF Accepted, Fault
  <2>3. pc'[r] \in Attempting => cur'[r] = cur[r] /\ Monotonic(cur[r])
    BY <1>21, ReturnFrees DEF Fault, Goto, Return, TypeOK, Attempting
  <2> QED BY <2>1, <2>2, <2>3 DEF Stays, OrderInv, Monotonic
<1>22. ASSUME NEW r \in Runners, Crash(r) PROVE OrderInv'
  <2>1. \A s \in Runners : s # r => Stays(s)
    BY <1>22, OthersStay DEF RunnerStep
  <2>2. Accepted' \subseteq Accepted
    BY <1>22 DEF Accepted, Crash
  <2>3. pc'[r] \in Attempting => cur'[r] = cur[r] /\ Monotonic(cur[r])
    BY <1>22, ReturnFrees DEF Crash, Return, Attempting
  <2> QED BY <2>1, <2>2, <2>3 DEF Stays, OrderInv, Monotonic
<1>23. ASSUME NEW p \in Packages, Arrive(p) PROVE OrderInv'
  BY <1>23 DEF Arrive, RestUnchanged, OrderInv, Monotonic, Accepted
<1>24. ASSUME NEW p \in Packages, NEW c \in {"none", "other"}, Disturb(p, c) PROVE OrderInv'
  BY <1>24 DEF Disturb, RestUnchanged, OrderInv, Monotonic, Accepted
<1>25. ASSUME NEW p \in Packages, Restore(p) PROVE OrderInv'
  BY <1>25 DEF Restore, RestUnchanged, OrderInv, Monotonic, Accepted
<1>26. ASSUME NEW p \in Packages, Stage(p) PROVE OrderInv'
  BY <1>26 DEF Stage, RestUnchanged, OrderInv, Monotonic, Accepted
<1> QED BY <1>1, <1>2, <1>3, <1>4, <1>5, <1>6, <1>7, <1>8, <1>9, <1>10, <1>11, <1>12, <1>13,
           <1>14, <1>15, <1>16, <1>17, <1>18, <1>19, <1>20, <1>21, <1>22, <1>23, <1>24, <1>25,
           <1>26 DEF Next, Step, IngestStep, Files

\* The initial states satisfy the part of the invariant that needs nothing of LateErrors.
LEMMA OrderInit == ASSUME Init PROVE OrderIInv
<1>1. TypeOK
  BY ReplayConstants DEF Init, TypeOK, Packages, Contents, Statuses
<1>2. BatchInv /\ LockInv /\ OrderInv
  BY ReplayConstants DEF Init, BatchInv, LockInv, OrderInv, Holding, Attempting
<1> QED BY <1>1, <1>2 DEF OrderIInv

\* Every step keeps it.
LEMMA OrderStays == ASSUME OrderIInv, [Next]_vars PROVE OrderIInv'
<1>1. CASE Next
  BY <1>1, TypeStep, BatchStep, LockStep, OrderStep DEF OrderIInv
<1>2. CASE UNCHANGED vars
  <2> USE DEF vars, fileVars, choiceVars, workVars, boundVars
  <2>1. TypeOK'
    BY <1>2 DEF OrderIInv, TypeOK
  <2>2. BatchInv' /\ LockInv'
    BY <1>2 DEF OrderIInv, BatchInv, LockInv
  <2>3. OrderInv'
    BY <1>2 DEF OrderIInv, OrderInv, Monotonic, Accepted
  <2> QED BY <2>1, <2>2, <2>3 DEF OrderIInv
<1> QED BY <1>1, <1>2

\* It is an invariant.
LEMMA OrderInvariant == Spec => []OrderIInv
  BY OrderInit, OrderStays, PTL DEF Spec

\* Every variable keeps its type: the registry, the files and rows of every
\* package and the state of every runner, whatever fails.
THEOREM ReplayTypes == Spec => []TypeOK
<1>1. OrderIInv => TypeOK
  BY DEF OrderIInv
<1> QED BY <1>1, OrderInvariant, PTL

\* Only the SUCCESS write of an attempt accepts a package.
LEMMA OnlyAccept ==
    ASSUME TypeOK, Next, NEW p \in Packages, status[p] # "SUCCESS", status'[p] = "SUCCESS"
    PROVE  \E r \in Runners : Accept(r)
<1> SUFFICES ASSUME \A r \in Runners : ~Accept(r) PROVE FALSE
  OBVIOUS
<1> USE DEF TypeOK
<1>0. \A q \in Packages : Register(q) = "SUCCESS" => status[q] = "SUCCESS"
  BY DEF Register
<1>1. ASSUME NEW r \in Runners, NEW k \in {"run", "retry", "replay"}, Begin(r, k) PROVE FALSE
  BY <1>1 DEF Begin
<1>2. ASSUME NEW r \in Runners, Gate(r) PROVE FALSE
  BY <1>2 DEF Gate
<1>3. ASSUME NEW r \in Runners, Scan(r) PROVE FALSE
  BY <1>3, <1>0 DEF Scan
<1>4. ASSUME NEW r \in Runners, Lock(r) PROVE FALSE
  BY <1>4 DEF Lock
<1>5. ASSUME NEW r \in Runners, Recover(r) PROVE FALSE
  BY <1>5 DEF Recover
<1>6. ASSUME NEW r \in Runners, Preflight(r) PROVE FALSE
  BY <1>6 DEF Preflight
<1>7. ASSUME NEW r \in Runners, Plan(r) PROVE FALSE
  BY <1>7 DEF Plan
<1>8. ASSUME NEW r \in Runners, Pause(r) PROVE FALSE
  BY <1>8 DEF Pause
<1>9. ASSUME NEW r \in Runners, Discover(r) PROVE FALSE
  BY <1>9 DEF Discover
<1>10. ASSUME NEW r \in Runners, Choose(r) PROVE FALSE
  BY <1>10 DEF Choose
<1>11. ASSUME NEW r \in Runners, NothingPending(r) PROVE FALSE
  BY <1>11 DEF NothingPending
<1>12. ASSUME NEW r \in Runners, Hash(r) PROVE FALSE
  BY <1>12 DEF Hash
<1>13. ASSUME NEW r \in Runners, BeginPackage(r) PROVE FALSE
  BY <1>13 DEF BeginPackage
<1>14. ASSUME NEW r \in Runners, CheckPackage(r) PROVE FALSE
  BY <1>14 DEF CheckPackage
<1>15. ASSUME NEW r \in Runners, PublishBatch(r) PROVE FALSE
  BY <1>15 DEF PublishBatch
<1>16. ASSUME NEW r \in Runners, Archive(r) PROVE FALSE
  BY <1>16 DEF Archive
<1>17. ASSUME NEW r \in Runners, Finish(r) PROVE FALSE
  BY <1>17 DEF Finish
<1>18. ASSUME NEW r \in Runners, CleanUp(r) PROVE FALSE
  BY <1>18 DEF CleanUp
<1>19. ASSUME NEW r \in Runners, MarkFailed(r) PROVE FALSE
  BY <1>19 DEF MarkFailed
<1>20. ASSUME NEW r \in Runners, Fault(r) PROVE FALSE
  BY <1>20 DEF Fault
<1>21. ASSUME NEW r \in Runners, Crash(r) PROVE FALSE
  BY <1>21 DEF Crash
<1>22. ASSUME NEW q \in Packages, Arrive(q) PROVE FALSE
  BY <1>22 DEF Arrive, RestUnchanged
<1>23. ASSUME NEW q \in Packages, NEW c \in {"none", "other"}, Disturb(q, c) PROVE FALSE
  BY <1>23 DEF Disturb, RestUnchanged
<1>24. ASSUME NEW q \in Packages, Restore(q) PROVE FALSE
  BY <1>24 DEF Restore, RestUnchanged
<1>25. ASSUME NEW q \in Packages, Stage(q) PROVE FALSE
  BY <1>25 DEF Stage, RestUnchanged
<1> QED BY <1>1, <1>2, <1>3, <1>4, <1>5, <1>6, <1>7, <1>8, <1>9, <1>10, <1>11, <1>12, <1>13,
           <1>14, <1>15, <1>16, <1>17, <1>18, <1>19, <1>20, <1>21, <1>22, <1>23, <1>24, <1>25 DEF
           Next, Step, IngestStep, Files

\* Only a plan with nothing left reports COMPLETE.
LEMMA OnlyPlan ==
    ASSUME TypeOK, Next, NEW r \in Runners, verdict[r] # "COMPLETE", verdict'[r] = "COMPLETE"
    PROVE  Plan(r) /\ ~Blocked(r) /\ Unfinished(r) = {}
<1>0. \A s \in Runners : Return(s) => verdict'[r] \in {"none", verdict[r]}
  BY DEF Return, ReturnWith
<1>1. ASSUME NEW s \in Runners, NEW k \in {"run", "retry", "replay"}, Begin(s, k) PROVE FALSE
  BY <1>1 DEF Begin
<1>2. ASSUME NEW s \in Runners, Gate(s) PROVE FALSE
  BY <1>2, <1>0 DEF Gate
<1>3. ASSUME NEW s \in Runners, Scan(s) PROVE FALSE
  BY <1>3, <1>0 DEF Scan
<1>4. ASSUME NEW s \in Runners, Lock(s) PROVE FALSE
  BY <1>4, <1>0 DEF Lock
<1>5. ASSUME NEW s \in Runners, Recover(s) PROVE FALSE
  BY <1>5 DEF Recover
<1>6. ASSUME NEW s \in Runners, Preflight(s) PROVE FALSE
  BY <1>6, <1>0 DEF Preflight
<1>7. ASSUME NEW s \in Runners, Plan(s) PROVE s = r /\ ~Blocked(r) /\ Unfinished(r) = {}
  BY <1>7, <1>0 DEF Plan, ReturnWith, TypeOK
<1>8. ASSUME NEW s \in Runners, Pause(s) PROVE FALSE
  BY <1>8, <1>0 DEF Pause
<1>9. ASSUME NEW s \in Runners, Discover(s) PROVE FALSE
  BY <1>9, <1>0 DEF Discover
<1>10. ASSUME NEW s \in Runners, Choose(s) PROVE FALSE
  BY <1>10 DEF Choose
<1>11. ASSUME NEW s \in Runners, NothingPending(s) PROVE FALSE
  BY <1>11, <1>0 DEF NothingPending
<1>12. ASSUME NEW s \in Runners, Hash(s) PROVE FALSE
  BY <1>12, <1>0 DEF Hash
<1>13. ASSUME NEW s \in Runners, BeginPackage(s) PROVE FALSE
  BY <1>13 DEF BeginPackage
<1>14. ASSUME NEW s \in Runners, CheckPackage(s) PROVE FALSE
  BY <1>14 DEF CheckPackage
<1>15. ASSUME NEW s \in Runners, PublishBatch(s) PROVE FALSE
  BY <1>15 DEF PublishBatch
<1>16. ASSUME NEW s \in Runners, Archive(s) PROVE FALSE
  BY <1>16 DEF Archive
<1>17. ASSUME NEW s \in Runners, Accept(s) PROVE FALSE
  BY <1>17 DEF Accept
<1>18. ASSUME NEW s \in Runners, Finish(s) PROVE FALSE
  BY <1>18, <1>0 DEF Finish
<1>19. ASSUME NEW s \in Runners, CleanUp(s) PROVE FALSE
  BY <1>19 DEF CleanUp
<1>20. ASSUME NEW s \in Runners, MarkFailed(s) PROVE FALSE
  BY <1>20, <1>0 DEF MarkFailed
<1>21. ASSUME NEW s \in Runners, Fault(s) PROVE FALSE
  BY <1>21, <1>0 DEF Fault
<1>22. ASSUME NEW s \in Runners, Crash(s) PROVE FALSE
  BY <1>22, <1>0 DEF Crash
<1>23. ASSUME NEW p \in Packages, Arrive(p) PROVE FALSE
  BY <1>23 DEF Arrive, RestUnchanged
<1>24. ASSUME NEW p \in Packages, NEW c \in {"none", "other"}, Disturb(p, c) PROVE FALSE
  BY <1>24 DEF Disturb, RestUnchanged
<1>25. ASSUME NEW p \in Packages, Restore(p) PROVE FALSE
  BY <1>25 DEF Restore, RestUnchanged
<1>26. ASSUME NEW p \in Packages, Stage(p) PROVE FALSE
  BY <1>26 DEF Stage, RestUnchanged
<1> QED BY <1>1, <1>2, <1>3, <1>4, <1>5, <1>6, <1>7, <1>8, <1>9, <1>10, <1>11, <1>12, <1>13,
           <1>14, <1>15, <1>16, <1>17, <1>18, <1>19, <1>20, <1>21, <1>22, <1>23, <1>24, <1>25,
           <1>26 DEF Next, Step, IngestStep, Files

\* No package becomes part of the current snapshots behind a later one, whichever
\* entry point ingests it: _assert_monotonic_package_order looks once, before the
\* package is parsed, and the session lock keeps its answer true until the SUCCESS
\* write.
THEOREM NeverBehindLater == Spec => AcceptedInOrder
<1> DEFINE InOrder == \A p \in Packages : status[p] # "SUCCESS" /\ status'[p] = "SUCCESS" =>
                         \A q \in Packages : q > p => status[q] # "SUCCESS"
<1>1. OrderIInv /\ [Next]_vars => InOrder
  <2> SUFFICES ASSUME OrderIInv, Next, NEW p \in Packages,
                      status[p] # "SUCCESS", status'[p] = "SUCCESS"
               PROVE  \A q \in Packages : q > p => status[q] # "SUCCESS"
    BY DEF vars
  <2>1. PICK r \in Runners : Accept(r)
    BY OnlyAccept DEF OrderIInv
  <2>2. p = cur[r] /\ Monotonic(cur[r])
    BY <2>1 DEF OrderIInv, OrderInv, Attempting, Accept
  <2> QED BY <2>2 DEF Monotonic, Accepted, Packages
<1> QED BY <1>1, OrderInvariant, PTL DEF Spec, AcceptedInOrder

\* A replay that reports COMPLETE leaves no registered package unfinished, also
\* when packages were registered after its preflight was frozen:
\* build_replay_plan is blocked by a registered package outside the plan.
THEOREM CompleteMeansComplete == Spec => CompleteIsComplete
<1> DEFINE Complete == \A r \in Runners : verdict[r] # "COMPLETE" /\ verdict'[r] = "COMPLETE" =>
                          Registered \subseteq Accepted
<1>1. OrderIInv /\ [Next]_vars => Complete
  <2> SUFFICES ASSUME OrderIInv, Next, NEW r \in Runners,
                      verdict[r] # "COMPLETE", verdict'[r] = "COMPLETE"
               PROVE  Registered \subseteq Accepted
    BY DEF vars
  <2>1. Plan(r) /\ ~Blocked(r) /\ Unfinished(r) = {}
    BY OnlyPlan DEF OrderIInv
  <2>2. Registered \subseteq Planned(r)
    BY <2>1 DEF Blocked
  <2> QED BY <2>1, <2>2 DEF Unfinished
<1> QED BY <1>1, OrderInvariant, PTL DEF Spec, CompleteIsComplete

----------------------------------------------------------------------------
\* That an accepted package is whole.

\* A runner that does not move keeps its invariant while no file, row or status
\* changes.
LEMMA StaysKeeps ==
    ASSUME NEW s \in Runners, RunnerInv(s), Stays(s), UNCHANGED <<status, facts, incoming, archive>>
    PROVE  RunnerInv(s)'
  BY DEF RunnerInv, StatusInv, FileInv, RowsInv, Stays

\* A runner outside the guard claims nothing.
LEMMA OutsideKeeps ==
    ASSUME NEW s \in Runners, pc'[s] \notin Holding
    PROVE  RunnerInv(s)'
  BY DEF RunnerInv, StatusInv, FileInv, RowsInv, Holding, Chosen

\* A step of the runner inside the guard is judged by that runner and the packages.
LEMMA HolderKeeps ==
    ASSUME LockInv, NEW r \in Runners, pc[r] \in Holding, \A s \in Runners : s # r => Stays(s),
           RunnerInv(r)', PackageInv', SuccessIsWhole'
    PROVE  WorkInv'
<1>1. \A s \in Runners : s # r => pc'[s] \notin Holding
  BY OnlyHolder DEF Stays
<1> QED BY <1>1, OutsideKeeps DEF WorkInv

\* A step that changes no file, row or status is judged by its runner.
LEMMA StoreKeeps ==
    ASSUME WorkInv, NEW r \in Runners, \A s \in Runners : s # r => Stays(s), RunnerInv(r)',
           UNCHANGED <<status, facts, incoming, archive>>
    PROVE  WorkInv'
<1>1. \A s \in Runners : s # r => RunnerInv(s)'
  BY StaysKeeps DEF WorkInv
<1>2. PackageInv' /\ SuccessIsWhole'
  BY DEF WorkInv, PackageInv, SuccessIsWhole, Accepted
<1> QED BY <1>1, <1>2 DEF WorkInv

\* A runner that returns claims nothing.
LEMMA ReturnKeeps ==
    ASSUME TypeOK, NEW r \in Runners, NEW v, ReturnWith(r, v)
    PROVE  RunnerInv(r)'
  BY ReturnFrees, OutsideKeeps DEF Holding

\* A started process is outside the guard.
LEMMA BeginWork ==
    ASSUME IInv, NEW r \in Runners, NEW k \in {"run", "retry", "replay"}, Begin(r, k)
    PROVE  WorkInv'
<1> USE DEF choiceVars, workVars, fileVars, boundVars
<1>0. \A s \in Runners : s # r => Stays(s)
  BY OthersStay DEF IInv, OrderIInv, RunnerStep
<1>1. UNCHANGED <<status, facts, incoming, archive>>
  BY DEF Begin
<1>2. RunnerInv(r)'
  <2>1. pc'[r] \notin Holding
    BY DEF Begin, Goto, Holding
  <2> QED BY <2>1, OutsideKeeps
<1> QED BY <1>0, <1>1, <1>2, StoreKeeps DEF IInv

\* The gate is before the guard.
LEMMA GateWork ==
    ASSUME IInv, NEW r \in Runners, Gate(r)
    PROVE  WorkInv'
<1> USE DEF choiceVars, workVars, fileVars, boundVars
<1>0. \A s \in Runners : s # r => Stays(s)
  BY OthersStay DEF IInv, OrderIInv, RunnerStep, Step
<1>1. UNCHANGED <<status, facts, incoming, archive>>
  BY DEF Gate
<1>2. RunnerInv(r)'
  <2>1. pc'[r] \notin Holding
    BY ReturnFrees DEF Gate, Goto, Return, Holding, IInv, OrderIInv, TypeOK
  <2> QED BY <2>1, OutsideKeeps
<1> QED BY <1>0, <1>1, <1>2, StoreKeeps DEF IInv

\* A runner that gets the lock has chosen nothing.
LEMMA LockWork ==
    ASSUME IInv, NEW r \in Runners, Lock(r)
    PROVE  WorkInv'
<1> USE DEF choiceVars, workVars, fileVars, boundVars
<1>0. \A s \in Runners : s # r => Stays(s)
  BY OthersStay DEF IInv, OrderIInv, RunnerStep
<1>1. UNCHANGED <<status, facts, incoming, archive>>
  BY DEF Lock
<1>2. RunnerInv(r)'
  <2>1. CASE Return(r)
    BY <2>1, ReturnKeeps DEF Return, IInv, OrderIInv
  <2>2. CASE ~Return(r)
    <3>1. pc'[r] = "recover"
      BY <2>2 DEF Lock, Goto, IInv, OrderIInv, TypeOK
    <3> QED BY <3>1 DEF RunnerInv, StatusInv, FileInv, RowsInv, Chosen
  <2> QED BY <2>1, <2>2
<1> QED BY <1>0, <1>1, <1>2, StoreKeeps DEF IInv

\* The preflight chooses nothing.
LEMMA PreflightWork ==
    ASSUME IInv, NEW r \in Runners, Preflight(r)
    PROVE  WorkInv'
<1> USE DEF choiceVars, workVars, fileVars, boundVars
<1>0. \A s \in Runners : s # r => Stays(s)
  BY OthersStay DEF IInv, OrderIInv, RunnerStep, Step
<1>1. UNCHANGED <<status, facts, incoming, archive>>
  BY DEF Preflight
<1>2. RunnerInv(r)'
  <2>1. CASE Return(r)
    BY <2>1, ReturnKeeps DEF Return, IInv, OrderIInv
  <2>2. CASE ~Return(r)
    <3>1. pc'[r] = "plan"
      BY <2>2 DEF Preflight, Goto, IInv, OrderIInv, TypeOK
    <3> QED BY <3>1 DEF RunnerInv, StatusInv, FileInv, RowsInv, Chosen
  <2> QED BY <2>1, <2>2
<1> QED BY <1>0, <1>1, <1>2, StoreKeeps DEF IInv

\* The package the plan takes is not accepted, and has rows only if it is retried.
LEMMA PlanWork ==
    ASSUME IInv, NEW r \in Runners, Plan(r)
    PROVE  WorkInv'
<1> USE DEF choiceVars, workVars, fileVars, boundVars
<1>0. \A s \in Runners : s # r => Stays(s)
  BY OthersStay DEF IInv, OrderIInv, RunnerStep, Step
<1>1. UNCHANGED <<status, facts, incoming, archive>>
  BY DEF Plan
<1>2. RunnerInv(r)'
  <2>1. CASE Return(r) \/ ReturnWith(r, "COMPLETE")
    BY <2>1, ReturnKeeps DEF Return, IInv, OrderIInv
  <2>2. CASE ~Return(r) /\ ~ReturnWith(r, "COMPLETE")
    <3>1. PICK p \in Unfinished(r) : p = First(Unfinished(r))
      BY <2>2, FirstFacts DEF Plan, Unfinished, Planned
    <3>2. PICK b \in BOOLEAN : b = (status[p] \in Retryable)
      BY Truth
    <3>3. pc'[r] = "discover" /\ cur'[r] = p /\ retrying'[r] = b
      BY <2>2, <3>1, <3>2 DEF Plan, Goto, IInv, OrderIInv, TypeOK
    <3>4. p \in Packages /\ status[p] # "SUCCESS" /\ status[p] \in Statuses
      BY DEF Unfinished, Planned, Accepted, IInv, OrderIInv, TypeOK
    <3>5. ~b => status[p] = "PROCESSING" \/ facts[p] = {}
      BY <3>2, <3>4 DEF IInv, WorkInv, PackageInv, Statuses
    <3> QED BY <1>1, <3>3, <3>4, <3>5 DEF RunnerInv, StatusInv, FileInv, RowsInv
  <2> QED BY <2>1, <2>2
<1> QED BY <1>0, <1>1, <1>2, StoreKeeps DEF IInv

\* A paused replay returns.
LEMMA PauseWork ==
    ASSUME IInv, NEW r \in Runners, Pause(r)
    PROVE  WorkInv'
<1> USE DEF choiceVars, workVars, fileVars, boundVars
<1>0. \A s \in Runners : s # r => Stays(s)
  BY OthersStay DEF IInv, OrderIInv, RunnerStep
<1>1. UNCHANGED <<status, facts, incoming, archive>>
  BY DEF Pause
<1>2. RunnerInv(r)'
  BY ReturnKeeps DEF Pause, Return, IInv, OrderIInv
<1> QED BY <1>0, <1>1, <1>2, StoreKeeps DEF IInv

\* A cycle without candidates returns.
LEMMA NothingPendingWork ==
    ASSUME IInv, NEW r \in Runners, NothingPending(r)
    PROVE  WorkInv'
<1> USE DEF choiceVars, workVars, fileVars, boundVars
<1>0. \A s \in Runners : s # r => Stays(s)
  BY OthersStay DEF IInv, OrderIInv, RunnerStep, Step
<1>1. UNCHANGED <<status, facts, incoming, archive>>
  BY DEF NothingPending
<1>2. RunnerInv(r)'
  BY ReturnKeeps DEF NothingPending, Return, IInv, OrderIInv
<1> QED BY <1>0, <1>1, <1>2, StoreKeeps DEF IInv

\* A process that dies returns nothing.
LEMMA CrashWork ==
    ASSUME IInv, NEW r \in Runners, Crash(r)
    PROVE  WorkInv'
<1> USE DEF choiceVars, workVars, fileVars, boundVars
<1>0. \A s \in Runners : s # r => Stays(s)
  BY OthersStay DEF IInv, OrderIInv, RunnerStep
<1>1. UNCHANGED <<status, facts, incoming, archive>>
  BY DEF Crash
<1>2. RunnerInv(r)'
  BY ReturnKeeps DEF Crash, Return, IInv, OrderIInv
<1> QED BY <1>0, <1>1, <1>2, StoreKeeps DEF IInv

\* The replay plans again.
LEMMA FinishWork ==
    ASSUME IInv, NEW r \in Runners, Finish(r)
    PROVE  WorkInv'
<1> USE DEF choiceVars, workVars, fileVars, boundVars
<1>0. \A s \in Runners : s # r => Stays(s)
  BY OthersStay DEF IInv, OrderIInv, RunnerStep, Step, IngestStep
<1>1. UNCHANGED <<status, facts, incoming, archive>>
  BY DEF Finish
<1>2. RunnerInv(r)'
  <2>1. CASE Return(r)
    BY <2>1, ReturnKeeps DEF Return, IInv, OrderIInv
  <2>2. CASE ~Return(r)
    <3>1. pc'[r] = "plan"
      BY <2>2 DEF Finish, Goto, IInv, OrderIInv, TypeOK
    <3> QED BY <3>1 DEF RunnerInv, StatusInv, FileInv, RowsInv, Chosen
  <2> QED BY <2>1, <2>2
<1> QED BY <1>0, <1>1, <1>2, StoreKeeps DEF IInv

\* What is hashed is what is in the directory.
LEMMA HashWork ==
    ASSUME IInv, NEW r \in Runners, Hash(r)
    PROVE  WorkInv'
<1> USE DEF choiceVars, workVars, fileVars, boundVars
<1>0. \A s \in Runners : s # r => Stays(s)
  BY OthersStay DEF IInv, OrderIInv, RunnerStep, Step, IngestStep
<1>1. UNCHANGED <<status, facts, incoming, archive>>
  BY DEF Hash
<1>2. RunnerInv(r)'
  <2>1. CASE Return(r)
    BY <2>1, ReturnKeeps DEF Return, IInv, OrderIInv
  <2>2. CASE ~Return(r)
    <3>1. PICK c : /\ pc' = [pc EXCEPT ![r] = "begin"] /\ content' = [content EXCEPT ![r] = c]
                   /\ from[r] = "incoming" => c = incoming[cur[r]]
                   /\ from[r] # "incoming" => "registered" \in archive[cur[r]]
      BY <2>2 DEF Hash, Goto
    <3>2. pc[r] = "hash" /\ cur'[r] = cur[r] /\ from'[r] = from[r] /\ retrying'[r] = retrying[r]
      BY <2>2 DEF Hash
    <3>3. pc'[r] = "begin" /\ content'[r] = c
      BY <3>1 DEF IInv, OrderIInv, TypeOK
    <3>4. RunnerInv(r)
      BY DEF IInv, WorkInv
    <3> QED BY <1>1, <3>1, <3>2, <3>3, <3>4 DEF RunnerInv, StatusInv, FileInv, RowsInv, Chosen
  <2> QED BY <2>1, <2>2
<1> QED BY <1>0, <1>1, <1>2, StoreKeeps DEF IInv

\* An error leads to the handler; none follows the SUCCESS write.
LEMMA FaultWork ==
    ASSUME IInv, ~LateErrors, NEW r \in Runners, Fault(r)
    PROVE  WorkInv'
<1> USE DEF choiceVars, workVars, fileVars, boundVars
<1>0. \A s \in Runners : s # r => Stays(s)
  BY OthersStay DEF IInv, OrderIInv, RunnerStep
<1>1. UNCHANGED <<status, facts, incoming, archive>>
  BY DEF Fault
<1>2. RunnerInv(r)'
  <2>1. CASE Return(r)
    BY <2>1, ReturnKeeps DEF Return, IInv, OrderIInv
  <2>2. CASE ~Return(r)
    <3>1. pc[r] \in Chosen /\ pc'[r] \in {"fail", "mark"} /\ cur'[r] = cur[r]
      BY <2>2 DEF Fault, Raises, Goto, Chosen, IInv, OrderIInv, TypeOK
    <3>2. StatusInv(r)
      BY DEF IInv, WorkInv, RunnerInv
    <3> QED BY <1>1, <3>1, <3>2 DEF RunnerInv, StatusInv, FileInv, RowsInv
  <2> QED BY <2>1, <2>2
<1> QED BY <1>0, <1>1, <1>2, StoreKeeps DEF IInv

\* The registration writes neither SUCCESS nor PROCESSING, and UNREGISTERED no more.
LEMMA RegisterFacts ==
    ASSUME NEW p
    PROVE  /\ Register(p) # "UNREGISTERED"
           /\ Register(p) \in {"SUCCESS", "PROCESSING"} => status[p] = Register(p)
           /\ status[p] \in {"SUCCESS", "PROCESSING"} => status[p] = Register(p)
           /\ Register(p) = "REGISTERED" => status[p] \in {"UNREGISTERED", "REGISTERED"}
  BY DEF Register

\* A scan registers beside the runner inside the guard: accepted packages and the one
\* at work keep their status.
LEMMA ScanWork ==
    ASSUME IInv, NEW r \in Runners, Scan(r)
    PROVE  WorkInv'
<1> USE DEF choiceVars, workVars, fileVars, boundVars
<1>0. \A s \in Runners : s # r => Stays(s)
  BY OthersStay DEF IInv, OrderIInv, RunnerStep, Step
<1>1. CASE Return(r)
  <2>1. UNCHANGED <<status, facts, incoming, archive>>
    BY <1>1 DEF Scan, ReturnWith, Return, Goto, IInv, OrderIInv, TypeOK
  <2> QED BY <1>0, <1>1, <2>1, ReturnKeeps, StoreKeeps DEF Return, IInv, OrderIInv
<1>2. CASE ~Return(r)
  <2>1. /\ UNCHANGED <<facts, incoming, archive>> /\ pc'[r] = "lock"
        /\ \A p \in Packages : status'[p] = status[p] \/ status'[p] = Register(p)
    BY <1>2 DEF Scan, Goto, IInv, OrderIInv, TypeOK
  <2>2. RunnerInv(r)'
    BY <2>1, OutsideKeeps DEF Holding
  <2>3. PackageInv' /\ SuccessIsWhole'
    BY <2>1, RegisterFacts DEF IInv, WorkInv, PackageInv, SuccessIsWhole, Accepted
  <2>4. ASSUME NEW s \in Runners, s # r PROVE RunnerInv(s)'
    <3>1. cur[s] \in Packages /\ todo[s] \subseteq Packages
      BY DEF IInv, OrderIInv, TypeOK
    <3>2. Stays(s) /\ RunnerInv(s)
      BY <1>0, <2>4 DEF IInv, WorkInv
    <3>3. StatusInv(s)'
      BY <2>1, <3>1, <3>2, RegisterFacts DEF RunnerInv, StatusInv, Stays
    <3>4. FileInv(s)' /\ RowsInv(s)'
      BY <2>1, <3>1, <3>2, RegisterFacts DEF RunnerInv, FileInv, RowsInv, Stays
    <3> QED BY <3>3, <3>4 DEF RunnerInv
  <2> QED BY <2>2, <2>3, <2>4 DEF WorkInv
<1> QED BY <1>1, <1>2

\* After the recovery nothing says PROCESSING; the candidates are unfinished.
LEMMA RecoverWork ==
    ASSUME IInv, NEW r \in Runners, Recover(r)
    PROVE  WorkInv'
<1> USE DEF choiceVars, workVars, fileVars, boundVars
<1>0. \A s \in Runners : s # r => Stays(s)
  BY OthersStay DEF IInv, OrderIInv, RunnerStep, Step
<1>1. pc[r] \in Holding
  BY DEF Recover, Holding
<1>2. RunnerInv(r)'
  <2>1. pc'[r] \in {"preflight", "choose"}
    BY DEF Recover, Goto, IInv, OrderIInv, TypeOK
  <2>2. pc'[r] = "choose" => \A p \in todo'[r] :
           status'[p] \notin {"SUCCESS", "PROCESSING", "UNREGISTERED"}
    BY DEF Recover, Candidates, Retryable, IInv, OrderIInv, TypeOK
  <2> QED BY <2>1, <2>2 DEF RunnerInv, StatusInv, FileInv, RowsInv, Chosen
<1>3. PackageInv'
  BY DEF Recover, IInv, WorkInv, PackageInv
<1>4. SuccessIsWhole'
  BY DEF Recover, IInv, WorkInv, SuccessIsWhole, Accepted
<1> QED BY <1>0, <1>1, <1>2, <1>3, <1>4, HolderKeeps DEF IInv, OrderIInv

\* The package the replay takes was not accepted since it was planned.
LEMMA DiscoverWork ==
    ASSUME IInv, NEW r \in Runners, Discover(r)
    PROVE  WorkInv'
<1> USE DEF choiceVars, workVars, fileVars, boundVars
<1>0. \A s \in Runners : s # r => Stays(s)
  BY OthersStay DEF IInv, OrderIInv, RunnerStep, Step
<1>a. UNCHANGED <<facts, archive>>
  BY DEF Discover
<1>b. \A p \in Packages : \/ status'[p] = status[p]
                          \/ status[p] = "UNREGISTERED" /\ status'[p] = "REGISTERED"
  <2>1. PICK q \in Packages : q = cur[r]
    BY DEF IInv, OrderIInv, TypeOK
  <2>2. status \in [Packages -> Statuses]
    BY DEF IInv, OrderIInv, TypeOK
  <2>3. \/ UNCHANGED status
        \/ status' = [status EXCEPT ![q] = IF @ = "UNREGISTERED" THEN "REGISTERED" ELSE @]
    BY <2>1 DEF Discover
  <2>4. ASSUME NEW p \in Packages
        PROVE  status'[p] = status[p] \/ (status[p] = "UNREGISTERED" /\ status'[p] = "REGISTERED")
    <3>1. CASE p = q
      BY <2>2, <2>3
    <3>2. CASE p # q
      BY <2>2, <2>3
    <3> QED BY <3>1, <3>2
  <2> QED BY <2>4
<1>1. pc[r] \in Holding
  BY DEF Discover, Holding
<1>2. RunnerInv(r)'
  <2>1. CASE Return(r)
    BY <2>1, ReturnKeeps DEF Return, IInv, OrderIInv
  <2>2. CASE ~Return(r)
    <3>1. /\ pc[r] = "discover" /\ pc'[r] = "hash" /\ cur'[r] = cur[r] /\ retrying'[r] = retrying[r]
          /\ status[cur[r]] # "PROCESSING" /\ UNCHANGED facts
          /\ status'[cur[r]] = IF status[cur[r]] = "UNREGISTERED" THEN "REGISTERED" ELSE status[cur[r]]
      BY <2>2 DEF Discover, Goto, IInv, OrderIInv, TypeOK
    <3>2. RunnerInv(r)
      BY DEF IInv, WorkInv
    <3> QED BY <3>1, <3>2 DEF RunnerInv, StatusInv, FileInv, RowsInv, Chosen
  <2> QED BY <2>1, <2>2
<1>3. PackageInv'
  BY <1>a, <1>b DEF IInv, WorkInv, PackageInv
<1>4. SuccessIsWhole'
  BY <1>a, <1>b DEF IInv, WorkInv, SuccessIsWhole, Accepted
<1> QED BY <1>0, <1>1, <1>2, <1>3, <1>4, HolderKeeps DEF IInv, OrderIInv

\* The candidate a cycle takes is unfinished, and has rows only if it is retried.
LEMMA ChooseWork ==
    ASSUME IInv, NEW r \in Runners, Choose(r)
    PROVE  WorkInv'
<1> USE DEF choiceVars, workVars, fileVars, boundVars
<1>0. \A s \in Runners : s # r => Stays(s)
  BY OthersStay DEF IInv, OrderIInv, RunnerStep, Step
<1>1. pc[r] \in Holding
  BY DEF Choose, Holding
<1>2. RunnerInv(r)'
  <2>1. PICK p \in todo[r] : p = First(todo[r])
    BY FirstFacts DEF Choose, IInv, OrderIInv, TypeOK
  <2>2. PICK b \in BOOLEAN : b = (status[p] \in Retryable)
    BY Truth
  <2>3. p \in Packages /\ status[p] \in Statuses /\ pc[r] = "choose"
    BY DEF Choose, IInv, OrderIInv, TypeOK
  <2>4. RunnerInv(r)
    BY DEF IInv, WorkInv
  <2>5. CASE Resolved(p) = "none"
    <3>1. pc'[r] = "choose" /\ todo'[r] \subseteq todo[r]
      BY <2>1, <2>5 DEF Choose, IInv, OrderIInv, TypeOK
    <3>2. \A q \in todo[r] : status'[q] \in {"MISSING_FILE", status[q]}
      BY DEF Choose, IInv, OrderIInv, TypeOK
    <3> QED BY <2>3, <2>4, <3>1, <3>2 DEF RunnerInv, StatusInv, FileInv, RowsInv, Chosen
  <2>6. CASE Resolved(p) # "none"
    <3>1. pc'[r] = "hash" /\ cur'[r] = p /\ retrying'[r] = b /\ UNCHANGED <<status, facts>>
      BY <2>1, <2>2, <2>6 DEF Choose, Goto, IInv, OrderIInv, TypeOK
    <3>2. status[p] \notin {"SUCCESS", "PROCESSING", "UNREGISTERED"}
      BY <2>3, <2>4 DEF RunnerInv, StatusInv
    <3>3. ~b => facts[p] = {}
      BY <2>2, <2>3, <3>2 DEF IInv, WorkInv, PackageInv, Statuses
    <3> QED BY <3>1, <3>2, <3>3 DEF RunnerInv, StatusInv, FileInv, RowsInv
  <2> QED BY <2>5, <2>6
<1>3. PackageInv'
  <2>1. \A p \in Packages : status'[p] \in {"MISSING_FILE", status[p]}
    BY DEF Choose, IInv, OrderIInv, TypeOK
  <2> QED BY <2>1 DEF Choose, IInv, WorkInv, PackageInv
<1>4. SuccessIsWhole'
  <2>1. First(todo[r]) \in todo[r]
    BY FirstFacts DEF Choose, IInv, OrderIInv, TypeOK
  <2>2. First(todo[r]) \in Packages /\ \A p \in Packages : status'[p] \in {"MISSING_FILE", status[p]}
    BY <2>1 DEF Choose, IInv, OrderIInv, TypeOK
  <2> QED BY <2>2 DEF Choose, IInv, WorkInv, SuccessIsWhole, Accepted
<1> QED BY <1>0, <1>1, <1>2, <1>3, <1>4, HolderKeeps DEF IInv, OrderIInv

\* The attempt begins with the PROCESSING write.
LEMMA BeginPackageWork ==
    ASSUME IInv, NEW r \in Runners, BeginPackage(r)
    PROVE  WorkInv'
<1> USE DEF choiceVars, workVars, fileVars, boundVars
<1>0. \A s \in Runners : s # r => Stays(s)
  BY OthersStay DEF IInv, OrderIInv, RunnerStep, Step, IngestStep
<1>1. pc[r] \in Holding
  BY DEF BeginPackage, Holding
<1>2. RunnerInv(r)'
  <2>1. /\ pc[r] = "begin" /\ pc'[r] = "check" /\ status'[cur[r]] = "PROCESSING"
        /\ UNCHANGED <<cur, from, retrying, content, facts, incoming, archive>>
    BY DEF BeginPackage, Goto, IInv, OrderIInv, TypeOK
  <2>2. RunnerInv(r)
    BY DEF IInv, WorkInv
  <2> QED BY <2>1, <2>2 DEF RunnerInv, StatusInv, FileInv, RowsInv
<1>3. PackageInv'
  BY DEF BeginPackage, IInv, WorkInv, PackageInv
<1>4. SuccessIsWhole'
  BY DEF BeginPackage, IInv, WorkInv, SuccessIsWhole, Accepted
<1> QED BY <1>0, <1>1, <1>2, <1>3, <1>4, HolderKeeps DEF IInv, OrderIInv

\* Before the first batch the rows of an earlier attempt are gone.
LEMMA CheckPackageWork ==
    ASSUME IInv, NEW r \in Runners, CheckPackage(r)
    PROVE  WorkInv'
<1> USE DEF choiceVars, workVars, fileVars, boundVars
<1>0. \A s \in Runners : s # r => Stays(s)
  BY OthersStay DEF IInv, OrderIInv, RunnerStep, Step, IngestStep
<1>1. pc[r] \in Holding
  BY DEF CheckPackage, Holding
<1>2. RunnerInv(r)'
  <2>1. /\ pc[r] = "check" /\ UNCHANGED <<cur, from, retrying, content, batch, status, incoming, archive>>
    BY DEF CheckPackage
  <2>2. RunnerInv(r) /\ batch[r] = 0
    BY <2>1 DEF IInv, WorkInv, OrderIInv, BatchInv
  <2>3. CASE pc'[r] = "load"
    <3>1. content[r] = "registered" /\ facts'[cur[r]] = {}
      BY <2>2, <2>3 DEF CheckPackage, ShaMatches, Goto, IInv, OrderIInv, TypeOK, RunnerInv,
         RowsInv
    <3> QED BY <2>1, <2>2, <2>3, <3>1 DEF RunnerInv, StatusInv, FileInv, RowsInv
  <2>4. CASE pc'[r] = "fail"
    BY <2>1, <2>2, <2>4 DEF RunnerInv, StatusInv, FileInv, RowsInv
  <2>5. pc'[r] \in {"load", "fail"}
    BY DEF CheckPackage, Goto, IInv, OrderIInv, TypeOK
  <2> QED BY <2>3, <2>4, <2>5
<1>3. PackageInv'
  <2>1. UNCHANGED <<status, archive>> /\ \A p \in Packages : facts'[p] = facts[p] \/ facts'[p] = {}
    BY DEF CheckPackage, IInv, OrderIInv, TypeOK
  <2> QED BY <2>1 DEF IInv, WorkInv, PackageInv
<1>4. SuccessIsWhole'
  <2>1. UNCHANGED <<status, archive>> /\ \A p \in Packages : p # cur[r] => facts'[p] = facts[p]
    BY DEF CheckPackage, IInv, OrderIInv, TypeOK
  <2>2. status[cur[r]] # "SUCCESS"
    BY DEF CheckPackage, IInv, WorkInv, RunnerInv, StatusInv
  <2> QED BY <2>1, <2>2 DEF IInv, WorkInv, SuccessIsWhole, Accepted
<1> QED BY <1>0, <1>1, <1>2, <1>3, <1>4, HolderKeeps DEF IInv, OrderIInv

\* The rows are those of the batches published.
LEMMA PublishBatchWork ==
    ASSUME IInv, NEW r \in Runners, PublishBatch(r)
    PROVE  WorkInv'
<1> USE DEF choiceVars, workVars, fileVars, boundVars
<1>0. \A s \in Runners : s # r => Stays(s)
  BY OthersStay DEF IInv, OrderIInv, RunnerStep, Step, IngestStep
<1>1. pc[r] \in Holding
  BY DEF PublishBatch, Holding
<1>2. RunnerInv(r)'
  <2>1. /\ pc[r] = "load" /\ cur[r] \in Packages /\ batch[r] \in Nat /\ batch'[r] = batch[r] + 1
        /\ UNCHANGED <<cur, from, retrying, content, status, incoming, archive>>
        /\ pc'[r] = IF batch[r] + 1 = NumBatches THEN "archive" ELSE "load"
        /\ facts'[cur[r]] = facts[cur[r]] \cup {<<content[r], batch[r] + 1>>}
    BY DEF PublishBatch, Goto, IInv, OrderIInv, TypeOK
  <2>2. RunnerInv(r)
    BY DEF IInv, WorkInv
  <2>3. content[r] = "registered" /\ facts[cur[r]] = {"registered"} \X (1..batch[r])
    BY <2>1, <2>2 DEF RunnerInv, RowsInv
  <2>4. PICK b \in Nat : b = batch[r]
    BY <2>1
  <2>7. facts'[cur'[r]] = {"registered"} \X (1..batch'[r])
    BY <2>1, <2>3
  <2>8. pc'[r] = "archive" => facts'[cur'[r]] = {"registered"} \X Batches
    BY <2>1, <2>7 DEF Batches
  <2> QED BY <2>1, <2>2, <2>8 DEF RunnerInv, StatusInv, FileInv, RowsInv
<1>3. PackageInv'
  <2>1. UNCHANGED <<status, archive>> /\ \A p \in Packages : p # cur[r] => facts'[p] = facts[p]
    BY DEF PublishBatch
  <2>2. status[cur[r]] = "PROCESSING"
    BY DEF PublishBatch, IInv, WorkInv, RunnerInv, StatusInv
  <2> QED BY <2>1, <2>2 DEF IInv, WorkInv, PackageInv
<1>4. SuccessIsWhole'
  <2>1. UNCHANGED <<status, archive>> /\ \A p \in Packages : p # cur[r] => facts'[p] = facts[p]
    BY DEF PublishBatch
  <2>2. status[cur[r]] = "PROCESSING"
    BY DEF PublishBatch, IInv, WorkInv, RunnerInv, StatusInv
  <2> QED BY <2>1, <2>2 DEF IInv, WorkInv, SuccessIsWhole, Accepted
<1> QED BY <1>0, <1>1, <1>2, <1>3, <1>4, HolderKeeps DEF IInv, OrderIInv

\* What is archived is what was published.
LEMMA ArchiveWork ==
    ASSUME IInv, NEW r \in Runners, Archive(r)
    PROVE  WorkInv'
<1> USE DEF choiceVars, workVars, fileVars, boundVars
<1>0. \A s \in Runners : s # r => Stays(s)
  BY OthersStay DEF IInv, OrderIInv, RunnerStep, Step, IngestStep
<1>a. UNCHANGED <<status, facts>> /\ \A p \in Packages : p # cur[r] => archive'[p] = archive[p]
  BY DEF Archive, IInv, OrderIInv, TypeOK
<1>b. archive'[cur[r]] \subseteq {"registered"}
  <2>1. /\ cur[r] \in Packages /\ from[r] \in {"incoming", "archive"}
        /\ pc[r] = "archive" /\ RunnerInv(r) /\ archive[cur[r]] \subseteq {"registered"}
    BY DEF Archive, IInv, OrderIInv, TypeOK, WorkInv, PackageInv
  <2>2. from[r] = "incoming" => incoming[cur[r]] \in {"registered", "none"}
    BY <2>1 DEF RunnerInv, FileInv, RowsInv
  <2> QED BY <2>1, <2>2 DEF Archive, IInv, OrderIInv, TypeOK
<1>1. pc[r] \in Holding
  BY DEF Archive, Holding
<1>2. RunnerInv(r)'
  <2>1. /\ pc[r] = "archive" /\ UNCHANGED <<cur, from, content, status, facts>>
        /\ cur[r] \in Packages /\ from[r] \in {"incoming", "archive"}
    BY DEF Archive, IInv, OrderIInv, TypeOK
  <2>2. RunnerInv(r)
    BY DEF IInv, WorkInv
  <2>3. CASE pc'[r] = "accept"
    <3>1. "registered" \in archive'[cur[r]]
      BY <2>2, <2>3 DEF Archive, Goto, IInv, OrderIInv, TypeOK, RunnerInv, FileInv, RowsInv
    <3> QED BY <2>1, <2>2, <2>3, <3>1 DEF RunnerInv, StatusInv, FileInv, RowsInv
  <2>4. CASE pc'[r] = "fail"
    BY <2>1, <2>2, <2>4 DEF RunnerInv, StatusInv, FileInv, RowsInv
  <2>5. pc'[r] \in {"accept", "fail"}
    BY DEF Archive, Goto, IInv, OrderIInv, TypeOK
  <2> QED BY <2>3, <2>4, <2>5
<1>3. PackageInv'
  <2> QED BY <1>a, <1>b DEF IInv, WorkInv, PackageInv
<1>4. SuccessIsWhole'
  <2>1. status[cur[r]] # "SUCCESS"
    BY DEF Archive, IInv, WorkInv, RunnerInv, StatusInv
  <2> QED BY <1>a, <2>1 DEF IInv, WorkInv, SuccessIsWhole, Accepted
<1> QED BY <1>0, <1>1, <1>2, <1>3, <1>4, HolderKeeps DEF IInv, OrderIInv

\* The accepted package has all its rows and its file.
LEMMA AcceptWork ==
    ASSUME IInv, NEW r \in Runners, Accept(r)
    PROVE  WorkInv'
<1> USE DEF choiceVars, workVars, fileVars, boundVars
<1>0. \A s \in Runners : s # r => Stays(s)
  BY OthersStay DEF IInv, OrderIInv, RunnerStep, Step, IngestStep
<1>1. pc[r] \in Holding
  BY DEF Accept, Holding
<1>2. RunnerInv(r)'
  <2>1. pc'[r] = "finish"
    BY DEF Accept, Goto, IInv, OrderIInv, TypeOK
  <2> QED BY <2>1 DEF RunnerInv, StatusInv, FileInv, RowsInv, Chosen
<1>3. PackageInv'
  BY DEF Accept, IInv, WorkInv, PackageInv
<1>4. SuccessIsWhole'
  <2>1. /\ cur[r] \in Packages /\ pc[r] = "accept" /\ RunnerInv(r) /\ UNCHANGED <<facts, archive>>
        /\ archive[cur[r]] \subseteq {"registered"}
        /\ \A p \in Packages : p # cur[r] => status'[p] = status[p]
    BY DEF Accept, IInv, OrderIInv, TypeOK, WorkInv, PackageInv
  <2>2. facts[cur[r]] = {"registered"} \X Batches /\ archive[cur[r]] = {"registered"}
    BY <2>1 DEF RunnerInv, FileInv, RowsInv
  <2> QED BY <2>1, <2>2 DEF IInv, WorkInv, SuccessIsWhole, Accepted
<1> QED BY <1>0, <1>1, <1>2, <1>3, <1>4, HolderKeeps DEF IInv, OrderIInv

\* The handler deletes the rows of a package that is not accepted.
LEMMA CleanUpWork ==
    ASSUME IInv, NEW r \in Runners, CleanUp(r)
    PROVE  WorkInv'
<1> USE DEF choiceVars, workVars, fileVars, boundVars
<1>0. \A s \in Runners : s # r => Stays(s)
  BY OthersStay DEF IInv, OrderIInv, RunnerStep, Step, IngestStep
<1>1. pc[r] \in Holding
  BY DEF CleanUp, Holding
<1>2. RunnerInv(r)'
  <2>1. pc[r] = "fail" /\ pc'[r] = "mark" /\ UNCHANGED <<cur, status>>
    BY DEF CleanUp, Goto, IInv, OrderIInv, TypeOK
  <2>2. StatusInv(r)
    BY DEF IInv, WorkInv, RunnerInv
  <2> QED BY <2>1, <2>2 DEF RunnerInv, StatusInv, FileInv, RowsInv, Chosen
<1>3. PackageInv'
  BY DEF CleanUp, IInv, WorkInv, PackageInv
<1>4. SuccessIsWhole'
  <2>1. status[cur[r]] # "SUCCESS"
    BY DEF CleanUp, IInv, WorkInv, RunnerInv, StatusInv, Chosen
  <2> QED BY <2>1 DEF CleanUp, IInv, WorkInv, SuccessIsWhole, Accepted
<1> QED BY <1>0, <1>1, <1>2, <1>3, <1>4, HolderKeeps DEF IInv, OrderIInv

\* The package that is marked FAILED is not accepted.
LEMMA MarkFailedWork ==
    ASSUME IInv, NEW r \in Runners, MarkFailed(r)
    PROVE  WorkInv'
<1> USE DEF choiceVars, workVars, fileVars, boundVars
<1>0. \A s \in Runners : s # r => Stays(s)
  BY OthersStay DEF IInv, OrderIInv, RunnerStep, Step, IngestStep
<1>1. pc[r] \in Holding
  BY DEF MarkFailed, Holding
<1>2. RunnerInv(r)'
  BY ReturnKeeps DEF MarkFailed, Return, IInv, OrderIInv
<1>3. PackageInv'
  <2>1. /\ UNCHANGED <<facts, archive>>
        /\ \A p \in Packages : status'[p] = status[p] \/ status'[p] = "FAILED"
    BY DEF MarkFailed
  <2> QED BY <2>1 DEF IInv, WorkInv, PackageInv
<1>4. SuccessIsWhole'
  <2>1. /\ UNCHANGED <<facts, archive>>
        /\ \A p \in Packages : status'[p] = status[p] \/ status'[p] = "FAILED"
    BY DEF MarkFailed
  <2> QED BY <2>1 DEF IInv, WorkInv, SuccessIsWhole, Accepted
<1> QED BY <1>0, <1>1, <1>2, <1>3, <1>4, HolderKeeps DEF IInv, OrderIInv

\* A change of incoming that spares what is parsed, or puts the registered bytes
\* there, or takes the file away, keeps the invariant.
LEMMA IncomingWork ==
    ASSUME IInv, RestUnchanged, UNCHANGED archive, NEW p \in Packages,
           NEW c \in {"registered", "other", "none"}, c = "other" => ~Parsed(p),
           incoming' = [incoming EXCEPT ![p] = c]
    PROVE  WorkInv'
<1> USE DEF RestUnchanged, choiceVars, workVars
<1>1. PackageInv' /\ SuccessIsWhole'
  BY DEF IInv, WorkInv, PackageInv, SuccessIsWhole, Accepted
<1>2. ASSUME NEW r \in Runners PROVE RunnerInv(r)'
  <2>1. RunnerInv(r)
    BY DEF IInv, WorkInv
  <2>2. StatusInv(r)' /\ RowsInv(r)'
    BY <2>1 DEF RunnerInv, StatusInv, RowsInv
  <2>3. FileInv(r)'
    <3> QED BY <2>1 DEF RunnerInv, FileInv, Parsed
  <2> QED BY <2>2, <2>3 DEF RunnerInv
<1> QED BY <1>1, <1>2 DEF WorkInv

\* Every step keeps the invariant, when nothing raises after the SUCCESS write.
LEMMA WorkStep == ASSUME ~LateErrors, IInv, Next PROVE WorkInv'
<1>1. ASSUME NEW r \in Runners, RunnerStep(r) PROVE WorkInv'
  BY <1>1, BeginWork, GateWork, ScanWork, LockWork, RecoverWork, PreflightWork, PlanWork,
     PauseWork, DiscoverWork, ChooseWork, NothingPendingWork, HashWork, BeginPackageWork,
     CheckPackageWork, PublishBatchWork, ArchiveWork, AcceptWork, FinishWork, CleanUpWork,
     MarkFailedWork, FaultWork, CrashWork DEF RunnerStep, Step, IngestStep
<1>2. ASSUME NEW p \in Packages, Arrive(p) \/ Restore(p) \/ Stage(p) PROVE WorkInv'
  BY <1>2, IncomingWork DEF Arrive, Restore, Stage
<1>3. ASSUME NEW p \in Packages, NEW c \in {"none", "other"}, Disturb(p, c) PROVE WorkInv'
  BY <1>3, IncomingWork DEF Disturb
<1> QED BY <1>1, <1>2, <1>3 DEF Next, RunnerStep, Files

\* The inductive invariant, when nothing raises after the SUCCESS write.
LEMMA WorkInvariant == ASSUME ~LateErrors PROVE Spec => []IInv
<1>1. Init => IInv
  <2> SUFFICES ASSUME Init PROVE WorkInv /\ OrderIInv
    BY DEF IInv
  <2>1. OrderIInv
    BY OrderInit
  <2>2. \A r \in Runners : RunnerInv(r)
    BY DEF Init, RunnerInv, StatusInv, FileInv, RowsInv, Chosen
  <2>3. PackageInv /\ SuccessIsWhole
    BY DEF Init, PackageInv, SuccessIsWhole, Accepted
  <2> QED BY <2>1, <2>2, <2>3 DEF WorkInv
<1>2. IInv /\ [Next]_vars => IInv'
  <2> SUFFICES ASSUME IInv, [Next]_vars PROVE WorkInv' /\ OrderIInv'
    BY DEF IInv
  <2>1. OrderIInv'
    BY OrderStays DEF IInv
  <2>2. CASE Next
    BY <2>1, <2>2, WorkStep
  <2>3. CASE UNCHANGED vars
    <3> USE DEF vars, fileVars, choiceVars, workVars
    <3>1. \A r \in Runners : RunnerInv(r)'
      BY <2>3 DEF IInv, WorkInv, RunnerInv, StatusInv, FileInv, RowsInv
    <3>2. PackageInv' /\ SuccessIsWhole'
      BY <2>3 DEF IInv, WorkInv, PackageInv, SuccessIsWhole, Accepted
    <3> QED BY <2>1, <3>1, <3>2 DEF WorkInv
  <2> QED BY <2>2, <2>3
<1> QED BY <1>1, <1>2, PTL DEF Spec

\* An accepted package has exactly the rows of the registered bytes, and the file
\* with these bytes is archived, provided that nothing raises between the SUCCESS
\* write and the return of ingest_us_package: attempts that stop half-way, files
\* that are replaced under the frozen preflight, scans beside the guard and dead
\* processes leave nothing else.
THEOREM AcceptedStaysWhole == ASSUME ~LateErrors PROVE Spec => []SuccessIsWhole
<1>1. IInv => SuccessIsWhole
  BY DEF IInv, WorkInv
<1> QED BY <1>1, WorkInvariant, PTL
=============================================================================
