------------------------ MODULE UsTargetCommitProofs ------------------------
(***************************************************************************)
(* Proofs about UsTargetCommit, for any plans, packages, tables, rows and  *)
(* any number of crashes, faults and merges: its types, that no INSERT is  *)
(* sent twice, that the staged copy lasts until the final one is           *)
(* committed, that a verified package is whole, and that the child         *)
(* implements the contract UsTargetChild.                                  *)
(***************************************************************************)
EXTENDS UsTargetCommit, TLAPS

\* Where a child is at work on the package cur.
Working == {"commit", "unstage", "ddl", "load", "staged", "resume", "tables", "insert",
            "confirm", "verify", "cleanup", "drop"}

\* A child works on a package that its plan has not completed, the bridge first.
ControlInv ==
    /\ holder = NoPlan <=> pc = "idle"
    /\ holder # NoPlan => cur \in {Bridge, PackageOf[holder]}
    /\ pc \in Working =>
          /\ pkg[holder][cur] # "COMPLETE"
          /\ cur # Bridge => pkg[holder][Bridge] = "COMPLETE"
    /\ pc \in {"cleanup", "drop"} => pkg[holder][cur] # "PENDING"
    /\ pc \in {"insert", "confirm"} => tbl \in Tables

\* What the journal of the package says at each place of the child.
PlaceInv ==
    /\ pc \in {"unstage", "ddl", "load", "staged"} => canary[cur] = "STAGING"
    /\ pc \in {"resume", "tables", "insert", "confirm"} =>
          canary[cur] \in {"STAGED", "COMMITTING"}
    /\ pc \in {"verify", "cleanup", "drop"} => canary[cur] = "COMPLETE"
    /\ pc \in {"insert", "confirm"} => commit[cur][tbl] = "INSERT_STARTED"
    /\ pc = "insert" => issued[cur][tbl] = 0

\* The rows of a table: none before the INSERT is sent, never more than it has,
\* all of them when the journal calls it COMMITTED.
TableInv(p, t) ==
    /\ issued[p][t] \in {0, 1}
    /\ commit[p][t] = "PENDING" => issued[p][t] = 0
    /\ issued[p][t] = 0 => final[p][t] = 0 /\ flying[p][t] = 0 /\ merged[p][t] = 0
    /\ final[p][t] + flying[p][t] + merged[p][t] <= Rows[p][t]
    /\ commit[p][t] = "COMMITTED" =>
          flying[p][t] = 0 /\ final[p][t] + merged[p][t] = Rows[p][t]

ServerInv == \A p \in Packages, t \in Tables : TableInv(p, t)

\* What the journal of a package says about its tables and its staging.
JournalInv ==
    \A p \in Packages :
        /\ canary[p] \in {"NONE", "PREPARED", "STAGING"} =>
              \A t \in Tables : commit[p][t] = "PENDING"
        /\ canary[p] \in {"STAGED", "COMMITTING"} => StageComplete(p)
        /\ canary[p] = "COMPLETE" => \A t \in Tables : commit[p][t] = "COMMITTED"

\* What the journal of a plan says about its packages.
PlanInv ==
    \A q \in Plans :
        /\ \A p \in Packages :
              /\ pkg[q][p] # "PENDING" => canary[p] = "COMPLETE"
              /\ pkg[q][p] = "COMPLETE" => NoStage(p)
        /\ bulk[q] = "COMPLETE" => Unfinished(q) = {}
        /\ q = holder /\ pc # "open" => bulk[q] # "NONE"

IInv == TypeOK /\ ControlInv /\ PlaceInv /\ ServerInv /\ JournalInv /\ PlanInv

----------------------------------------------------------------------------
\* TypeOK in four parts.
ChildTypes ==
    /\ holder \in Plans \cup {NoPlan}
    /\ pc \in Pcs /\ cur \in Packages /\ tbl \in 1..(NumTables + 1)

JournalTypes ==
    /\ bulk \in [Plans -> {"NONE", "PREPARED", "RUNNING", "BLOCKED", "COMPLETE"}]
    /\ pkg \in [Plans -> [Packages -> {"PENDING", "FINAL_VERIFIED", "COMPLETE"}]]
    /\ canary \in [Packages -> {"NONE", "PREPARED", "STAGING", "STAGED", "COMMITTING",
                                "COMPLETE"}]
    /\ commit \in [Packages -> [Tables -> {"PENDING", "INSERT_STARTED", "COMMITTED"}]]

ServerTypes ==
    /\ stage \in [Packages -> [Tables -> {"none", "created", "full"}]]
    /\ final \in [Packages -> [Tables -> Nat]]
    /\ flying \in [Packages -> [Tables -> Nat]]
    /\ merged \in [Packages -> [Tables -> Nat]]
    /\ issued \in [Packages -> [Tables -> Nat]]

BoundTypes == crashes \in 0..MaxCrashes /\ faults \in 0..MaxFaults

\* TypeOK is its four parts.
LEMMA TypeParts == TypeOK <=> ChildTypes /\ JournalTypes /\ ServerTypes /\ BoundTypes
  BY DEF TypeOK, ChildTypes, JournalTypes, ServerTypes, BoundTypes

\* The packages of a plan, the tables and their rows.
LEMMA ConstantFacts ==
    /\ NoPlan \notin Plans
    /\ Bridge \in Packages
    /\ \A q \in Plans : PackageOf[q] \in Packages /\ PackageOf[q] # Bridge
    /\ 1 \in 1..(NumTables + 1)
    /\ \A t \in Tables : t \in 1..(NumTables + 1) /\ t + 1 \in 1..(NumTables + 1)
    /\ \A p \in Packages, t \in Tables : Rows[p][t] \in Nat
  BY CommitConstants DEF Packages, Tables

\* The rows of the tables depend on the server and the table status alone.
LEMMA ServerFrame == ASSUME ServerInv, UNCHANGED <<commit, serverVars>> PROVE ServerInv'
  BY DEF ServerInv, TableInv, serverVars

\* A step that touches one table keeps what holds of the others.
LEMMA ServerOne ==
    ASSUME ServerInv, NEW p \in Packages, NEW t \in Tables, TableInv(p, t)',
           \A x \in Packages, y \in Tables : <<x, y>> # <<p, t>> =>
             UNCHANGED <<commit[x][y], final[x][y], flying[x][y], merged[x][y], issued[x][y]>>
    PROVE  ServerInv'
<1> SUFFICES ASSUME NEW x \in Packages, NEW y \in Tables, <<x, y>> # <<p, t>>
             PROVE  TableInv(x, y)'
  BY DEF ServerInv
<1> QED BY DEF ServerInv, TableInv

\* What package journals say depends on them and on the staging alone.
LEMMA JournalFrame == ASSUME JournalInv, UNCHANGED <<canary, commit, stage>> PROVE JournalInv'
  BY DEF JournalInv, StageComplete

\* A child begins with the journal of its plan; it has chosen no package yet.
LEMMA LaunchStep == ASSUME IInv, NEW q \in Plans, Launch(q) PROVE IInv'
<1> USE ConstantFacts DEF IInv, Launch, childVars, journalVars, serverVars, boundVars
<1>1. TypeOK'
  BY DEF TypeOK, Pcs
<1>2. ControlInv'
  BY DEF ControlInv, Working
<1>3. PlaceInv'
  BY DEF PlaceInv
<1>4. ServerInv'
  BY ServerFrame
<1>5. JournalInv'
  BY JournalFrame
<1>6. PlanInv'
  BY DEF PlanInv, Unfinished, NoStage
<1> QED BY <1>1, <1>2, <1>3, <1>4, <1>5, <1>6

\* The plan has a journal from here on.
LEMMA OpenJournalStep == ASSUME IInv, OpenJournal PROVE IInv'
<1> USE ConstantFacts DEF IInv, OpenJournal, At, Goto, childVars, journalVars, serverVars, boundVars
<1>0. ChildTypes /\ JournalTypes /\ ServerTypes /\ BoundTypes
  BY TypeParts
<1>1. TypeOK'
  BY DEF TypeOK, Pcs
<1>2. ControlInv'
  BY DEF ControlInv, Working
<1>3. PlaceInv'
  BY DEF PlaceInv
<1>4. ServerInv'
  BY ServerFrame
<1>5. JournalInv'
  BY JournalFrame
<1>6. PlanInv'
  BY <1>0 DEF JournalTypes, PlanInv, Unfinished, NoStage
<1> QED BY <1>1, <1>2, <1>3, <1>4, <1>5, <1>6

\* A blocked plan runs again, a complete one stays complete.
LEMMA MarkRunningStep == ASSUME IInv, MarkRunning PROVE IInv'
<1> USE ConstantFacts DEF IInv, MarkRunning, At, Goto, childVars, journalVars, serverVars, boundVars
<1>1. TypeOK'
  BY DEF TypeOK, Pcs
<1>2. ControlInv'
  BY DEF ControlInv, Working
<1>3. PlaceInv'
  BY DEF PlaceInv
<1>4. ServerInv'
  BY ServerFrame
<1>5. JournalInv'
  BY JournalFrame
<1>6. PlanInv'
  BY DEF PlanInv, Unfinished, NoStage
<1> QED BY <1>1, <1>2, <1>3, <1>4, <1>5, <1>6

\* The package chosen is unfinished, and the bridge comes first.
LEMMA NextPackageStep == ASSUME IInv, NextPackage PROVE IInv'
<1> USE ConstantFacts DEF IInv, NextPackage, At, Goto, Unfinished, childVars, journalVars, serverVars, boundVars
<1>0. ChildTypes /\ JournalTypes /\ ServerTypes /\ BoundTypes
  BY TypeParts
<1>1. TypeOK'
  BY DEF TypeOK, Pcs
<1>2. ControlInv'
  BY DEF ControlInv, Working
<1>3. PlaceInv'
  BY <1>0 DEF ChildTypes, PlaceInv, PlanInv
<1>4. ServerInv'
  BY ServerFrame
<1>5. JournalInv'
  BY JournalFrame
<1>6. PlanInv'
  BY DEF PlanInv, NoStage
<1> QED BY <1>1, <1>2, <1>3, <1>4, <1>5, <1>6

\* A package gets its journal.
LEMMA InitCanaryStep == ASSUME IInv, InitCanary PROVE IInv'
<1> USE ConstantFacts DEF IInv, InitCanary, At, childVars, journalVars, serverVars, boundVars
<1>1. TypeOK'
  BY DEF TypeOK
<1>2. ControlInv'
  BY DEF ControlInv
<1>3. PlaceInv'
  BY DEF PlaceInv
<1>4. ServerInv'
  BY ServerFrame
<1>5. JournalInv'
  BY DEF JournalInv, StageComplete
<1>6. PlanInv'
  BY DEF PlanInv, Unfinished, NoStage
<1> QED BY <1>1, <1>2, <1>3, <1>4, <1>5, <1>6

\* A complete journal is verified again.
LEMMA AdoptCompleteStep == ASSUME IInv, AdoptComplete PROVE IInv'
<1> USE ConstantFacts DEF IInv, AdoptComplete, At, Goto, childVars, journalVars, serverVars, boundVars
<1>1. TypeOK'
  BY DEF TypeOK, Pcs
<1>2. ControlInv'
  BY DEF ControlInv, Working
<1>3. PlaceInv'
  BY DEF PlaceInv
<1>4. ServerInv'
  BY ServerFrame
<1>5. JournalInv'
  BY JournalFrame
<1>6. PlanInv'
  BY DEF PlanInv, Unfinished, NoStage
<1> QED BY <1>1, <1>2, <1>3, <1>4, <1>5, <1>6

\* An interrupted staging is dropped before anything was sent.
LEMMA RecoverStagingStep == ASSUME IInv, RecoverStaging PROVE IInv'
<1> USE ConstantFacts DEF IInv, RecoverStaging, At, Goto, childVars, journalVars, serverVars, boundVars
<1>1. TypeOK'
  BY DEF TypeOK, Pcs
<1>2. ControlInv'
  BY DEF ControlInv, Working
<1>3. PlaceInv'
  BY DEF PlaceInv
<1>4. ServerInv'
  BY ServerFrame
<1>5. JournalInv'
  BY JournalFrame
<1>6. PlanInv'
  BY DEF PlanInv, Unfinished, NoStage
<1> QED BY <1>1, <1>2, <1>3, <1>4, <1>5, <1>6

\* A staging table of an interrupted staging is dropped.
LEMMA DropInterruptedStep == ASSUME IInv, DropInterrupted PROVE IInv'
<1> USE ConstantFacts DEF IInv, DropInterrupted, DropStageTable, At, childVars, journalVars, serverVars, boundVars
<1>1. TypeOK'
  BY DEF TypeOK
<1>2. ControlInv'
  BY DEF ControlInv
<1>3. PlaceInv'
  BY DEF PlaceInv
<1>4. ServerInv'
  BY ServerFrame
<1>5. JournalInv'
  BY DEF JournalInv, StageComplete, PlaceInv
<1>6. PlanInv'
  BY DEF PlanInv, Unfinished, NoStage
<1> QED BY <1>1, <1>2, <1>3, <1>4, <1>5, <1>6

\* The package may be staged again.
LEMMA ResetStagingStep == ASSUME IInv, ResetStaging PROVE IInv'
<1> USE ConstantFacts DEF IInv, ResetStaging, At, Goto, childVars, journalVars, serverVars, boundVars
<1>1. TypeOK'
  BY DEF TypeOK, Pcs
<1>2. ControlInv'
  BY DEF ControlInv, Working
<1>3. PlaceInv'
  BY DEF PlaceInv
<1>4. ServerInv'
  BY ServerFrame
<1>5. JournalInv'
  BY DEF JournalInv, StageComplete, PlaceInv
<1>6. PlanInv'
  BY DEF PlanInv, Unfinished, NoStage, PlaceInv
<1> QED BY <1>1, <1>2, <1>3, <1>4, <1>5, <1>6

\* Staging begins with no table and no row.
LEMMA StartStagingStep == ASSUME IInv, StartStaging PROVE IInv'
<1> USE ConstantFacts DEF IInv, StartStaging, At, Goto, childVars, journalVars, serverVars, boundVars
<1>0. ChildTypes /\ JournalTypes /\ ServerTypes /\ BoundTypes
  BY TypeParts
<1>1. TypeOK'
  BY DEF TypeOK, Pcs
<1>2. ControlInv'
  BY DEF ControlInv, Working
<1>3. PlaceInv'
  BY <1>0 DEF ChildTypes, JournalTypes, PlaceInv
<1>4. ServerInv'
  BY ServerFrame
<1>5. JournalInv'
  BY DEF JournalInv, StageComplete
<1>6. PlanInv'
  BY DEF PlanInv, Unfinished, NoStage
<1> QED BY <1>1, <1>2, <1>3, <1>4, <1>5, <1>6

\* The staging tables are created.
LEMMA CreateStageStep == ASSUME IInv, CreateStage PROVE IInv'
<1> USE ConstantFacts DEF IInv, CreateStage, At, Goto, childVars, journalVars, serverVars, boundVars
<1>1. TypeOK'
  BY DEF TypeOK, Pcs
<1>2. ControlInv'
  BY DEF ControlInv, Working
<1>3. PlaceInv'
  BY DEF PlaceInv
<1>4. ServerInv'
  BY ServerFrame
<1>5. JournalInv'
  BY DEF JournalInv, StageComplete, PlaceInv
<1>6. PlanInv'
  BY DEF PlanInv, Unfinished, NoStage, PlaceInv
<1> QED BY <1>1, <1>2, <1>3, <1>4, <1>5, <1>6

\* The staging tables are loaded.
LEMMA LoadStageStep == ASSUME IInv, LoadStage PROVE IInv'
<1> USE ConstantFacts DEF IInv, LoadStage, At, Goto, childVars, journalVars, serverVars, boundVars
<1>1. TypeOK'
  BY DEF TypeOK, Pcs
<1>2. ControlInv'
  BY DEF ControlInv, Working
<1>3. PlaceInv'
  BY DEF PlaceInv
<1>4. ServerInv'
  BY ServerFrame
<1>5. JournalInv'
  BY DEF JournalInv, StageComplete
<1>6. PlanInv'
  BY DEF PlanInv, Unfinished, NoStage, PlaceInv
<1> QED BY <1>1, <1>2, <1>3, <1>4, <1>5, <1>6

\* The journal calls the package STAGED when its tables are full.
LEMMA MarkStagedStep == ASSUME IInv, MarkStaged PROVE IInv'
<1> USE ConstantFacts DEF IInv, MarkStaged, At, Goto, childVars, journalVars, serverVars, boundVars
<1>0. ChildTypes /\ JournalTypes /\ ServerTypes /\ BoundTypes
  BY TypeParts
<1>1. TypeOK'
  BY DEF TypeOK, Pcs
<1>2. ControlInv'
  BY DEF ControlInv, Working
<1>3. PlaceInv'
  BY <1>0 DEF ChildTypes, JournalTypes, PlaceInv
<1>4. ServerInv'
  BY ServerFrame
<1>5. JournalInv'
  BY DEF JournalInv, StageComplete
<1>6. PlanInv'
  BY DEF PlanInv, Unfinished, NoStage, PlaceInv
<1> QED BY <1>1, <1>2, <1>3, <1>4, <1>5, <1>6

\* A commit is resumed.
LEMMA ResumeCommitStep == ASSUME IInv, ResumeCommit PROVE IInv'
<1> USE ConstantFacts DEF IInv, ResumeCommit, At, Goto, childVars, journalVars, serverVars, boundVars
<1>1. TypeOK'
  BY DEF TypeOK, Pcs
<1>2. ControlInv'
  BY DEF ControlInv, Working
<1>3. PlaceInv'
  BY DEF PlaceInv
<1>4. ServerInv'
  BY ServerFrame
<1>5. JournalInv'
  BY JournalFrame
<1>6. PlanInv'
  BY DEF PlanInv, Unfinished, NoStage
<1> QED BY <1>1, <1>2, <1>3, <1>4, <1>5, <1>6

\* The stage is counted again.
LEMMA VerifyStageStep == ASSUME IInv, VerifyStage PROVE IInv'
<1> USE ConstantFacts DEF IInv, VerifyStage, At, childVars, journalVars, serverVars, boundVars
<1>1. TypeOK'
  BY DEF TypeOK, Pcs
<1>2. ControlInv'
  BY DEF ControlInv, Working
<1>3. PlaceInv'
  BY DEF PlaceInv
<1>4. ServerInv'
  BY ServerFrame
<1>5. JournalInv'
  BY JournalFrame
<1>6. PlanInv'
  BY DEF PlanInv, Unfinished, NoStage
<1> QED BY <1>1, <1>2, <1>3, <1>4, <1>5, <1>6

\* A committed table is passed.
LEMMA TableDoneStep == ASSUME IInv, TableDone PROVE IInv'
<1> USE ConstantFacts DEF IInv, TableDone, NextTable, At, childVars, journalVars, serverVars, boundVars
<1>1. TypeOK'
  BY DEF TypeOK
<1>2. ControlInv'
  BY DEF ControlInv
<1>3. PlaceInv'
  BY DEF PlaceInv
<1>4. ServerInv'
  BY ServerFrame
<1>5. JournalInv'
  BY JournalFrame
<1>6. PlanInv'
  BY DEF PlanInv, Unfinished, NoStage
<1> QED BY <1>1, <1>2, <1>3, <1>4, <1>5, <1>6

\* A table that has all of its rows has no statement running.
LEMMA TableAdoptedStep == ASSUME IInv, TableAdopted PROVE IInv'
<1> USE ConstantFacts DEF IInv, TableAdopted, Committed, NextTable, At, Full, childVars, journalVars, serverVars, boundVars
<1>0. ChildTypes /\ JournalTypes /\ ServerTypes /\ BoundTypes
  BY TypeParts
<1>1. TypeOK'
  BY DEF TypeOK
<1>2. ControlInv'
  BY DEF ControlInv
<1>3. PlaceInv'
  BY DEF PlaceInv
<1>4. ServerInv'
  <2>0. PICK p \in Packages, t \in Tables : p = cur /\ t = tbl
    BY <1>0 DEF ChildTypes
  <2>1. \A x \in Packages, y \in Tables : <<x, y>> # <<p, t>> =>
           UNCHANGED <<commit[x][y], final[x][y], flying[x][y], merged[x][y], issued[x][y]>>
    BY <2>0
  <2>3. TableInv(p, t) /\ final[p][t] = Rows[p][t]
    BY <2>0 DEF ServerInv
  <2>4. {final[p][t], flying[p][t], merged[p][t], Rows[p][t]} \subseteq Nat
    BY <1>0 DEF ServerTypes
  <2>5. TableInv(p, t)'
    BY <2>3, <2>4 DEF TableInv
  <2> QED BY <2>1, <2>5, ServerOne
<1>5. JournalInv'
  BY DEF JournalInv, StageComplete, PlaceInv
<1>6. PlanInv'
  BY DEF PlanInv, Unfinished, NoStage, PlaceInv
<1> QED BY <1>1, <1>2, <1>3, <1>4, <1>5, <1>6

\* The journal says INSERT_STARTED before anything is sent.
LEMMA TableStartedStep == ASSUME IInv, TableStarted PROVE IInv'
<1> USE ConstantFacts DEF IInv, TableStarted, At, Goto, childVars, journalVars, serverVars, boundVars
<1>0. ChildTypes /\ JournalTypes /\ ServerTypes /\ BoundTypes
  BY TypeParts
<1>1. TypeOK'
  BY DEF TypeOK, Pcs
<1>2. ControlInv'
  BY DEF ControlInv, Working
<1>3. PlaceInv'
  BY <1>0 DEF ChildTypes, JournalTypes, PlaceInv, ServerInv, TableInv
<1>4. ServerInv'
  <2>0. PICK p \in Packages, t \in Tables : p = cur /\ t = tbl
    BY <1>0 DEF ChildTypes
  <2>1. \A x \in Packages, y \in Tables : <<x, y>> # <<p, t>> =>
           UNCHANGED <<commit[x][y], final[x][y], flying[x][y], merged[x][y], issued[x][y]>>
    BY <2>0
  <2>3. TableInv(p, t) /\ commit[p][t] = "PENDING"
    BY <2>0 DEF ServerInv
  <2>5. TableInv(p, t)'
    BY <2>3 DEF TableInv
  <2> QED BY <2>1, <2>5, ServerOne
<1>5. JournalInv'
  BY DEF JournalInv, StageComplete, PlaceInv
<1>6. PlanInv'
  BY DEF PlanInv, Unfinished, NoStage, PlaceInv
<1> QED BY <1>1, <1>2, <1>3, <1>4, <1>5, <1>6

\* The only INSERT of a table is sent.
LEMMA SendInsertStep == ASSUME IInv, SendInsert PROVE IInv'
<1> USE ConstantFacts DEF IInv, SendInsert, At, Goto, childVars, journalVars, serverVars, boundVars
<1>0. ChildTypes /\ JournalTypes /\ ServerTypes /\ BoundTypes
  BY TypeParts
<1>1. TypeOK'
  <2>1. ChildTypes' BY <1>0 DEF ChildTypes, Pcs
  <2>3. ServerTypes' BY <1>0 DEF ServerTypes, ChildTypes, ControlInv
  <2> QED BY <2>1, <2>3 DEF TypeOK, ChildTypes, ServerTypes
<1>2. ControlInv'
  BY DEF ControlInv, Working
<1>3. PlaceInv'
  BY DEF PlaceInv
<1>4. ServerInv'
  <2>0. PICK p \in Packages, t \in Tables : p = cur /\ t = tbl
    BY <1>0 DEF ChildTypes, ControlInv
  <2>1. \A x \in Packages, y \in Tables : <<x, y>> # <<p, t>> =>
           UNCHANGED <<commit[x][y], final[x][y], flying[x][y], merged[x][y], issued[x][y]>>
    BY <2>0
  <2>2. /\ commit'[p][t] = commit[p][t]
        /\ final'[p][t] = final[p][t]
        /\ flying'[p][t] = flying[p][t] + Rows[p][t]
        /\ merged'[p][t] = merged[p][t]
        /\ issued'[p][t] = issued[p][t] + 1
    BY <2>0, <1>0 DEF ServerTypes
  <2>3. TableInv(p, t) /\ commit[p][t] = "INSERT_STARTED" /\ issued[p][t] = 0
    BY <2>0 DEF ServerInv, PlaceInv
  <2>5. TableInv(p, t)'
    BY <2>2, <2>3 DEF TableInv
  <2> QED BY <2>1, <2>5, ServerOne
<1>5. JournalInv'
  BY JournalFrame
<1>6. PlanInv'
  BY DEF PlanInv, Unfinished, NoStage
<1> QED BY <1>1, <1>2, <1>3, <1>4, <1>5, <1>6

\* A statement that has ended with all rows is COMMITTED.
LEMMA ConfirmInsertStep == ASSUME IInv, ConfirmInsert PROVE IInv'
<1> USE ConstantFacts DEF IInv, ConfirmInsert, Committed, NextTable, At, Full, childVars, journalVars, serverVars, boundVars
<1>0. ChildTypes /\ JournalTypes /\ ServerTypes /\ BoundTypes
  BY TypeParts
<1>1. TypeOK'
  <2>1. ChildTypes' BY <1>0 DEF ChildTypes, Pcs, ControlInv
  <2> QED BY <2>1 DEF TypeOK, ChildTypes
<1>2. ControlInv'
  BY DEF ControlInv, Working
<1>3. PlaceInv'
  BY DEF PlaceInv
<1>4. ServerInv'
  <2>0. PICK p \in Packages, t \in Tables : p = cur /\ t = tbl
    BY <1>0 DEF ChildTypes, ControlInv
  <2>1. \A x \in Packages, y \in Tables : <<x, y>> # <<p, t>> =>
           UNCHANGED <<commit[x][y], final[x][y], flying[x][y], merged[x][y], issued[x][y]>>
    BY <2>0
  <2>3. TableInv(p, t) /\ final[p][t] = Rows[p][t]
    BY <2>0 DEF ServerInv
  <2>4. {final[p][t], flying[p][t], merged[p][t], Rows[p][t]} \subseteq Nat
    BY <1>0 DEF ServerTypes
  <2>5. TableInv(p, t)'
    BY <2>3, <2>4 DEF TableInv
  <2> QED BY <2>1, <2>5, ServerOne
<1>5. JournalInv'
  BY DEF JournalInv, StageComplete, PlaceInv
<1>6. PlanInv'
  BY DEF PlanInv, Unfinished, NoStage, PlaceInv
<1> QED BY <1>1, <1>2, <1>3, <1>4, <1>5, <1>6

\* The package is complete when all its tables are.
LEMMA MarkCanaryCompleteStep == ASSUME IInv, MarkCanaryComplete PROVE IInv'
<1> USE ConstantFacts DEF IInv, MarkCanaryComplete, At, Goto, childVars, journalVars, serverVars, boundVars
<1>0. ChildTypes /\ JournalTypes /\ ServerTypes /\ BoundTypes
  BY TypeParts
<1>1. TypeOK'
  BY DEF TypeOK, Pcs
<1>2. ControlInv'
  BY DEF ControlInv, Working
<1>3. PlaceInv'
  BY <1>0 DEF ChildTypes, JournalTypes, PlaceInv
<1>4. ServerInv'
  BY ServerFrame
<1>5. JournalInv'
  BY DEF JournalInv, StageComplete
<1>6. PlanInv'
  BY DEF PlanInv, Unfinished, NoStage
<1> QED BY <1>1, <1>2, <1>3, <1>4, <1>5, <1>6

\* The plan calls the package verified.
LEMMA MarkVerifiedStep == ASSUME IInv, MarkVerified PROVE IInv'
<1> USE ConstantFacts DEF IInv, MarkVerified, CanaryVerified, At, Goto, childVars, journalVars, serverVars, boundVars
<1>0. ChildTypes /\ JournalTypes /\ ServerTypes /\ BoundTypes
  BY TypeParts
<1>1. TypeOK'
  BY DEF TypeOK, Pcs
<1>2. ControlInv'
  BY <1>0 DEF ChildTypes, JournalTypes, ControlInv, Working
<1>3. PlaceInv'
  BY DEF PlaceInv
<1>4. ServerInv'
  BY ServerFrame
<1>5. JournalInv'
  BY JournalFrame
<1>6. PlanInv'
  BY <1>0 DEF JournalTypes, PlanInv, Unfinished, NoStage
<1> QED BY <1>1, <1>2, <1>3, <1>4, <1>5, <1>6

\* The package is verified once more.
LEMMA VerifyBeforeDropStep == ASSUME IInv, VerifyBeforeDrop PROVE IInv'
<1> USE ConstantFacts DEF IInv, VerifyBeforeDrop, At, Goto, childVars, journalVars, serverVars, boundVars
<1>1. TypeOK'
  BY DEF TypeOK, Pcs
<1>2. ControlInv'
  BY DEF ControlInv, Working
<1>3. PlaceInv'
  BY DEF PlaceInv
<1>4. ServerInv'
  BY ServerFrame
<1>5. JournalInv'
  BY JournalFrame
<1>6. PlanInv'
  BY DEF PlanInv, Unfinished, NoStage
<1> QED BY <1>1, <1>2, <1>3, <1>4, <1>5, <1>6

\* A staging table of a verified package is dropped.
LEMMA DropStagedStep == ASSUME IInv, DropStaged PROVE IInv'
<1> USE ConstantFacts DEF IInv, DropStaged, DropStageTable, At, childVars, journalVars, serverVars, boundVars
<1>1. TypeOK'
  BY DEF TypeOK
<1>2. ControlInv'
  BY DEF ControlInv
<1>3. PlaceInv'
  BY DEF PlaceInv
<1>4. ServerInv'
  BY ServerFrame
<1>5. JournalInv'
  BY DEF JournalInv, StageComplete, PlaceInv
<1>6. PlanInv'
  BY DEF PlanInv, Unfinished, NoStage
<1> QED BY <1>1, <1>2, <1>3, <1>4, <1>5, <1>6

\* The last package completes the plan.
LEMMA MarkCompleteStep == ASSUME IInv, MarkComplete PROVE IInv'
<1> USE ConstantFacts DEF IInv, MarkComplete, At, Goto, Unfinished, childVars, journalVars, serverVars, boundVars
<1>0. ChildTypes /\ JournalTypes /\ ServerTypes /\ BoundTypes
  BY TypeParts
<1>1. TypeOK'
  BY DEF TypeOK, Pcs
<1>2. ControlInv'
  BY DEF ControlInv, Working
<1>3. PlaceInv'
  BY DEF PlaceInv
<1>4. ServerInv'
  BY ServerFrame
<1>5. JournalInv'
  BY JournalFrame
<1>6. PlanInv'
  BY <1>0 DEF JournalTypes, PlanInv, NoStage, ControlInv
<1> QED BY <1>1, <1>2, <1>3, <1>4, <1>5, <1>6

\* The audit changes nothing.
LEMMA AuditStep == ASSUME IInv, Audit PROVE IInv'
<1> USE ConstantFacts DEF IInv, Audit, At, Exits, childVars, journalVars, serverVars, boundVars
<1>1. TypeOK'
  BY DEF TypeOK, Pcs
<1>2. ControlInv'
  BY DEF ControlInv, Working
<1>3. PlaceInv'
  BY DEF PlaceInv
<1>4. ServerInv'
  BY ServerFrame
<1>5. JournalInv'
  BY JournalFrame
<1>6. PlanInv'
  BY DEF PlanInv, Unfinished, NoStage
<1> QED BY <1>1, <1>2, <1>3, <1>4, <1>5, <1>6

\* A check that fails blocks the plan.
LEMMA RefuseStep == ASSUME IInv, Refuse PROVE IInv'
<1> USE ConstantFacts DEF IInv, Refuse, Refused, Raise, Exits, childVars, journalVars, serverVars, boundVars
<1>1. TypeOK'
  BY DEF TypeOK, Pcs
<1>2. ControlInv'
  BY DEF ControlInv, Working
<1>3. PlaceInv'
  BY DEF PlaceInv
<1>4. ServerInv'
  BY ServerFrame
<1>5. JournalInv'
  BY JournalFrame
<1>6. PlanInv'
  BY DEF PlanInv, Unfinished, NoStage
<1> QED BY <1>1, <1>2, <1>3, <1>4, <1>5, <1>6

\* A failing call blocks the plan.
LEMMA FaultStep == ASSUME IInv, Fault PROVE IInv'
<1> USE ConstantFacts DEF IInv, Fault, Raise, Exits, childVars, journalVars, serverVars, boundVars
<1>1. TypeOK'
  BY CommitConstants DEF TypeOK, Pcs
<1>2. ControlInv'
  BY DEF ControlInv, Working
<1>3. PlaceInv'
  BY DEF PlaceInv
<1>4. ServerInv'
  BY ServerFrame
<1>5. JournalInv'
  BY JournalFrame
<1>6. PlanInv'
  BY DEF PlanInv, Unfinished, NoStage
<1> QED BY <1>1, <1>2, <1>3, <1>4, <1>5, <1>6

\* A child that fails to open its journal changes nothing.
LEMMA OpenFaultStep == ASSUME IInv, OpenFault PROVE IInv'
<1> USE ConstantFacts DEF IInv, OpenFault, At, Exits, childVars, journalVars, serverVars, boundVars
<1>1. TypeOK'
  BY CommitConstants DEF TypeOK, Pcs
<1>2. ControlInv'
  BY DEF ControlInv, Working
<1>3. PlaceInv'
  BY DEF PlaceInv
<1>4. ServerInv'
  BY ServerFrame
<1>5. JournalInv'
  BY JournalFrame
<1>6. PlanInv'
  BY DEF PlanInv, Unfinished, NoStage
<1> QED BY <1>1, <1>2, <1>3, <1>4, <1>5, <1>6

\* A death changes nothing but the lock.
LEMMA CrashStep == ASSUME IInv, Crash PROVE IInv'
<1> USE ConstantFacts DEF IInv, Crash, Exits, childVars, journalVars, serverVars, boundVars
<1>1. TypeOK'
  BY CommitConstants DEF TypeOK, Pcs
<1>2. ControlInv'
  BY DEF ControlInv, Working
<1>3. PlaceInv'
  BY DEF PlaceInv
<1>4. ServerInv'
  BY ServerFrame
<1>5. JournalInv'
  BY JournalFrame
<1>6. PlanInv'
  BY DEF PlanInv, Unfinished, NoStage
<1> QED BY <1>1, <1>2, <1>3, <1>4, <1>5, <1>6

\* A block becomes visible.
LEMMA ApplyBlockStep == ASSUME IInv, NEW p \in Packages, NEW t \in Tables, ApplyBlock(p, t) PROVE IInv'
<1> USE ConstantFacts DEF IInv, ApplyBlock, childVars, journalVars, serverVars, boundVars
<1>0. ChildTypes /\ JournalTypes /\ ServerTypes /\ BoundTypes
  BY TypeParts
<1>1. TypeOK'
  BY DEF TypeOK
<1>2. ControlInv'
  BY DEF ControlInv
<1>3. PlaceInv'
  BY DEF PlaceInv
<1>4. ServerInv'
  <2>2. /\ commit'[p][t] = commit[p][t]
        /\ final'[p][t] = final[p][t] + 1
        /\ flying'[p][t] = flying[p][t] - 1
        /\ merged'[p][t] = merged[p][t]
        /\ issued'[p][t] = issued[p][t]
    BY <1>0 DEF ServerTypes
  <2>3. TableInv(p, t) /\ flying[p][t] > 0
    BY DEF ServerInv
  <2>4. {final[p][t], flying[p][t], merged[p][t], Rows[p][t]} \subseteq Nat
    BY <1>0 DEF ServerTypes
  <2>5. TableInv(p, t)'
    BY <2>2, <2>3, <2>4 DEF TableInv
  <2> QED BY <2>5, ServerOne
<1>5. JournalInv'
  BY JournalFrame
<1>6. PlanInv'
  BY DEF PlanInv, Unfinished, NoStage
<1> QED BY <1>1, <1>2, <1>3, <1>4, <1>5, <1>6

\* A statement is given up.
LEMMA AbortInsertStep == ASSUME IInv, NEW p \in Packages, NEW t \in Tables, AbortInsert(p, t) PROVE IInv'
<1> USE ConstantFacts DEF IInv, AbortInsert, childVars, journalVars, serverVars, boundVars
<1>0. ChildTypes /\ JournalTypes /\ ServerTypes /\ BoundTypes
  BY TypeParts
<1>1. TypeOK'
  BY CommitConstants DEF TypeOK
<1>2. ControlInv'
  BY DEF ControlInv
<1>3. PlaceInv'
  BY DEF PlaceInv
<1>4. ServerInv'
  <2>3. TableInv(p, t) /\ flying[p][t] > 0
    BY DEF ServerInv
  <2>4. {final[p][t], flying[p][t], merged[p][t], Rows[p][t]} \subseteq Nat
    BY <1>0 DEF ServerTypes
  <2>5. TableInv(p, t)'
    BY <2>3, <2>4 DEF TableInv
  <2> QED BY <2>5, ServerOne
<1>5. JournalInv'
  BY JournalFrame
<1>6. PlanInv'
  BY DEF PlanInv, Unfinished, NoStage
<1> QED BY <1>1, <1>2, <1>3, <1>4, <1>5, <1>6

\* A merge removes a block.
LEMMA MergeStep == ASSUME IInv, NEW p \in Packages, NEW t \in Tables, Merge(p, t) PROVE IInv'
<1> USE ConstantFacts DEF IInv, Merge, childVars, journalVars, serverVars, boundVars
<1>0. ChildTypes /\ JournalTypes /\ ServerTypes /\ BoundTypes
  BY TypeParts
<1>1. TypeOK'
  BY DEF TypeOK
<1>2. ControlInv'
  BY DEF ControlInv
<1>3. PlaceInv'
  BY DEF PlaceInv
<1>4. ServerInv'
  <2>2. /\ commit'[p][t] = commit[p][t]
        /\ final'[p][t] = final[p][t] - 1
        /\ flying'[p][t] = flying[p][t]
        /\ merged'[p][t] = merged[p][t] + 1
        /\ issued'[p][t] = issued[p][t]
    BY <1>0 DEF ServerTypes
  <2>3. TableInv(p, t) /\ final[p][t] > 0
    BY DEF ServerInv
  <2>4. {final[p][t], flying[p][t], merged[p][t], Rows[p][t]} \subseteq Nat
    BY <1>0 DEF ServerTypes
  <2>5. TableInv(p, t)'
    BY <2>2, <2>3, <2>4 DEF TableInv
  <2> QED BY <2>5, ServerOne
<1>5. JournalInv'
  BY JournalFrame
<1>6. PlanInv'
  BY DEF PlanInv, Unfinished, NoStage
<1> QED BY <1>1, <1>2, <1>3, <1>4, <1>5, <1>6

----------------------------------------------------------------------------
\* The invariant holds before the first child.
LEMMA InitIInv == Init => IInv
<1> SUFFICES ASSUME Init PROVE IInv
  OBVIOUS
<1> USE CommitConstants, ConstantFacts DEF Init
<1>1. TypeOK
  BY DEF TypeOK, Pcs
<1>2. ControlInv /\ PlaceInv
  BY DEF ControlInv, PlaceInv, Working
<1>3. ServerInv
  BY DEF ServerInv, TableInv
<1>4. JournalInv /\ PlanInv
  BY DEF JournalInv, PlanInv
<1> QED BY <1>1, <1>2, <1>3, <1>4 DEF IInv

\* Every step keeps it.
LEMMA NextIInv == ASSUME IInv, [Next]_vars PROVE IInv'
<1>1. CASE UNCHANGED vars
  <2> USE <1>1 DEF vars, childVars, journalVars, serverVars, boundVars, IInv
  <2>1. TypeOK' BY DEF TypeOK
  <2>2. ControlInv' /\ PlaceInv' BY DEF ControlInv, PlaceInv
  <2>3. ServerInv' /\ JournalInv' BY ServerFrame, JournalFrame
  <2>4. PlanInv' BY DEF PlanInv, NoStage, Unfinished
  <2> QED BY <2>1, <2>2, <2>3, <2>4
<1>2. CASE Next
  <2>1. ASSUME NEW q \in Plans, Launch(q) PROVE IInv'
    BY <2>1, LaunchStep
  <2>2. CASE OpenJournal \/ MarkRunning \/ NextPackage
    BY <2>2, OpenJournalStep, MarkRunningStep, NextPackageStep
  <2>3. CASE Stage
    BY <2>3, InitCanaryStep, AdoptCompleteStep, RecoverStagingStep, DropInterruptedStep,
       ResetStagingStep, StartStagingStep, CreateStageStep, LoadStageStep, MarkStagedStep DEF Stage
  <2>4. CASE CommitTables
    BY <2>4, ResumeCommitStep, VerifyStageStep, TableDoneStep, TableAdoptedStep,
       TableStartedStep, SendInsertStep, ConfirmInsertStep, MarkCanaryCompleteStep DEF CommitTables
  <2>5. CASE Close
    BY <2>5, MarkVerifiedStep, VerifyBeforeDropStep, DropStagedStep, MarkCompleteStep, AuditStep
       DEF Close
  <2>6. CASE Refuse \/ Fault \/ OpenFault \/ Crash
    BY <2>6, RefuseStep, FaultStep, OpenFaultStep, CrashStep
  <2>7. ASSUME NEW p \in Packages, NEW t \in Tables,
               ApplyBlock(p, t) \/ AbortInsert(p, t) \/ Merge(p, t)
        PROVE  IInv'
    BY <2>7, ApplyBlockStep, AbortInsertStep, MergeStep
  <2> QED BY <1>2, <2>1, <2>2, <2>3, <2>4, <2>5, <2>6, <2>7 DEF Next, ChildStep
<1> QED BY <1>1, <1>2

\* The inductive invariant holds always.
LEMMA Inductive == Spec => []IInv
  BY InitIInv, NextIInv, PTL DEF Spec

\* The types of journals, staging, rows and bounds, for all plans and tables.
THEOREM CommitTypes == Spec => []TypeOK
<1>1. IInv => TypeOK
  BY DEF IInv
<1> QED BY <1>1, Inductive, PTL

\* No child sends the INSERT of a package into a table twice, for any number of
\* plans, crashes and resumes (commit_staged_tables).
THEOREM NoInsertRepeated == Spec => []InsertedOnce
<1>1. IInv => InsertedOnce
  BY DEF IInv, ServerInv, TableInv, InsertedOnce
<1> QED BY <1>1, Inductive, PTL

\* The staged copy is whole until the final one is committed
\* (_recover_interrupted_staging, cleanup_one_package).
THEOREM StagedCopyLasts == Spec => []StageUntilCommitted
<1>1. IInv => StageUntilCommitted
  BY DEF IInv, JournalInv, StageUntilCommitted
<1> QED BY <1>1, Inductive, PTL

\* A package that a plan calls verified had all of its rows, and no statement of
\* it is still running; a completed one has no staging left
\* (mark_package_final_verified, mark_package_complete).
THEOREM VerifiedIsWhole == Spec => []AcceptedIsWhole
<1>1. IInv => AcceptedIsWhole
  BY DEF IInv, ServerInv, TableInv, JournalInv, PlanInv, AcceptedIsWhole
<1> QED BY <1>1, Inductive, PTL

----------------------------------------------------------------------------
\* The refinement: every step of the child is a step of the contract or changes
\* nothing the contract sees.

\* The contract's variables under the mapping.
Begun == {p \in Packages : canary[p] # "NONE"}
Accepted == {p \in Packages : canary[p] = "COMPLETE"}
Journal == [q \in Plans |-> CASE bulk[q] = "NONE" -> "NONE"
                              [] bulk[q] = "COMPLETE" -> "COMPLETE"
                              [] OTHER -> "OPEN"]
Seen == <<holder, Begun, Accepted, Journal>>

\* The packages of the contract are those of the child.
LEMMA SamePackages == Contract!Packages = Packages /\ Contract!Bridge = Bridge
  BY DEF Contract!Packages, Contract!Bridge, Packages, Bridge

\* Steps that change no journal entry of a package are not seen in Begun and
\* Accepted.
LEMMA PackagesUnseen ==
    ASSUME TypeOK,
           \A p \in Packages : /\ canary'[p] = "NONE" <=> canary[p] = "NONE"
                               /\ canary'[p] = "COMPLETE" <=> canary[p] = "COMPLETE"
    PROVE  UNCHANGED <<Begun, Accepted>>
  BY DEF Begun, Accepted

\* Steps that neither create nor complete a plan's journal are not seen in it.
LEMMA PlansUnseen ==
    ASSUME TypeOK,
           \A q \in Plans : /\ bulk'[q] = "NONE" <=> bulk[q] = "NONE"
                            /\ bulk'[q] = "COMPLETE" <=> bulk[q] = "COMPLETE"
    PROVE  UNCHANGED Journal
  BY DEF Journal

\* A child that gives up or dies leaves the contract's lock.
LEMMA LeavesContract ==
    ASSUME holder \in Plans, holder' = NoPlan, UNCHANGED <<Begun, Accepted, Journal>>
    PROVE  Contract!Next
<1>1. Contract!Leave(holder)
  BY DEF Contract!Leave, Begun, Accepted, Journal
<1> QED BY <1>1 DEF Contract!Next

\* The contract's Open, Begin, Accept and Finish are steps of its Next.
LEMMA StepsOfContract ==
    ASSUME NEW q \in Plans, NEW p \in Packages,
           Contract!Open(q) \/ Contract!Begin(q, p) \/ Contract!Accept(q, p) \/ Contract!Finish(q)
    PROVE  Contract!Next
  BY SamePackages DEF Contract!Next, Contract!Step

\* The initial state is one of the contract.
LEMMA InitContract == Init => Contract!Init
  BY DEF Init, Contract!Init

\* Every step is a step of the contract or is not seen by it.
LEMMA StepContract == ASSUME IInv, Next PROVE Contract!Next \/ UNCHANGED Seen
<1> USE ConstantFacts
<1>0. TypeOK /\ ControlInv /\ PlaceInv /\ PlanInv
  BY DEF IInv
<1>1. ASSUME NEW q \in Plans, Launch(q) PROVE Contract!Next
  <2>1. holder = NoPlan /\ holder' = q /\ UNCHANGED <<Begun, Accepted, Journal>>
    BY <1>1 DEF Launch, journalVars, Begun, Accepted, Journal
  <2>2. Contract!Start(q)
    BY <2>1 DEF Contract!Start, Begun, Accepted, Journal
  <2> QED BY <2>2 DEF Contract!Next
<1>2. CASE OpenJournal
  <2>1. /\ holder \in Plans /\ bulk' = [bulk EXCEPT ![holder] = IF @ = "NONE" THEN "PREPARED" ELSE @]
        /\ UNCHANGED <<holder, canary>>
    BY <1>0, <1>2 DEF OpenJournal, At, TypeOK
  <2>2. UNCHANGED <<Begun, Accepted>>
    BY <2>1 DEF Begun, Accepted
  <2>3. CASE bulk[holder] = "NONE"
    <3>1. Journal[holder] = "NONE" /\ Journal' = [Journal EXCEPT ![holder] = "OPEN"]
      BY <1>0, <2>1, <2>3 DEF Journal, TypeOK
    <3>a. PICK q \in Plans, p \in Packages : q = holder /\ p = cur
      BY <1>0, <2>1 DEF TypeOK
    <3>2. Contract!Open(q)
      BY <3>a, <2>1, <3>1 DEF Contract!Open, Journal
    <3> QED BY <3>2, StepsOfContract
  <2>4. CASE bulk[holder] # "NONE"
    <3>1. UNCHANGED Journal
      BY <1>0, <2>1, <2>4, PlansUnseen
    <3> QED BY <2>1, <2>2, <3>1 DEF Seen
  <2> QED BY <2>3, <2>4
<1>3. CASE MarkRunning
  <2>1. /\ holder \in Plans /\ bulk[holder] # "NONE" /\ UNCHANGED <<holder, canary>>
        /\ bulk' = [bulk EXCEPT ![holder] = IF @ = "COMPLETE" THEN @ ELSE "RUNNING"]
    BY <1>0, <1>3 DEF MarkRunning, At, TypeOK, PlanInv
  <2>2. UNCHANGED Journal
    BY <1>0, <2>1, PlansUnseen
  <2> QED BY <2>1, <2>2 DEF Seen, Begun, Accepted
<1>4. CASE InitCanary
  <2>1. /\ holder \in Plans /\ cur \in Packages /\ cur \in {Bridge, PackageOf[holder]}
        /\ canary[cur] = "NONE" /\ canary' = [canary EXCEPT ![cur] = "PREPARED"]
        /\ bulk[holder] \notin {"NONE", "COMPLETE"}
        /\ cur # Bridge => canary[Bridge] = "COMPLETE"
        /\ UNCHANGED <<holder, bulk>>
    BY <1>0, <1>4 DEF InitCanary, At, TypeOK, ControlInv, PlanInv, Working, Unfinished
  <2>2. /\ Journal[holder] = "OPEN" /\ UNCHANGED Journal
        /\ cur \in Packages \ Begun /\ Begun' = Begun \cup {cur} /\ UNCHANGED Accepted
        /\ cur # Bridge => Bridge \in Accepted
    BY <1>0, <2>1 DEF Begun, Accepted, Journal, TypeOK
  <2>a. PICK q \in Plans, p \in Packages : q = holder /\ p = cur
    BY <2>1
  <2>3. Contract!Begin(q, p)
    BY <2>a, <2>1, <2>2, SamePackages DEF Contract!Begin, Contract!PackagesOf, Begun
  <2> QED BY <2>3, StepsOfContract
<1>5. CASE MarkCanaryComplete
  <2>1. /\ holder \in Plans /\ cur \in Packages /\ cur \in {Bridge, PackageOf[holder]}
        /\ canary[cur] \in {"STAGED", "COMMITTING"} /\ canary' = [canary EXCEPT ![cur] = "COMPLETE"]
        /\ bulk[holder] \notin {"NONE", "COMPLETE"}
        /\ UNCHANGED <<holder, bulk>>
    BY <1>0, <1>5 DEF MarkCanaryComplete, At, TypeOK, ControlInv, PlaceInv, PlanInv, Unfinished
  <2>2. /\ Journal[holder] = "OPEN" /\ UNCHANGED Journal
        /\ cur \in Begun \ Accepted /\ Accepted' = Accepted \cup {cur} /\ UNCHANGED Begun
    BY <1>0, <2>1 DEF Begun, Accepted, Journal, TypeOK
  <2>a. PICK q \in Plans, p \in Packages : q = holder /\ p = cur
    BY <2>1
  <2>3. Contract!Accept(q, p)
    BY <2>a, <2>1, <2>2, SamePackages DEF Contract!Accept, Contract!PackagesOf, Accepted
  <2> QED BY <2>3, StepsOfContract
<1>6. CASE MarkVerified
  <2>1. /\ holder \in Plans /\ bulk[holder] \notin {"NONE", "COMPLETE"}
        /\ bulk' = [bulk EXCEPT ![holder] = "RUNNING"]
        /\ UNCHANGED <<holder, canary>>
    BY <1>0, <1>6 DEF MarkVerified, At, TypeOK, ControlInv, PlanInv, Working, Unfinished
  <2>2. UNCHANGED Journal
    BY <1>0, <2>1, PlansUnseen
  <2> QED BY <2>1, <2>2 DEF Seen, Begun, Accepted
<1>7. CASE MarkComplete
  <2>1. /\ holder \in Plans /\ cur \in Packages /\ cur \in {Bridge, PackageOf[holder]}
        /\ canary[cur] = "COMPLETE" /\ bulk[holder] \notin {"NONE", "COMPLETE"}
        /\ bulk' = [bulk EXCEPT ![holder] =
                       IF Unfinished(holder) \subseteq {cur} THEN "COMPLETE" ELSE "RUNNING"]
        /\ UNCHANGED <<holder, canary>>
    BY <1>0, <1>7 DEF MarkComplete, At, TypeOK, ControlInv, PlanInv, Working, Unfinished
  <2>2. UNCHANGED <<Begun, Accepted>>
    BY <2>1 DEF Begun, Accepted
  <2>3. CASE Unfinished(holder) \subseteq {cur}
    <3>1. {Bridge, PackageOf[holder]} \subseteq Accepted
      BY <1>0, <2>1, <2>3 DEF Unfinished, Accepted, PlanInv
    <3>2. Journal[holder] = "OPEN" /\ Journal' = [Journal EXCEPT ![holder] = "COMPLETE"]
      BY <1>0, <2>1, <2>3 DEF Journal, TypeOK
    <3>a. PICK q \in Plans, p \in Packages : q = holder /\ p = cur
      BY <2>1
    <3>3. Contract!Finish(q)
      BY <3>a, <2>1, <3>1, <3>2, SamePackages DEF Contract!Finish, Contract!PackagesOf,
         Accepted, Journal
    <3> QED BY <3>3, StepsOfContract
  <2>4. CASE ~(Unfinished(holder) \subseteq {cur})
    <3>1. UNCHANGED Journal
      BY <1>0, <2>1, <2>4, PlansUnseen
    <3> QED BY <2>1, <2>2, <3>1 DEF Seen
  <2> QED BY <2>3, <2>4
\* The package journal moves between states the contract does not tell apart.
<1>8. CASE ResetStaging \/ StartStaging \/ MarkStaged \/ TableAdopted \/ TableStarted \/ ConfirmInsert
  <2>1. /\ UNCHANGED <<holder, bulk>> /\ cur \in Packages
        /\ canary[cur] \notin {"NONE", "COMPLETE"}
        /\ \E s \in {"PREPARED", "STAGING", "STAGED", "COMMITTING"} :
              canary' = [canary EXCEPT ![cur] = s]
    BY <1>0, <1>8 DEF ResetStaging, StartStaging, MarkStaged, TableAdopted, TableStarted,
       ConfirmInsert, Committed, At, TypeOK, PlaceInv
  <2>2. UNCHANGED <<Begun, Accepted>>
    BY <1>0, <2>1, PackagesUnseen
  <2> QED BY <2>1, <2>2 DEF Seen, Journal
<1>9. CASE Refuse \/ Fault
  <2>1. /\ holder \in Plans /\ holder' = NoPlan /\ UNCHANGED canary
        /\ bulk[holder] \notin {"NONE", "COMPLETE"}
        /\ bulk' = [bulk EXCEPT ![holder] = "BLOCKED"]
    BY <1>0, <1>9 DEF Refuse, Refused, Fault, Raise, Exits, TypeOK, ControlInv, PlanInv,
       Working, Unfinished
  <2>2. UNCHANGED Journal
    BY <1>0, <2>1, PlansUnseen
  <2> QED BY <2>1, <2>2, LeavesContract DEF Begun, Accepted
<1>10. CASE OpenFault \/ Crash \/ Audit
  <2>1. holder \in Plans /\ holder' = NoPlan /\ UNCHANGED <<canary, bulk>>
    BY <1>0, <1>10 DEF OpenFault, Crash, Audit, At, Exits, journalVars, TypeOK
  <2> QED BY <2>1, LeavesContract DEF Begun, Accepted, Journal
\* All other steps of the child change neither the lock nor these journals.
<1>11. CASE \/ NextPackage \/ AdoptComplete \/ RecoverStaging \/ DropInterrupted \/ CreateStage
            \/ LoadStage \/ ResumeCommit \/ VerifyStage \/ TableDone \/ SendInsert
            \/ VerifyBeforeDrop \/ DropStaged
  <2>1. UNCHANGED <<holder, canary, bulk>>
    BY <1>11 DEF NextPackage, AdoptComplete, RecoverStaging, DropInterrupted, CreateStage,
       LoadStage, ResumeCommit, VerifyStage, TableDone, SendInsert, VerifyBeforeDrop, DropStaged,
       journalVars
  <2> QED BY <2>1 DEF Seen, Begun, Accepted, Journal
<1>12. ASSUME NEW p \in Packages, NEW t \in Tables,
              ApplyBlock(p, t) \/ AbortInsert(p, t) \/ Merge(p, t)
       PROVE  UNCHANGED Seen
  BY <1>12 DEF ApplyBlock, AbortInsert, Merge, journalVars, Seen, Begun, Accepted, Journal
<1> QED BY <1>1, <1>2, <1>3, <1>4, <1>5, <1>6, <1>7, <1>8, <1>9, <1>10, <1>11, <1>12 DEF Next,
           ChildStep, Stage, CommitTables, Close

\* The child in detail implements what it promises to the host worker: the
\* mutation lock, the bridge before the suffix package, journals that only
\* grow, and a COMPLETE plan only when both of its packages are accepted.
THEOREM Implements == Spec => KeepsContract
<1>1. ASSUME IInv, [Next]_vars PROVE [Contract!Next]_(Contract!childVars)
  <2>1. CASE Next
    BY <1>1, <2>1, StepContract DEF Seen, Begun, Accepted, Journal, Contract!childVars
  <2>2. CASE UNCHANGED vars
    BY <2>2 DEF vars, journalVars, Contract!childVars
  <2> QED BY <1>1, <2>1, <2>2
<1> QED BY <1>1, InitContract, Inductive, PTL DEF Spec, KeepsContract, Contract!Spec

=============================================================================
