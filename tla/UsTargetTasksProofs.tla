------------------------ MODULE UsTargetTasksProofs ------------------------
(***************************************************************************)
(* Proofs about UsTargetTasks, for any corpus and any number of tasks,     *)
(* plans, commits and faults: its types, that an execution was asked for,  *)
(* that only an approved plan is executed, that the rows are true of the   *)
(* target, and that a stop is honoured.  Liveness stays with TLC.          *)
(***************************************************************************)
EXTENDS UsTargetTasks, TLAPS, WellFoundedInduction

\* Where a worker executes an opened plan.
Working == {"check", "launch", "wait", "audit"}

\* A row by itself: the approval is for the plan, a task that is to be prepared
\* has none, and the checkpoint stays in the range of the plan.
SoundRow(r) ==
    /\ r.approved # NoPlan => r.approved = r.plan
    /\ r.status = "PREPARE_QUEUED" => r.approved = NoPlan
    /\ r.status \in {"NEEDS_OPERATOR", "SUCCESS"} => r.plan # NoPlan
    /\ r.status = "RUN_QUEUED" => r.approved # NoPlan
    /\ r.error = "audit" => r.plan # NoPlan
    /\ r.plan # NoPlan => r.plan.start + r.completed <= r.plan.end + 1

\* A row against the target: RowsAreTrue for one row.
TrueRow(r) ==
    r.plan # NoPlan =>
        /\ \A s \in r.plan.start..(r.plan.start + r.completed - 1) :
              journal[<<r.plan.generation, s>>] = "COMPLETE"
        /\ r.status = "SUCCESS" => ({Bridge} \cup First..r.plan.count) \subseteq accepted

RowInv == \A i \in Tasks : SoundRow(rows[i]) /\ TrueRow(rows[i])

\* A queued execution was asked for, and the newest SUCCESS is one.
GrantInv == \A i \in Tasks : rows[i].status = "RUN_QUEUED" => i \in granted
LatestInv == latest # 0 => rows[latest].status = "SUCCESS"

\* The row of a working worker stays RUNNING, with the approval it was claimed
\* with and the checkpoint the worker has written.
WorkerInv ==
    /\ pc \notin {"down", "ready"} => task # 0 /\ rows[task].status = "RUNNING"
    /\ pc = "prepare" => rows[task].approved = NoPlan
    /\ pc \in {"open"} \cup Working =>
          rows[task].approved # NoPlan /\ completed = rows[task].completed
    /\ pc \in {"launch", "wait"} => Current <= rows[task].plan.end

\* The child a worker waits for is the one it started, and it reports success
\* only after its journal is COMPLETE.
ExitInv ==
    /\ exit # "none" => pc = "wait"
    /\ exit = "running" => holder = CurrentPlan
    /\ exit = "succeeded" => journal[CurrentPlan] = "COMPLETE"

\* After a child was started against a stop request no other is.
LateInv ==
    /\ late \in {0, 1}
    /\ late = 1 => pc \in {"check", "wait", "audit"} /\ rows[task].stop

IInv == TypeOK /\ RowInv /\ GrantInv /\ LatestInv /\ WorkerInv /\ ExitInv /\ LateInv

----------------------------------------------------------------------------
\* Types.

RowTypes == /\ rows \in Seq(Rows) /\ Len(rows) <= MaxTasks
            /\ latest \in 0..Len(rows) /\ granted \subseteq Tasks

RequestTypes ==
    /\ request \in [start : {0} \cup First..(MaxCorpus + 1), bound : {"none", "one", "end"}]
    /\ request.bound # "none" => request.start >= First /\ Len(rows) < MaxTasks

HostTypes == /\ corpus \in Corpus..MaxCorpus /\ head \in 1..MaxMains /\ plans \in 0..MaxPlans
             /\ faults \in 0..MaxFaults

WorkerTypes ==
    /\ task \in 0..Len(rows)
    /\ pc \in {"down", "ready", "prepare", "open", "check", "launch", "wait", "audit"}
    /\ exit \in {"none", "running", "succeeded", "failed"}
    /\ completed \in 0..MaxCorpus /\ late \in Nat

ChildTypes ==
    /\ holder \in ChildPlans \cup {NoChild}
    /\ begun \subseteq {Bridge} \cup First..MaxCorpus /\ accepted \subseteq begun
    /\ journal \in [ChildPlans -> {"NONE", "OPEN", "COMPLETE"}]

\* TypeOK is its parts.
LEMMA TypeParts == TypeOK <=> RowTypes /\ RequestTypes /\ HostTypes /\ WorkerTypes /\ ChildTypes
  BY DEF TypeOK, RowTypes, RequestTypes, HostTypes, WorkerTypes, ChildTypes

\* The numbers.
LEMMA Numbers == /\ Corpus \in Nat /\ MaxCorpus \in Nat /\ MaxTasks \in Nat /\ MaxPlans \in Nat
                 /\ MaxMains \in Nat /\ MaxFaults \in Nat
                 /\ First <= Corpus /\ Corpus <= MaxCorpus /\ First \in Nat /\ First >= 3
  BY TaskConstants DEF First

\* A row has its fields.
LEMMA RowFacts ==
    ASSUME RowTypes, NEW i \in Tasks
    PROVE  /\ rows[i] \in Rows /\ rows[i].status \in Statuses /\ rows[i].stop \in BOOLEAN
           /\ rows[i].start \in First..(MaxCorpus + 1) /\ rows[i].bound \in {"one", "end"}
           /\ rows[i].completed \in 0..MaxCorpus /\ rows[i].error \in {"none", "audit", "other"}
           /\ rows[i].plan \in {NoPlan} \cup FrozenPlans
           /\ rows[i].approved \in {NoPlan} \cup FrozenPlans
<1>1. rows[i] \in Rows
  BY DEF RowTypes, Tasks
<1> QED BY <1>1 DEF Rows

\* A plan has its fields.
LEMMA PlanFacts ==
    ASSUME NEW x \in FrozenPlans
    PROVE  /\ x # NoPlan
           /\ x.generation \in 1..MaxPlans /\ x.main \in 1..MaxMains /\ x.start \in First..MaxCorpus
           /\ x.end \in First..MaxCorpus /\ x.count \in First..MaxCorpus
  BY TaskConstants DEF FrozenPlans

\* The write of one row.
Writes(i, row) == rows' = [rows EXCEPT ![i] = row]

\* It leaves the others alone.
LEMMA WriteFacts ==
    ASSUME RowTypes, NEW i \in Tasks, NEW row \in Rows, Writes(i, row)
    PROVE  /\ rows' \in Seq(Rows) /\ Len(rows') = Len(rows) /\ Tasks' = Tasks
           /\ rows'[i] = row /\ \A j \in Tasks : j # i => rows'[j] = rows[j]
  BY DEF RowTypes, Tasks, Writes

----------------------------------------------------------------------------
\* The target only gains: what is accepted stays accepted and a COMPLETE journal
\* COMPLETE.
Gains == /\ accepted \subseteq accepted'
         /\ \A q \in ChildPlans : journal[q] = "COMPLETE" => journal'[q] = "COMPLETE"

\* A child keeps its types and what the target has.
LEMMA ChildGains ==
    ASSUME ChildTypes,
           \/ \E q \in ChildPlans : Child!Step(q) \/ Child!Leave(q) \/ Child!Start(q)
           \/ UNCHANGED childVars
    PROVE  ChildTypes' /\ Gains
<1> USE DEF ChildTypes, Gains
<1>1. CASE UNCHANGED childVars
  BY <1>1 DEF childVars
<1>2. ASSUME NEW q \in ChildPlans, Child!Leave(q) \/ Child!Start(q) PROVE ChildTypes' /\ Gains
  BY <1>2 DEF Child!Leave, Child!Start
<1>3. ASSUME NEW q \in ChildPlans, Child!Open(q) \/ Child!Finish(q) PROVE ChildTypes' /\ Gains
  BY <1>3 DEF Child!Open, Child!Finish
<1>4. ASSUME NEW q \in ChildPlans PROVE Child!PackagesOf(q) \subseteq {Bridge} \cup First..MaxCorpus
  BY <1>4 DEF Child!PackagesOf, Child!Bridge, Bridge, ChildPlans
<1>5. ASSUME NEW q \in ChildPlans, NEW p, Child!Begin(q, p) \/ Child!Accept(q, p)
      PROVE  ChildTypes' /\ Gains
  BY <1>4, <1>5 DEF Child!Begin, Child!Accept
<1> QED BY <1>1, <1>2, <1>3, <1>5 DEF Child!Step

\* A row that is true stays true while the target gains.
LEMMA TrueRowStays ==
    ASSUME ChildTypes, Gains, NEW r \in Rows, SoundRow(r), TrueRow(r) PROVE TrueRow(r)'
<1> SUFFICES ASSUME r.plan # NoPlan
             PROVE  /\ \A s \in r.plan.start..(r.plan.start + r.completed - 1) :
                          journal'[<<r.plan.generation, s>>] = "COMPLETE"
                    /\ r.status = "SUCCESS" => ({Bridge} \cup First..r.plan.count) \subseteq accepted'
  BY DEF TrueRow
<1>1. r.plan \in FrozenPlans /\ r.completed \in 0..MaxCorpus
  BY DEF Rows
<1>2. ASSUME NEW s \in r.plan.start..(r.plan.start + r.completed - 1)
      PROVE  journal'[<<r.plan.generation, s>>] = "COMPLETE"
  <2>1. <<r.plan.generation, s>> \in ChildPlans
    BY <1>1, <1>2, PlanFacts, Numbers DEF SoundRow, ChildPlans
  <2> QED BY <2>1 DEF TrueRow, Gains
<1> QED BY <1>2 DEF TrueRow, Gains

\* A row that is not written stays sound and true.
LEMMA RowStays ==
    ASSUME RowTypes, ChildTypes, RowInv, Gains, NEW i \in Tasks, rows'[i] = rows[i]
    PROVE  SoundRow(rows'[i]) /\ TrueRow(rows[i])'
<1>1. PICK r \in Rows : r = rows[i] /\ r = rows'[i]
  BY RowFacts
<1>2. SoundRow(r) /\ TrueRow(r)
  BY <1>1 DEF RowInv
<1>3. TrueRow(r)'
  BY <1>2, TrueRowStays
<1> QED BY <1>1, <1>2, <1>3 DEF TrueRow

\* The rows stay sound and true when none is written.
LEMMA RowsStay ==
    ASSUME RowTypes, ChildTypes, RowInv, Gains, UNCHANGED rows PROVE RowInv'
<1>1. ASSUME NEW i \in Tasks PROVE SoundRow(rows'[i]) /\ TrueRow(rows[i])'
  BY <1>1, RowStays
<1> QED BY <1>1 DEF RowInv, Tasks, TrueRow

\* They stay so when one is written that is sound and true.
LEMMA RowsWritten ==
    ASSUME RowTypes, ChildTypes, RowInv, Gains, NEW i \in Tasks, NEW row \in Rows,
           Writes(i, row), SoundRow(row), TrueRow(row)'
    PROVE  RowInv'
<1>1. /\ Tasks' = Tasks /\ rows'[i] = row
      /\ \A j \in Tasks : j # i => rows'[j] = rows[j]
  BY WriteFacts
<1>2. ASSUME NEW j \in Tasks, j # i PROVE SoundRow(rows'[j]) /\ TrueRow(rows[j])'
  BY <1>1, <1>2, RowStays
<1> QED BY <1>1, <1>2 DEF RowInv, TrueRow

\* A row keeps what its worker relies on.
Keeps(i) ==
    /\ rows'[i].status = rows[i].status /\ rows'[i].approved = rows[i].approved
    /\ rows'[i].plan = rows[i].plan /\ rows'[i].completed = rows[i].completed
    /\ rows[i].stop => rows'[i].stop

\* A step beside the worker keeps its part of the invariant.
LEMMA WorkerStays ==
    ASSUME WorkerInv, ExitInv, LateInv, UNCHANGED <<workerVars, childVars>>,
           pc \notin {"down", "ready"} => Keeps(task)
    PROVE  WorkerInv' /\ ExitInv' /\ LateInv'
<1> USE DEF workerVars, childVars, Keeps
<1>1. pc \notin {"down", "ready"} => Current' = Current /\ CurrentPlan' = CurrentPlan
  BY DEF Current, CurrentPlan
<1>2. WorkerInv'
  BY <1>1 DEF WorkerInv, Working
<1>3. ExitInv'
  BY <1>1 DEF ExitInv
<1>4. LateInv'
  BY DEF LateInv
<1> QED BY <1>2, <1>3, <1>4

\* An operator writes a row: he leaves a RUNNING one to its worker.
LEMMA OperatorWrites ==
    ASSUME IInv, NEW i \in Tasks, NEW row \in Rows, Writes(i, row), SoundRow(row), TrueRow(row),
           UNCHANGED <<request, workerVars, hostVars, childVars, faults>>,
           rows[i].status # "SUCCESS",
           rows[i].status = "RUNNING" =>
               /\ row.status = "RUNNING" /\ row.approved = rows[i].approved
               /\ row.plan = rows[i].plan /\ row.completed = rows[i].completed /\ row.stop,
           granted' \subseteq Tasks, \A j \in granted : j # i => j \in granted',
           row.status = "RUN_QUEUED" => i \in granted',
           latest' = latest \/ (latest' = i /\ row.status = "SUCCESS")
    PROVE  IInv'
<1>0. RowTypes /\ RequestTypes /\ HostTypes /\ WorkerTypes /\ ChildTypes
  BY TypeParts DEF IInv
<1>1. /\ rows' \in Seq(Rows) /\ Len(rows') = Len(rows) /\ Tasks' = Tasks
      /\ rows'[i] = row /\ \A j \in Tasks : j # i => rows'[j] = rows[j]
  BY <1>0, WriteFacts
<1>2. RowTypes'
  BY <1>0, <1>1 DEF RowTypes, Tasks
<1>3. RequestTypes' /\ HostTypes' /\ WorkerTypes' /\ ChildTypes' /\ Gains
  BY <1>0, <1>1
  DEF RequestTypes, HostTypes, WorkerTypes, ChildTypes, Gains, workerVars, hostVars, childVars
<1>4. RowInv'
  <2>1. TrueRow(row)'
    BY DEF TrueRow, childVars
  <2> QED BY <1>0, <1>3, <2>1, RowsWritten DEF IInv
<1>5. GrantInv'
  BY <1>1 DEF IInv, GrantInv
<1>6. LatestInv'
  BY <1>0, <1>1 DEF IInv, LatestInv, RowTypes, Tasks
<1>7. WorkerInv' /\ ExitInv' /\ LateInv'
  <2>1. pc \notin {"down", "ready"} => task \in Tasks /\ Keeps(task)
    BY <1>0, <1>1 DEF IInv, WorkerInv, WorkerTypes, RowTypes, Tasks, Keeps
  <2> QED BY <2>1, WorkerStays DEF IInv
<1> QED BY <1>2, <1>3, <1>4, <1>5, <1>6, <1>7, TypeParts
    DEF IInv, TypeOK, RowTypes, RequestTypes, HostTypes, WorkerTypes, ChildTypes

\* A worker leaves its row, with a status that is not queued for execution.
LEMMA WorkerLeaves ==
    ASSUME IInv, pc \notin {"down", "ready"}, NEW row \in Rows, Writes(task, row),
           SoundRow(row), TrueRow(row), row.status # "RUN_QUEUED",
           HostTypes', UNCHANGED <<request, granted, childVars>>,
           pc' = "down", task' = 0, completed' = 0, exit' = "none", late' = 0,
           latest' = latest \/ (latest' = task /\ row.status = "SUCCESS")
    PROVE  IInv'
<1>0. RowTypes /\ RequestTypes /\ HostTypes /\ WorkerTypes /\ ChildTypes
  BY TypeParts DEF IInv
<1>a. task \in Tasks /\ rows[task].status = "RUNNING"
  BY <1>0 DEF IInv, WorkerInv, WorkerTypes, RowTypes, Tasks
<1>1. /\ rows' \in Seq(Rows) /\ Len(rows') = Len(rows) /\ Tasks' = Tasks
      /\ rows'[task] = row /\ \A j \in Tasks : j # task => rows'[j] = rows[j]
  BY <1>0, <1>a, WriteFacts
<1>2. RowTypes'
  BY <1>0, <1>1, <1>a DEF RowTypes, Tasks
<1>3. RequestTypes' /\ WorkerTypes' /\ ChildTypes' /\ Gains
  BY <1>0, <1>1, Numbers
  DEF RequestTypes, WorkerTypes, ChildTypes, Gains, childVars, RowTypes
<1>4. RowInv'
  <2>1. TrueRow(row)'
    BY DEF TrueRow, childVars
  <2> QED BY <1>0, <1>a, <1>3, <2>1, RowsWritten DEF IInv
<1>5. GrantInv'
  BY <1>1 DEF IInv, GrantInv
<1>6. LatestInv'
  BY <1>0, <1>1, <1>a DEF IInv, LatestInv, RowTypes, Tasks
<1>7. WorkerInv' /\ ExitInv' /\ LateInv'
  BY DEF WorkerInv, ExitInv, LateInv, Working
<1> QED BY <1>2, <1>3, <1>4, <1>5, <1>6, <1>7, TypeParts
    DEF IInv, TypeOK, RowTypes, RequestTypes, HostTypes, WorkerTypes, ChildTypes

\* The order of the rows, as a set of pairs.
Less == {ss \in Nat \X Nat : ss[1] < ss[2]}

\* It is well founded, so that a set of rows has a least one.
LEMMA LessWellFounded == IsWellFoundedOn(Less, Nat)
  BY NatLessThanWellFounded DEF OpToRel, Less

\* A set of rows has an oldest one.
LEMMA OldestFacts == ASSUME RowTypes, NEW S \in SUBSET Tasks, S # {} PROVE Oldest(S) \in S
<1>1. S \subseteq Nat
  BY DEF RowTypes, Tasks
<1>2. PICK x \in S : \A y \in S : ~(<<y, x>> \in Less)
  BY <1>1, WFMin, LessWellFounded
<1>3. \A y \in S : x <= y
  <2> SUFFICES ASSUME NEW y \in S, y < x PROVE FALSE
    BY <1>1
  <2>1. <<y, x>> \in Less
    BY <1>1 DEF Less
  <2> QED BY <1>2, <2>1
<1> QED BY <1>3 DEF Oldest

----------------------------------------------------------------------------
\* The operator.

\* A request is read, or one row is queued: the new row has no plan.
LEMMA AskStep == ASSUME IInv, NEW b \in {"one", "end"}, Ask(b) PROVE IInv'
<1> USE DEF Ask, rowVars, workerVars, hostVars, childVars
<1>0. RowTypes /\ RequestTypes /\ HostTypes /\ WorkerTypes /\ ChildTypes
  BY TypeParts DEF IInv
<1>1. latest # 0 => rows[latest].plan.count + 1 \in First..(MaxCorpus + 1)
  <2> SUFFICES ASSUME latest # 0 PROVE rows[latest].plan.count + 1 \in First..(MaxCorpus + 1)
    OBVIOUS
  <2>1. latest \in Tasks /\ rows[latest].status = "SUCCESS"
    BY <1>0 DEF RowTypes, Tasks, IInv, LatestInv
  <2>2. rows[latest].plan \in FrozenPlans
    BY <1>0, <2>1, RowFacts DEF IInv, RowInv, SoundRow
  <2>3. PICK c \in First..MaxCorpus : c = rows[latest].plan.count
    BY <2>2, PlanFacts
  <2>4. c + 1 \in First..(MaxCorpus + 1)
    BY Numbers
  <2> QED BY <2>3, <2>4
<1>2. RequestTypes'
  <2>1. PICK n \in First..(MaxCorpus + 1) : request' = [bound |-> b, start |-> n]
    BY <1>1, Numbers
  <2> QED BY <2>1, Numbers DEF RequestTypes
<1>3. RowTypes' /\ HostTypes' /\ WorkerTypes' /\ ChildTypes' /\ Gains
  BY <1>0 DEF RowTypes, HostTypes, WorkerTypes, ChildTypes, Gains, Tasks
<1>4. RowInv' /\ GrantInv' /\ LatestInv'
  BY <1>0, <1>3, RowsStay DEF IInv, GrantInv, LatestInv, Tasks
<1>5. WorkerInv' /\ ExitInv' /\ LateInv'
  BY WorkerStays DEF IInv, Keeps
<1> QED BY <1>2, <1>3, <1>4, <1>5, TypeParts
    DEF IInv, TypeOK, RowTypes, RequestTypes, HostTypes, WorkerTypes, ChildTypes

\* queue_target_bulk_prepare: a new row has neither plan nor approval.
LEMMA QueueStep == ASSUME IInv, QueuePrepare PROVE IInv'
<1> USE DEF QueuePrepare, rowVars, workerVars, hostVars, childVars
<1>0. RowTypes /\ RequestTypes /\ HostTypes /\ WorkerTypes /\ ChildTypes
  BY TypeParts DEF IInv
<1>1. RequestTypes' /\ HostTypes' /\ ChildTypes' /\ Gains
  BY <1>0 DEF RequestTypes, HostTypes, ChildTypes, Gains
<1>2. CASE UNCHANGED rows
  <2>1. RowTypes' /\ WorkerTypes'
    BY <1>0, <1>2 DEF RowTypes, WorkerTypes, Tasks
  <2>2. RowInv' /\ GrantInv' /\ LatestInv'
    BY <1>0, <1>1, <1>2, RowsStay DEF IInv, GrantInv, LatestInv, Tasks
  <2>3. WorkerInv' /\ ExitInv' /\ LateInv'
    BY <1>2, WorkerStays DEF IInv, Keeps
  <2> QED BY <1>1, <2>1, <2>2, <2>3, TypeParts
      DEF IInv, TypeOK, RowTypes, RequestTypes, HostTypes, WorkerTypes, ChildTypes
<1>3. CASE ~UNCHANGED rows
  <2> DEFINE new == [status |-> "PREPARE_QUEUED", stop |-> FALSE,
                     start |-> request.start, bound |-> request.bound,
                     plan |-> NoPlan, approved |-> NoPlan, completed |-> 0, error |-> "none"]
  <2>1. rows' = Append(rows, new)
    BY <1>3
  <2>2. new \in Rows /\ SoundRow(new) /\ new.plan = NoPlan /\ new.status = "PREPARE_QUEUED"
    BY <1>0, Numbers DEF RequestTypes, Rows, Statuses, ActiveStatuses, SoundRow
  <2> HIDE DEF new
  <2>3. /\ rows' \in Seq(Rows) /\ Len(rows') = Len(rows) + 1 /\ Tasks' = Tasks \cup {Len(rows) + 1}
        /\ \A j \in Tasks : rows'[j] = rows[j]
    BY <1>0, <2>1, <2>2 DEF RowTypes, Tasks
  <2>4. rows'[Len(rows) + 1] = new
    BY <1>0, <2>1, <2>2 DEF RowTypes, Tasks
  <2>5. RowTypes' /\ WorkerTypes'
    BY <1>0, <2>3, Numbers DEF RequestTypes, RowTypes, WorkerTypes, Tasks
  <2>6. RowInv'
    <3>1. ASSUME NEW j \in Tasks PROVE SoundRow(rows'[j]) /\ TrueRow(rows[j])'
      BY <1>0, <1>1, <2>3, <3>1, RowStays DEF IInv
    <3>2. PICK n \in Nat : n = Len(rows) + 1
      BY <1>0 DEF RowTypes
    <3>3. SoundRow(rows'[n]) /\ TrueRow(rows[n])'
      BY <2>2, <2>4, <3>2 DEF TrueRow
    <3>4. Tasks' = Tasks \cup {n}
      BY <2>3, <3>2
    <3>5. ASSUME NEW j \in Tasks' PROVE SoundRow(rows'[j]) /\ TrueRow(rows[j])'
      <4>1. CASE j \in Tasks
        BY <4>1, <3>1
      <4>2. CASE j = n
        BY <4>2, <3>3 DEF TrueRow
      <4> QED BY <3>4, <4>1, <4>2
    <3> QED BY <3>5 DEF RowInv, TrueRow
  <2>7. GrantInv'
    BY <2>2, <2>3, <2>4 DEF IInv, GrantInv
  <2>8. LatestInv'
    BY <1>0, <2>3 DEF IInv, LatestInv, RowTypes, Tasks
  <2>9. WorkerInv' /\ ExitInv' /\ LateInv'
    <3>1. pc \notin {"down", "ready"} => Keeps(task)
      BY <1>0, <2>3 DEF IInv, WorkerInv, WorkerTypes, RowTypes, Tasks, Keeps
    <3> QED BY <3>1, WorkerStays DEF IInv
  <2> QED BY <1>1, <2>5, <2>6, <2>7, <2>8, <2>9, TypeParts
      DEF IInv, TypeOK, RowTypes, RequestTypes, HostTypes, WorkerTypes, ChildTypes
<1> QED BY <1>2, <1>3

\* The operator approves the plan of the row.
LEMMA ApproveStep == ASSUME IInv, NEW i \in Tasks, Approve(i) PROVE IInv'
<1>0. RowTypes
  BY TypeParts DEF IInv
<1>1. PICK r \in Rows : r = rows[i] /\ SoundRow(r) /\ TrueRow(r)
  BY <1>0, RowFacts DEF IInv, RowInv
<1> DEFINE row == [r EXCEPT !.status = "RUN_QUEUED", !.approved = r.plan, !.stop = FALSE,
                            !.error = "none"]
<1>2. Writes(i, row)
  BY <1>0, <1>1 DEF Approve, Writes, RowTypes, Tasks
<1>3. row \in Rows /\ row.status = "RUN_QUEUED" /\ row.plan = r.plan
      /\ row.approved = r.plan /\ row.completed = r.completed /\ row.error = "none"
  BY DEF Rows, Statuses, ActiveStatuses
<1> HIDE DEF row
<1>4. r.status = "NEEDS_OPERATOR" /\ r.plan # NoPlan
  BY <1>1 DEF Approve, SoundRow
<1>5. SoundRow(row) /\ TrueRow(row)
  BY <1>1, <1>3, <1>4 DEF SoundRow, TrueRow
<1>6. /\ granted' = granted \cup {i} /\ granted \subseteq Tasks /\ latest' = latest
      /\ UNCHANGED <<request, workerVars, hostVars, childVars, faults>>
  BY <1>0 DEF Approve, RowTypes
<1> QED BY <1>1, <1>2, <1>3, <1>4, <1>5, <1>6, OperatorWrites

\* The operator resumes a row where it stands.
LEMMA ResumeStep == ASSUME IInv, NEW i \in Tasks, Resume(i) PROVE IInv'
<1>0. RowTypes
  BY TypeParts DEF IInv
<1>1. PICK r \in Rows : r = rows[i] /\ SoundRow(r) /\ TrueRow(r)
  BY <1>0, RowFacts DEF IInv, RowInv
<1>2. PICK st \in {"RUN_QUEUED", "NEEDS_OPERATOR", "PREPARE_QUEUED"} :
         /\ st = ResumedStatus(r)
         /\ st = "RUN_QUEUED" <=> r.approved # NoPlan
         /\ st = "NEEDS_OPERATOR" => r.plan # NoPlan
  BY DEF ResumedStatus
<1> DEFINE row == [r EXCEPT !.status = st, !.stop = FALSE, !.error = "none"]
<1>3. Writes(i, row)
  BY <1>0, <1>1, <1>2 DEF Resume, Writes, RowTypes, Tasks
<1>4. row \in Rows /\ row.status = st /\ row.plan = r.plan
      /\ row.approved = r.approved /\ row.completed = r.completed /\ row.error = "none"
  BY DEF Rows, Statuses, ActiveStatuses
<1> HIDE DEF row
<1>5. r.status \in Resumable
  BY <1>1 DEF Resume
<1>6. SoundRow(row) /\ TrueRow(row)
  BY <1>1, <1>2, <1>4 DEF SoundRow, TrueRow
<1>7. /\ granted' = IF st = "RUN_QUEUED" THEN granted \cup {i} ELSE granted
      /\ granted \subseteq Tasks /\ latest' = latest
      /\ UNCHANGED <<request, workerVars, hostVars, childVars, faults>>
  BY <1>0, <1>1, <1>2 DEF Resume, RowTypes
<1> QED BY <1>1, <1>3, <1>4, <1>5, <1>6, <1>7, OperatorWrites DEF Resumable

\* The operator stops the oldest active row: a RUNNING one only learns of it.
LEMMA StopStep == ASSUME IInv, RequestStop PROVE IInv'
<1>0. RowTypes
  BY TypeParts DEF IInv
<1>1. PICK i \in Tasks : i = Oldest(In(ActiveStatuses)) /\ rows[i].status \in ActiveStatuses
  BY <1>0, OldestFacts DEF RequestStop, In
<1>2. PICK r \in Rows : r = rows[i] /\ SoundRow(r) /\ TrueRow(r)
  BY <1>0, RowFacts DEF IInv, RowInv
<1>3. PICK st \in {"RUNNING", "INTERRUPTED"} :
         st = (IF r.status = "RUNNING" THEN r.status ELSE "INTERRUPTED")
  OBVIOUS
<1> DEFINE row == [r EXCEPT !.stop = TRUE, !.status = st, !.error = "none"]
<1>4. Writes(i, row)
  BY <1>0, <1>1, <1>2, <1>3 DEF RequestStop, Writes, RowTypes, Tasks
<1>5. row \in Rows /\ row.status = st /\ row.plan = r.plan /\ row.stop
      /\ row.approved = r.approved /\ row.completed = r.completed /\ row.error = "none"
  BY DEF Rows, Statuses, ActiveStatuses, Resumable
<1> HIDE DEF row
<1>6. SoundRow(row) /\ TrueRow(row)
  BY <1>2, <1>5 DEF SoundRow, TrueRow
<1>7. /\ granted' = granted \ {i} /\ granted \subseteq Tasks /\ latest' = latest
      /\ UNCHANGED <<request, workerVars, hostVars, childVars, faults>>
  BY <1>0, <1>1 DEF RequestStop, RowTypes
<1> QED BY <1>1, <1>2, <1>3, <1>4, <1>5, <1>6, <1>7, OperatorWrites DEF ActiveStatuses

\* What an audit has seen, a row may say.
LEMMA AuditedFacts ==
    ASSUME NEW x, Audited(x) PROVE ({Bridge} \cup First..x.count) \subseteq accepted
  BY DEF Audited

\* The operator does the final audit again.
LEMMA RecoverAuditStep == ASSUME IInv, NEW i \in Tasks, RecoverFinalAudit(i) PROVE IInv'
<1>0. RowTypes
  BY TypeParts DEF IInv
<1>1. PICK r \in Rows : r = rows[i] /\ SoundRow(r) /\ TrueRow(r)
  BY <1>0, RowFacts DEF IInv, RowInv
<1> DEFINE row == [r EXCEPT !.status = "SUCCESS", !.error = "none"]
<1>2. Writes(i, row)
  BY <1>0, <1>1 DEF RecoverFinalAudit, Writes, RowTypes, Tasks
<1>3. row \in Rows /\ row.status = "SUCCESS" /\ row.plan = r.plan
      /\ row.approved = r.approved /\ row.completed = r.completed /\ row.error = "none"
  BY DEF Rows, Statuses
<1> HIDE DEF row
<1>4. r.status = "BLOCKED" /\ r.error = "audit" /\ Audited(r.plan)
  BY <1>1 DEF RecoverFinalAudit
<1>5. SoundRow(row) /\ TrueRow(row)
  BY <1>1, <1>3, <1>4, AuditedFacts DEF SoundRow, TrueRow
<1>6. /\ granted' = granted /\ granted \subseteq Tasks /\ latest' = i
      /\ UNCHANGED <<request, workerVars, hostVars, childVars, faults>>
  BY <1>0 DEF RecoverFinalAudit, RowTypes
<1> QED BY <1>1, <1>2, <1>3, <1>4, <1>5, <1>6, OperatorWrites

----------------------------------------------------------------------------
\* The worker.

\* The row of a working worker.
LEMMA TaskFacts ==
    ASSUME IInv, pc \notin {"down", "ready"}
    PROVE  /\ task \in Tasks
           /\ \E r \in Rows : r = rows[task] /\ SoundRow(r) /\ TrueRow(r) /\ r.status = "RUNNING"
           /\ pc \in {"open"} \cup Working =>
                 rows[task].approved = rows[task].plan /\ rows[task].plan \in FrozenPlans
<1>0. RowTypes /\ WorkerTypes
  BY TypeParts DEF IInv
<1>1. task \in Tasks /\ rows[task].status = "RUNNING"
  BY <1>0 DEF IInv, WorkerInv, WorkerTypes, RowTypes, Tasks
<1>2. rows[task] \in Rows /\ rows[task].plan \in {NoPlan} \cup FrozenPlans
      /\ rows[task].approved \in {NoPlan} \cup FrozenPlans
  BY <1>0, <1>1, RowFacts
<1>3. SoundRow(rows[task]) /\ TrueRow(rows[task])
  BY <1>1 DEF IInv, RowInv
<1>4. pc \in {"open"} \cup Working =>
         rows[task].approved = rows[task].plan /\ rows[task].plan \in FrozenPlans
  BY <1>2, <1>3 DEF IInv, WorkerInv, SoundRow
<1> QED BY <1>1, <1>2, <1>3, <1>4

\* The last write of a worker.
LEMMA EndsStep ==
    ASSUME IInv, pc \notin {"down", "ready"},
           NEW st \in {"BLOCKED", "FAILED", "INTERRUPTED", "SUCCESS"},
           NEW er \in {"none", "audit", "other"}, Ends(st, er),
           HostTypes', UNCHANGED <<request, granted, childVars>>,
           st = "SUCCESS" => pc = "audit" /\ Audited(rows[task].plan),
           er = "audit" => pc = "audit",
           latest' = latest \/ (latest' = task /\ st = "SUCCESS")
    PROVE  IInv'
<1>0. RowTypes
  BY TypeParts DEF IInv
<1>1. PICK r \in Rows : r = rows[task] /\ SoundRow(r) /\ TrueRow(r)
  BY TaskFacts
<1>2. pc = "audit" => r.plan # NoPlan
  BY <1>1, TaskFacts, PlanFacts DEF Working
<1>a. task \in Tasks
  BY TaskFacts
<1> DEFINE row == [r EXCEPT !.status = st, !.error = er]
<1>3. Writes(task, row)
  BY <1>0, <1>1, <1>a DEF Ends, Writes, RowTypes, Tasks
<1>4. row \in Rows /\ row.status = st /\ row.plan = r.plan
      /\ row.approved = r.approved /\ row.completed = r.completed /\ row.error = er
  BY DEF Rows, Statuses, Resumable
<1> HIDE DEF row
<1>5. SoundRow(row) /\ TrueRow(row)
  BY <1>1, <1>2, <1>4, AuditedFacts DEF SoundRow, TrueRow
<1>6. pc' = "down" /\ task' = 0 /\ completed' = 0 /\ exit' = "none" /\ late' = 0
  BY DEF Ends
<1> QED BY <1>3, <1>4, <1>5, <1>6, WorkerLeaves

\* The plan operator freezes a plan for a task that has no approval.
LEMMA PrepareStep == ASSUME IInv, Prepare PROVE IInv'
<1>0. RowTypes /\ HostTypes
  BY TypeParts DEF IInv
<1>1. PICK r \in Rows : r = rows[task] /\ SoundRow(r) /\ TrueRow(r)
  BY TaskFacts DEF Prepare
<1>2. r.approved = NoPlan /\ r.start <= corpus /\ r.start \in First..(MaxCorpus + 1)
  BY <1>1 DEF Prepare, IInv, WorkerInv, Plannable, Rows
<1>a. task \in Tasks
  BY TaskFacts DEF Prepare
<1>b. PICK e \in First..MaxCorpus :
         e = (IF r.bound = "one" THEN r.start ELSE corpus) /\ r.start <= e
  BY <1>0, <1>2, Numbers DEF HostTypes
<1> DEFINE new == [generation |-> plans + 1, main |-> head, start |-> r.start,
                   end |-> e, count |-> corpus]
<1>c. new \in FrozenPlans
  BY <1>0, <1>2, Numbers DEF Prepare, HostTypes, FrozenPlans
<1>3. PICK plan \in FrozenPlans : plan = new /\ plan.start <= plan.end
  BY <1>b, <1>c
<1>d. 0 \in 0..MaxCorpus
  BY Numbers
<1> DEFINE row == [r EXCEPT !.status = "NEEDS_OPERATOR", !.plan = plan, !.completed = 0,
                            !.error = "none"]
<1>4. Writes(task, row)
  BY <1>0, <1>1, <1>3, <1>a, <1>b DEF Prepare, Writes, RowTypes, Tasks
<1>5. row \in Rows /\ row.status = "NEEDS_OPERATOR" /\ row.plan = plan
      /\ row.approved = r.approved /\ row.completed = 0 /\ row.error = "none"
  BY <1>d DEF Rows, Statuses, ActiveStatuses
<1> HIDE DEF row
<1>6. SoundRow(row) /\ TrueRow(row)
  BY <1>2, <1>3, <1>5, PlanFacts, Numbers DEF SoundRow, TrueRow
<1>7. HostTypes' /\ UNCHANGED <<request, granted, latest, childVars>>
      /\ pc' = "down" /\ task' = 0 /\ completed' = 0 /\ exit' = "none" /\ late' = 0
  BY <1>0, Numbers DEF Prepare, HostTypes
<1> QED BY <1>4, <1>5, <1>6, <1>7, WorkerLeaves DEF Prepare

\* Steps that end with the last write.
LEMMA FailSteps ==
    ASSUME IInv, PrepareFails \/ ChildFails \/ ArchiveFails \/ FinalAudit \/ FinalAuditFails
    PROVE  IInv'
<1>0. HostTypes
  BY TypeParts DEF IInv
<1>f. Fault \/ NoFault => faults' \in 0..MaxFaults
  BY <1>0, Numbers DEF Fault, NoFault, HostTypes
<1>1. CASE PrepareFails
  <2>1. HostTypes'
    BY <1>0, <1>1, <1>f DEF PrepareFails, HostTypes, hostVars
  <2> QED BY <1>1, <2>1, EndsStep DEF PrepareFails
<1>2. CASE ChildFails
  <2>1. HostTypes'
    BY <1>0, <1>2 DEF ChildFails, HostTypes, hostVars
  <2> QED BY <1>2, <2>1, EndsStep DEF ChildFails
<1>3. CASE ArchiveFails
  <2>1. HostTypes'
    BY <1>0, <1>3, <1>f DEF ArchiveFails, HostTypes, hostVars
  <2> QED BY <1>3, <2>1, EndsStep DEF ArchiveFails
<1>4. CASE FinalAudit
  <2>1. HostTypes'
    BY <1>0, <1>4 DEF FinalAudit, HostTypes, hostVars
  <2> QED BY <1>4, <2>1, EndsStep DEF FinalAudit
<1>5. CASE FinalAuditFails
  <2>1. HostTypes'
    BY <1>0, <1>5, <1>f DEF FinalAuditFails, HostTypes, hostVars
  <2> QED BY <1>5, <2>1, EndsStep DEF FinalAuditFails
<1> QED BY <1>1, <1>2, <1>3, <1>4, <1>5

\* A step that writes no row is judged by the worker, the child and the host.
LEMMA RowlessStep ==
    ASSUME IInv, UNCHANGED <<rowVars, request>>, HostTypes', WorkerTypes', ChildTypes', Gains,
           WorkerInv', ExitInv', LateInv'
    PROVE  IInv'
<1>0. RowTypes /\ RequestTypes /\ ChildTypes
  BY TypeParts DEF IInv
<1>1. RowTypes' /\ RequestTypes'
  BY <1>0 DEF RowTypes, RequestTypes, Tasks, rowVars
<1>2. RowInv' /\ GrantInv' /\ LatestInv'
  BY <1>0, RowsStay DEF IInv, GrantInv, LatestInv, Tasks, rowVars
<1> QED BY <1>1, <1>2, TypeParts
    DEF IInv, TypeOK, RowTypes, RequestTypes, HostTypes, WorkerTypes, ChildTypes

\* A worker dies, or the host changes.
LEMMA HostSteps == ASSUME IInv, Crash \/ NewSource \/ NewMain PROVE IInv'
<1>0. RowTypes /\ HostTypes /\ WorkerTypes /\ ChildTypes
  BY TypeParts DEF IInv
<1>1. UNCHANGED <<rowVars, request>> /\ ChildTypes' /\ Gains /\ HostTypes'
  BY <1>0, Numbers, ChildGains DEF Crash, NewSource, NewMain, Fault, hostVars, HostTypes
<1>2. CASE Crash
  <2>1. WorkerTypes' /\ WorkerInv' /\ ExitInv' /\ LateInv'
    BY <1>0, <1>2, Numbers DEF Crash, WorkerTypes, RowTypes, rowVars, WorkerInv, ExitInv, LateInv, Working
  <2> QED BY <1>1, <2>1, RowlessStep
<1>3. CASE NewSource \/ NewMain
  <2>1. UNCHANGED <<rowVars, workerVars, childVars>>
    BY <1>3 DEF NewSource, NewMain
  <2>2. WorkerTypes'
    BY <1>0, <2>1 DEF WorkerTypes, rowVars, workerVars
  <2>3. WorkerInv' /\ ExitInv' /\ LateInv'
    BY <2>1, WorkerStays DEF IInv, Keeps, rowVars
  <2> QED BY <1>1, <2>2, <2>3, RowlessStep
<1> QED BY <1>2, <1>3

\* The approved plan is opened, or the task fails.
LEMMA OpenStep == ASSUME IInv, OpenPlan PROVE IInv'
<1>0. HostTypes /\ WorkerTypes /\ ChildTypes
  BY TypeParts DEF IInv
<1>1. HostTypes' /\ ChildTypes' /\ Gains
  BY <1>0, ChildGains DEF OpenPlan, HostTypes, hostVars
<1>2. CASE Ends("FAILED", "other")
  BY <1>1, <1>2, EndsStep DEF OpenPlan
<1>3. CASE ~Ends("FAILED", "other")
  <2>1. /\ pc = "open" /\ pc' = "check"
        /\ UNCHANGED <<rows, latest, granted, request, task, completed, exit, late, childVars>>
    BY <1>3 DEF OpenPlan
  <2>2. WorkerTypes'
    BY <1>0, <2>1 DEF WorkerTypes
  <2>3. WorkerInv' /\ ExitInv' /\ LateInv'
    BY <2>1 DEF IInv, WorkerInv, ExitInv, LateInv, Working
  <2> QED BY <1>1, <2>1, <2>2, <2>3, RowlessStep DEF rowVars
<1> QED BY <1>2, <1>3

\* Between two children the worker looks at the stop request.
LEMMA CheckStopStep == ASSUME IInv, CheckStop PROVE IInv'
<1>0. HostTypes /\ WorkerTypes /\ ChildTypes
  BY TypeParts DEF IInv
<1>1. HostTypes' /\ ChildTypes' /\ Gains
  BY <1>0, ChildGains DEF CheckStop, HostTypes, hostVars
<1>2. CASE Ends("INTERRUPTED", "none")
  BY <1>1, <1>2, EndsStep DEF CheckStop
<1>3. CASE ~Ends("INTERRUPTED", "none")
  <2>1. /\ pc = "check"
        /\ pc' = "audit" \/ (pc' = "launch" /\ ~(Current > rows[task].plan.end) /\ ~rows[task].stop)
        /\ UNCHANGED <<rows, latest, granted, request, task, completed, exit, late, childVars>>
    BY <1>3 DEF CheckStop
  <2>2. WorkerTypes'
    BY <1>0, <2>1 DEF WorkerTypes
  <2>3. rows[task].plan \in FrozenPlans /\ completed \in Nat
    BY <1>0, <2>1, TaskFacts, Numbers DEF Working, WorkerTypes
  <2>4. pc' = "launch" => Current <= rows[task].plan.end
    BY <2>1, <2>3, PlanFacts, Numbers DEF Current
  <2>5. Current' = Current
    BY <2>1 DEF Current
  <2>6. WorkerInv'
    BY <2>1, <2>4, <2>5 DEF IInv, WorkerInv, Working
  <2>7. ExitInv' /\ LateInv'
    BY <2>1 DEF IInv, ExitInv, LateInv
  <2> QED BY <1>1, <2>1, <2>2, <2>6, <2>7, RowlessStep DEF rowVars
<1> QED BY <1>2, <1>3

\* The child plan of a worker that is about to start it, or waits for it.
LEMMA CurrentFacts ==
    ASSUME IInv, pc \in {"launch", "wait"}
    PROVE  CurrentPlan \in ChildPlans /\ Current \in First..MaxCorpus
<1>0. WorkerTypes
  BY TypeParts DEF IInv
<1>1. rows[task].plan \in FrozenPlans /\ completed \in Nat
  BY <1>0, TaskFacts, Numbers DEF Working, WorkerTypes
<1>2. Current <= rows[task].plan.end
  BY DEF IInv, WorkerInv
<1> QED BY <1>1, <1>2, PlanFacts, Numbers DEF Current, CurrentPlan, ChildPlans

\* A child is started, or finds the lock held.
LEMMA LaunchStep == ASSUME IInv, LaunchChild PROVE IInv'
<1>0. HostTypes /\ WorkerTypes /\ ChildTypes
  BY TypeParts DEF IInv
<1>1. CurrentPlan \in ChildPlans
  BY CurrentFacts DEF LaunchChild
<1>2. HostTypes' /\ ChildTypes' /\ Gains
  BY <1>0, <1>1, ChildGains DEF LaunchChild, HostTypes, hostVars
<1>3. /\ pc = "launch" /\ pc' = "wait" /\ UNCHANGED <<rows, latest, granted, request, task, completed>>
      /\ \/ exit' = "running" /\ holder' = CurrentPlan /\ late' = late + (IF rows[task].stop THEN 1 ELSE 0)
         \/ exit' = "failed" /\ late' = late
  BY DEF LaunchChild, Child!Start
<1>4. late = 0
  BY <1>3 DEF IInv, LateInv
<1>5. Current' = Current /\ CurrentPlan' = CurrentPlan
  BY <1>3 DEF Current, CurrentPlan
<1>6. LateInv' /\ late' \in Nat
  BY <1>3, <1>4 DEF LateInv
<1>7. WorkerTypes'
  BY <1>0, <1>3, <1>6 DEF WorkerTypes
<1>8. WorkerInv'
  BY <1>3, <1>5 DEF IInv, WorkerInv, Working
<1>9. ExitInv'
  BY <1>3, <1>5 DEF ExitInv
<1> QED BY <1>2, <1>3, <1>6, <1>7, <1>8, <1>9, RowlessStep DEF rowVars

\* The child works.
LEMMA ChildStepStep == ASSUME IInv, ChildStep PROVE IInv'
<1>0. HostTypes /\ WorkerTypes /\ ChildTypes
  BY TypeParts DEF IInv
<1>1. UNCHANGED <<rows, latest, granted, request, workerVars, corpus, head, plans, faults>> /\ holder' = holder
  BY DEF ChildStep, rowVars, hostVars, Child!Step, Child!Open, Child!Finish, Child!Begin, Child!Accept
<1>2. ChildTypes' /\ Gains
  BY <1>0, ChildGains DEF ChildStep
<1>3. HostTypes' /\ WorkerTypes'
  BY <1>0, <1>1 DEF HostTypes, WorkerTypes, workerVars
<1>4. Current' = Current /\ CurrentPlan' = CurrentPlan
  BY <1>1 DEF Current, CurrentPlan, workerVars
<1>5. WorkerInv' /\ LateInv'
  BY <1>1, <1>4 DEF IInv, WorkerInv, LateInv, workerVars
<1>6. ExitInv'
  <2>1. exit = "succeeded" => CurrentPlan \in ChildPlans
    BY CurrentFacts DEF IInv, ExitInv
  <2> QED BY <1>1, <1>2, <1>4, <2>1 DEF IInv, ExitInv, workerVars, Gains
<1> QED BY <1>1, <1>2, <1>3, <1>5, <1>6, RowlessStep DEF rowVars

\* The child ends: with success only when the journal of its plan is COMPLETE.
LEMMA ChildExitStep == ASSUME IInv, ChildExit PROVE IInv'
<1>0. HostTypes /\ WorkerTypes /\ ChildTypes
  BY TypeParts DEF IInv
<1>1. PICK q \in ChildPlans :
         /\ Child!Leave(q)
         /\ exit' \in IF exit # "running" THEN {exit}
                      ELSE IF journal[q] = "COMPLETE" THEN {"succeeded", "failed"}
                      ELSE {"failed"}
  BY DEF ChildExit
<1>2. UNCHANGED <<rows, latest, granted, request, pc, task, completed, late, corpus, head, plans, faults>>
  BY DEF ChildExit, rowVars, hostVars
<1>3. ChildTypes' /\ Gains
  BY <1>0, <1>1, ChildGains
<1>4. HostTypes' /\ WorkerTypes'
  BY <1>0, <1>1, <1>2 DEF HostTypes, WorkerTypes
<1>5. Current' = Current /\ CurrentPlan' = CurrentPlan
  BY <1>2 DEF Current, CurrentPlan
<1>6. WorkerInv' /\ LateInv'
  BY <1>2, <1>5 DEF IInv, WorkerInv, LateInv
<1>7. ExitInv'
  BY <1>1, <1>2, <1>5 DEF IInv, ExitInv, Child!Leave
<1> QED BY <1>2, <1>3, <1>4, <1>6, <1>7, RowlessStep DEF rowVars

\* The checkpoint: one more child whose journal is COMPLETE.
LEMMA CheckpointStep == ASSUME IInv, Checkpoint PROVE IInv'
<1>0. RowTypes /\ RequestTypes /\ HostTypes /\ WorkerTypes /\ ChildTypes
  BY TypeParts DEF IInv
<1>1. PICK i \in Tasks : i = task
  BY TaskFacts DEF Checkpoint
<1>2. PICK r \in Rows : r = rows[i] /\ SoundRow(r) /\ TrueRow(r) /\ r.status = "RUNNING"
  BY <1>1, TaskFacts DEF Checkpoint
<1>3. PICK c \in Nat : c = completed
  BY <1>0, Numbers DEF WorkerTypes
<1>4. r.plan \in FrozenPlans /\ r.approved = r.plan /\ r.completed = c
  BY <1>1, <1>2, <1>3, TaskFacts DEF Checkpoint, Working, IInv, WorkerInv
<1>5. r.plan.start + c <= r.plan.end /\ CurrentPlan = <<r.plan.generation, r.plan.start + c>>
  BY <1>1, <1>2, <1>3 DEF Current, CurrentPlan, Checkpoint, IInv, WorkerInv
<1>6. journal[<<r.plan.generation, r.plan.start + c>>] = "COMPLETE"
  BY <1>5 DEF Checkpoint, ChildAcceptable, IInv, ExitInv
<1>a. c + 1 \in 0..MaxCorpus /\ r.plan.start + (c + 1) <= r.plan.end + 1
  BY <1>4, <1>5, PlanFacts, Numbers
<1> DEFINE row == [r EXCEPT !.completed = c + 1, !.error = "none"]
<1>7. Writes(i, row)
  BY <1>0, <1>1, <1>2, <1>3 DEF Checkpoint, Writes, RowTypes, Tasks
<1>8. row \in Rows /\ row.status = "RUNNING" /\ row.plan = r.plan /\ row.stop = r.stop
      /\ row.approved = r.approved /\ row.completed = c + 1 /\ row.error = "none"
  BY <1>2, <1>a DEF Rows
<1> HIDE DEF row
<1>9. SoundRow(row)
  BY <1>2, <1>4, <1>a, <1>8, PlanFacts DEF SoundRow
<1>10. TrueRow(row)'
  <2>1. ASSUME NEW s \in r.plan.start..(r.plan.start + (c + 1) - 1)
        PROVE  journal[<<r.plan.generation, s>>] = "COMPLETE"
    <3>1. CASE s = r.plan.start + c
      BY <1>6, <3>1
    <3>2. CASE s # r.plan.start + c
      <4>1. s \in r.plan.start..(r.plan.start + r.completed - 1)
        BY <1>4, <2>1, <3>2, PlanFacts, Numbers
      <4>2. r.plan # NoPlan
        BY <1>4, PlanFacts
      <4> QED BY <1>2, <4>1, <4>2 DEF TrueRow
    <3> QED BY <3>1, <3>2
  <2> QED BY <1>8, <2>1 DEF TrueRow, Checkpoint, childVars
<1>11. /\ rows' \in Seq(Rows) /\ Len(rows') = Len(rows) /\ Tasks' = Tasks
       /\ rows'[i] = row /\ \A j \in Tasks : j # i => rows'[j] = rows[j]
  BY <1>0, <1>7, <1>8, WriteFacts
<1>12. /\ pc' = "check" /\ exit' = "none" /\ completed' = c + 1
       /\ UNCHANGED <<latest, granted, late, request, task, corpus, head, plans, faults, childVars>>
  BY <1>3 DEF Checkpoint, hostVars
<1>13. RowTypes' /\ RequestTypes' /\ HostTypes' /\ WorkerTypes' /\ ChildTypes' /\ Gains
  BY <1>0, <1>a, <1>11, <1>12, ChildGains
  DEF RowTypes, RequestTypes, HostTypes, WorkerTypes
<1>14. RowInv'
  BY <1>0, <1>7, <1>8, <1>9, <1>10, <1>13, RowsWritten DEF IInv
<1>15. GrantInv'
  BY <1>8, <1>11, <1>12 DEF IInv, GrantInv
<1>16. LatestInv'
  BY <1>0, <1>2, <1>11, <1>12 DEF IInv, LatestInv, RowTypes, Tasks
<1>17. WorkerInv' /\ ExitInv'
  <2>1. row.approved # NoPlan
    BY <1>4, <1>8, PlanFacts
  <2>2. i # 0
    BY <1>0 DEF RowTypes, Tasks
  <2> QED BY <1>1, <1>8, <1>11, <1>12, <2>1, <2>2 DEF WorkerInv, ExitInv, Working
<1>18. LateInv'
  BY <1>1, <1>2, <1>8, <1>11, <1>12 DEF IInv, LateInv, Checkpoint
<1> QED BY <1>13, <1>14, <1>15, <1>16, <1>17, <1>18, TypeParts
    DEF IInv, TypeOK, RowTypes, RequestTypes, HostTypes, WorkerTypes, ChildTypes

\* The worker claims the oldest task, or ends.
LEMMA ClaimStep == ASSUME IInv, Claim PROVE IInv'
<1>0. RowTypes /\ RequestTypes /\ HostTypes /\ WorkerTypes /\ ChildTypes
  BY TypeParts DEF IInv
<1>1. /\ pc = "ready" /\ UNCHANGED <<latest, late, request, exit, corpus, head, plans, faults, childVars>>
  BY DEF Claim, hostVars
<1>2. HostTypes' /\ ChildTypes' /\ Gains
  BY <1>0, <1>1, ChildGains DEF HostTypes
<1>3. exit = "none" /\ late = 0
  BY <1>1 DEF IInv, ExitInv, LateInv
<1>4. CASE In(Claimable) = {}
  <2>1. pc' = "down" /\ UNCHANGED <<rows, granted, task, completed>>
    BY <1>4 DEF Claim
  <2>2. WorkerTypes'
    BY <1>0, <1>1, <2>1 DEF WorkerTypes
  <2>3. WorkerInv' /\ ExitInv' /\ LateInv'
    BY <1>1, <1>3, <2>1 DEF WorkerInv, ExitInv, LateInv, Working
  <2> QED BY <1>1, <1>2, <2>1, <2>2, <2>3, RowlessStep DEF rowVars
<1>5. CASE In(Claimable) # {}
  <2>1. PICK i \in Tasks : i = Oldest(In(Claimable)) /\ rows[i].status \in Claimable
    BY <1>0, <1>5, OldestFacts DEF In
  <2>2. PICK r \in Rows : r = rows[i] /\ SoundRow(r) /\ TrueRow(r)
    BY <1>0, RowFacts DEF IInv, RowInv
  <2> DEFINE row == [r EXCEPT !.status = "RUNNING", !.error = "none"]
  <2>3. Writes(i, row)
    BY <1>0, <1>5, <2>1, <2>2 DEF Claim, Writes, RowTypes, Tasks
  <2>4. row \in Rows /\ row.status = "RUNNING" /\ row.plan = r.plan
        /\ row.approved = r.approved /\ row.completed = r.completed /\ row.error = "none"
    BY DEF Rows, Statuses, ActiveStatuses
  <2> HIDE DEF row
  <2>5. SoundRow(row) /\ TrueRow(row) /\ TrueRow(row)'
    BY <1>1, <2>2, <2>4 DEF SoundRow, TrueRow, childVars
  <2>6. /\ rows' \in Seq(Rows) /\ Len(rows') = Len(rows) /\ Tasks' = Tasks
        /\ rows'[i] = row /\ \A j \in Tasks : j # i => rows'[j] = rows[j]
    BY <1>0, <2>3, <2>4, WriteFacts
  <2>7. /\ task' = i /\ completed' = r.completed /\ granted' = granted \ {i}
        /\ pc' = IF r.status = "PREPARE_QUEUED" THEN "prepare" ELSE "open"
    BY <1>5, <2>1, <2>2 DEF Claim
  <2>a. i \in 1..Len(rows) /\ r.completed \in 0..MaxCorpus
    BY <1>0, <2>2 DEF RowTypes, Tasks, Rows
  <2>b. WorkerTypes'
    BY <1>0, <1>1, <2>6, <2>7, <2>a DEF WorkerTypes
  <2>8. RowTypes' /\ RequestTypes' /\ WorkerTypes'
    BY <1>0, <1>1, <2>6, <2>7, <2>b DEF RowTypes, RequestTypes
  <2>9. RowInv'
    BY <1>0, <1>2, <2>3, <2>4, <2>5, RowsWritten DEF IInv
  <2>10. GrantInv'
    BY <2>4, <2>6, <2>7 DEF IInv, GrantInv
  <2>11. LatestInv'
    BY <1>0, <1>1, <2>1, <2>6 DEF IInv, LatestInv, RowTypes, Tasks, Claimable
  <2>12. WorkerInv'
    <3>1. r.status = "PREPARE_QUEUED" => r.approved = NoPlan
      BY <2>2 DEF SoundRow
    <3>2. r.status # "PREPARE_QUEUED" => r.approved # NoPlan
      BY <2>1, <2>2 DEF SoundRow, Claimable
    <3>3. i # 0
      BY <1>0 DEF RowTypes, Tasks
    <3> QED BY <2>4, <2>6, <2>7, <3>1, <3>2, <3>3 DEF WorkerInv, Working
  <2>13. ExitInv' /\ LateInv'
    BY <1>1, <1>3 DEF ExitInv, LateInv
  <2> QED BY <1>2, <2>8, <2>9, <2>10, <2>11, <2>12, <2>13, TypeParts
      DEF IInv, TypeOK, RowTypes, RequestTypes, HostTypes, WorkerTypes, ChildTypes
<1> QED BY <1>4, <1>5

\* A function on 1..n is a sequence.
LEMMA SequenceOf == ASSUME NEW S, NEW n \in Nat, NEW f \in [1..n -> S] PROVE f \in Seq(S) /\ Len(f) = n
  OBVIOUS

\* A worker that starts fails closed: an interrupted execution waits for an operator.
LEMMA RecoverStep == ASSUME IInv, Recover PROVE IInv'
<1>0. RowTypes /\ RequestTypes /\ HostTypes /\ WorkerTypes /\ ChildTypes
  BY TypeParts DEF IInv
<1>1. /\ pc = "down" /\ pc' = "ready"
      /\ UNCHANGED <<latest, granted, late, request, task, completed, exit, corpus, head, plans, faults, childVars>>
  BY DEF Recover, hostVars
<1>2. ASSUME NEW i \in Tasks
      PROVE  /\ rows'[i] \in Rows /\ SoundRow(rows'[i]) /\ TrueRow(rows[i])'
             /\ rows'[i].status = "RUN_QUEUED" => rows[i].status = "RUN_QUEUED"
             /\ rows[i].status = "SUCCESS" => rows'[i].status = "SUCCESS"
  <2>1. PICK r \in Rows : r = rows[i] /\ SoundRow(r) /\ TrueRow(r)
    BY <1>0, RowFacts DEF IInv, RowInv
  <2>2. CASE r.status # "RUNNING"
    <3>1. rows'[i] = r
      BY <2>1, <2>2 DEF Recover
    <3> QED BY <1>1, <2>1, <3>1 DEF TrueRow, childVars
  <2>3. CASE r.status = "RUNNING"
    <3>1. PICK st \in {"INTERRUPTED", "BLOCKED", "PREPARE_QUEUED"} :
             st = RecoveredStatus(r) /\ (st = "PREPARE_QUEUED" => r.approved = NoPlan)
      BY DEF RecoveredStatus
    <3> DEFINE row == [r EXCEPT !.status = st, !.error = "none"]
    <3>2. rows'[i] = row
      BY <2>1, <2>3, <3>1 DEF Recover
    <3>3. row \in Rows /\ row.status = st /\ row.plan = r.plan
          /\ row.approved = r.approved /\ row.completed = r.completed /\ row.error = "none"
      BY DEF Rows, Statuses, ActiveStatuses, Resumable
    <3> HIDE DEF row
    <3>4. SoundRow(row)
      BY <2>1, <3>1, <3>3 DEF SoundRow
    <3> QED BY <1>1, <2>1, <2>3, <3>1, <3>2, <3>3, <3>4 DEF TrueRow, childVars
  <2> QED BY <2>2, <2>3
<1>3. DOMAIN rows = 1..Len(rows) /\ Len(rows) \in Nat /\ Tasks = 1..Len(rows)
  BY <1>0 DEF RowTypes, Tasks
<1>4. rows' = [i \in 1..Len(rows) |-> rows'[i]]
  BY <1>3 DEF Recover
<1>5. rows' \in [1..Len(rows) -> Rows]
  BY <1>2, <1>3, <1>4
<1>6. rows' \in Seq(Rows) /\ Len(rows') = Len(rows) /\ Tasks' = Tasks
  BY <1>3, <1>5, SequenceOf DEF Tasks
<1>7. RowTypes' /\ RequestTypes' /\ HostTypes' /\ WorkerTypes' /\ ChildTypes'
  BY <1>0, <1>1, <1>6
  DEF RowTypes, RequestTypes, HostTypes, WorkerTypes, ChildTypes, childVars
<1>8. RowInv'
  BY <1>2, <1>6 DEF RowInv, TrueRow
<1>9. GrantInv' /\ LatestInv'
  BY <1>0, <1>1, <1>2, <1>3, <1>6 DEF IInv, GrantInv, LatestInv, RowTypes
<1>10. WorkerInv' /\ ExitInv' /\ LateInv'
  BY <1>1 DEF IInv, WorkerInv, ExitInv, LateInv, Working
<1> QED BY <1>7, <1>8, <1>9, <1>10, TypeParts
    DEF IInv, TypeOK, RowTypes, RequestTypes, HostTypes, WorkerTypes, ChildTypes

----------------------------------------------------------------------------
\* The theorems.

\* The inductive invariant holds at first and every step keeps it.
LEMMA Invariant == Spec => []IInv
<1>1. Init => IInv
  <2> SUFFICES ASSUME Init PROVE IInv
    OBVIOUS
  <2>1. RowTypes /\ RequestTypes /\ HostTypes /\ WorkerTypes
    BY Numbers, TaskConstants DEF Init, RowTypes, RequestTypes, HostTypes, WorkerTypes, Tasks
  <2>2. ChildTypes
    BY DEF Init, Child!Init, ChildTypes
  <2>3. RowInv /\ GrantInv /\ LatestInv /\ WorkerInv /\ ExitInv /\ LateInv
    BY DEF Init, RowInv, GrantInv, LatestInv, WorkerInv, ExitInv, LateInv, Tasks, Working
  <2> QED BY <2>1, <2>2, <2>3, TypeParts DEF IInv
<1>2. IInv /\ [Next]_vars => IInv'
  <2> SUFFICES ASSUME IInv, [Next]_vars PROVE IInv'
    OBVIOUS
  <2>1. CASE Operator
    BY <2>1, AskStep, QueueStep, StopStep, ApproveStep, ResumeStep, RecoverAuditStep DEF Operator
  <2>2. CASE Worker
    BY <2>2, RecoverStep, ClaimStep, PrepareStep, FailSteps, OpenStep, CheckStopStep, LaunchStep,
       CheckpointStep DEF Worker
  <2>3. CASE ChildStep \/ ChildExit \/ Crash \/ NewSource \/ NewMain
    BY <2>3, ChildStepStep, ChildExitStep, HostSteps
  <2>4. CASE UNCHANGED vars
    <3>0. HostTypes /\ WorkerTypes /\ ChildTypes
      BY TypeParts DEF IInv
    <3>1. UNCHANGED <<rowVars, request, workerVars, hostVars, childVars, faults>>
      BY <2>4 DEF vars
    <3>2. HostTypes' /\ WorkerTypes' /\ ChildTypes' /\ Gains
      BY <3>0, <3>1, ChildGains DEF HostTypes, WorkerTypes, hostVars, workerVars, rowVars
    <3>3. WorkerInv' /\ ExitInv' /\ LateInv'
      BY <3>1, WorkerStays DEF IInv, Keeps, rowVars
    <3> QED BY <3>1, <3>2, <3>3, RowlessStep
  <2> QED BY <2>1, <2>2, <2>3, <2>4 DEF Next
<1> QED BY <1>1, <1>2, PTL DEF Spec

\* Every variable keeps its type: rows, requests, the worker, the child and the host.
THEOREM TaskTypes == Spec => []TypeOK
<1>1. IInv => TypeOK
  BY DEF IInv
<1> QED BY <1>1, Invariant, PTL

\* What a row says is on the target: the packages its checkpoint covers have a
\* COMPLETE journal, and SUCCESS means that the whole frozen corpus is accepted,
\* through deaths of the worker, orphaned children and failed audits.
THEOREM RowsStayTrue == Spec => []RowsAreTrue
<1>1. IInv => RowsAreTrue
  BY DEF IInv, RowInv, TrueRow, RowsAreTrue
<1> QED BY <1>1, Invariant, PTL

\* After a stop request at most the child whose start had already been decided still
\* begins.
THEOREM StopIsHonoured == Spec => []StopHonoured
<1>1. IInv => StopHonoured
  BY DEF IInv, LateInv, StopHonoured
<1> QED BY <1>1, Invariant, PTL

\* Every execution a worker claims was asked for by an operator since the last one:
\* the recovery never queues an execution by itself.
THEOREM ExecutionIsAskedFor == Spec => OperatorStarts
<1> DEFINE Asked == \A i \in Tasks : pc = "ready" /\ pc' = "open" /\ task' = i => i \in granted
<1>1. IInv /\ [Next]_vars => Asked
  <2> SUFFICES ASSUME IInv, [Next]_vars, NEW i \in Tasks, pc = "ready", pc' = "open", task' = i
               PROVE  i \in granted
    OBVIOUS
  <2>0. RowTypes
    BY TypeParts DEF IInv
  <2>1. Claim
    BY DEF Next, Operator, Worker, Ask, QueuePrepare, RequestStop, Approve, Resume,
           RecoverFinalAudit, Recover, Prepare, PrepareFails, Ends, OpenPlan, CheckStop,
           LaunchChild, Checkpoint, ChildFails, ArchiveFails, FinalAudit, FinalAuditFails,
           ChildStep, ChildExit, Crash, NewSource, NewMain, vars, workerVars
  <2>2. In(Claimable) # {} /\ i = Oldest(In(Claimable)) /\ rows[i].status # "PREPARE_QUEUED"
    BY <2>1 DEF Claim
  <2>3. rows[i].status \in Claimable
    BY <2>0, <2>2, OldestFacts DEF In
  <2> QED BY <2>2, <2>3 DEF Claimable, IInv, GrantInv
<1> QED BY <1>1, Invariant, PTL DEF Spec, OperatorStarts

\* Once a task has an approved plan, no step changes the plan or the approval.
LEMMA PlanKept ==
    ASSUME IInv, Next, NEW i \in Tasks, rows[i].approved # NoPlan
    PROVE  rows'[i].plan = rows[i].plan /\ rows'[i].approved = rows[i].plan
<1>0. RowTypes /\ rows \in Seq(Rows) /\ DOMAIN rows = Tasks /\ Tasks = 1..Len(rows)
  BY TypeParts DEF IInv, RowTypes, Tasks
<1>1. rows[i] \in Rows /\ rows[i].approved = rows[i].plan
  BY <1>0, RowFacts DEF IInv, RowInv, SoundRow
<1>2. CASE UNCHANGED rows
  BY <1>1, <1>2
<1>3. CASE QueuePrepare
  BY <1>0, <1>1, <1>3 DEF QueuePrepare
<1>4. ASSUME NEW j \in Tasks, Approve(j) PROVE rows'[i].plan = rows[i].plan /\ rows'[i].approved = rows[i].plan
  BY <1>0, <1>1, <1>4 DEF Approve, Rows
<1>5. ASSUME NEW j \in Tasks, Resume(j) \/ RecoverFinalAudit(j)
      PROVE  rows'[i].plan = rows[i].plan /\ rows'[i].approved = rows[i].plan
  <2>1. CASE Resume(j)
    <3>1. PICK st : st = ResumedStatus(rows[j])
      OBVIOUS
    <3>2. rows' = [rows EXCEPT ![j].status = st, ![j].stop = FALSE, ![j].error = "none"]
      BY <2>1, <3>1 DEF Resume
    <3> QED BY <1>0, <1>1, <3>2 DEF Rows
  <2>2. CASE RecoverFinalAudit(j)
    <3>1. rows' = [rows EXCEPT ![j].status = "SUCCESS", ![j].error = "none"]
      BY <2>2 DEF RecoverFinalAudit
    <3> QED BY <1>0, <1>1, <3>1 DEF Rows
  <2> QED BY <1>5, <2>1, <2>2
<1>6. CASE RequestStop
  BY <1>0, <1>1, <1>6 DEF RequestStop, Rows
<1>7. CASE Recover
  BY <1>0, <1>1, <1>7 DEF Recover, Rows
<1>8. CASE Claim
  <2>1. PICK j : j = Oldest(In(Claimable))
    OBVIOUS
  <2>2. UNCHANGED rows \/ rows' = [rows EXCEPT ![j].status = "RUNNING", ![j].error = "none"]
    BY <1>8, <2>1 DEF Claim
  <2>3. CASE i = j /\ ~UNCHANGED rows
    <3>1. rows'[i] = [rows[i] EXCEPT !.status = "RUNNING", !.error = "none"]
      BY <1>0, <2>2, <2>3
    <3> QED BY <1>1, <3>1 DEF Rows
  <2>4. CASE i # j /\ ~UNCHANGED rows
    BY <1>0, <1>1, <2>2, <2>4
  <2> QED BY <1>2, <2>3, <2>4
<1>9. CASE Prepare
  <2>1. task # i
    BY <1>9 DEF Prepare, IInv, WorkerInv
  <2> QED BY <1>0, <1>1, <1>9, <2>1 DEF Prepare
<1>10. ASSUME NEW st, NEW er, Ends(st, er) PROVE rows'[i].plan = rows[i].plan /\ rows'[i].approved = rows[i].plan
  BY <1>0, <1>1, <1>10 DEF Ends, Rows
<1>11. CASE Checkpoint
  BY <1>0, <1>1, <1>11 DEF Checkpoint, Rows
<1>12. CASE PrepareFails \/ OpenPlan \/ CheckStop \/ ChildFails \/ ArchiveFails \/ FinalAudit \/ FinalAuditFails
  BY <1>2, <1>10, <1>12
  DEF PrepareFails, OpenPlan, CheckStop, ChildFails, ArchiveFails, FinalAudit, FinalAuditFails
<1>13. CASE Ask("one") \/ Ask("end") \/ LaunchChild \/ ChildStep \/ ChildExit \/ Crash \/ NewSource \/ NewMain
  BY <1>2, <1>13 DEF Ask, LaunchChild, ChildStep, ChildExit, Crash, NewSource, NewMain, rowVars
<1> QED BY <1>3, <1>4, <1>5, <1>6, <1>7, <1>8, <1>9, <1>11, <1>12, <1>13 DEF Next, Operator, Worker

\* Only the worker starts children.
LEMMA OnlyLaunch ==
    ASSUME Next, holder' # holder, holder' # NoChild PROVE LaunchChild /\ Child!Start(CurrentPlan)
<1>1. CASE Operator
  BY <1>1 DEF Operator, Ask, QueuePrepare, RequestStop, Approve, Resume, RecoverFinalAudit, childVars
<1>2. CASE Worker
  BY <1>2 DEF Worker, Recover, Claim, Prepare, PrepareFails, OpenPlan, CheckStop, LaunchChild,
              Checkpoint, ChildFails, ArchiveFails, FinalAudit, FinalAuditFails, childVars
<1>3. CASE ChildStep
  BY <1>3 DEF ChildStep, Child!Step, Child!Open, Child!Finish, Child!Begin, Child!Accept
<1>4. CASE ChildExit
  BY <1>4 DEF ChildExit, Child!Leave
<1>5. CASE Crash \/ NewSource \/ NewMain
  BY <1>5 DEF Crash, NewSource, NewMain, childVars
<1> QED BY <1>1, <1>2, <1>3, <1>4, <1>5 DEF Next

\* What is executed is the plan that was approved: neither changes after the
\* approval, and a child is started for an approved plan and a package of its range
\* only.
THEOREM OnlyApprovedPlans == Spec => ApprovedPlanOnly
<1> DEFINE Kept == \A i \in Tasks : rows[i].approved # NoPlan =>
                      rows'[i].plan = rows[i].plan /\ rows'[i].approved = rows[i].plan
           Begun == holder' # holder /\ holder' # NoChild =>
                      \E i \in Tasks : /\ rows[i].approved # NoPlan
                                       /\ rows[i].approved.generation = holder'[1]
                                       /\ holder'[2] \in rows[i].approved.start..rows[i].approved.end
<1>1. IInv /\ Next => Kept
  BY PlanKept
<1>2. IInv /\ Next => Begun
  <2> SUFFICES ASSUME IInv, Next, holder' # holder, holder' # NoChild
               PROVE  \E i \in Tasks : /\ rows[i].approved # NoPlan
                                       /\ rows[i].approved.generation = holder'[1]
                                       /\ holder'[2] \in rows[i].approved.start..rows[i].approved.end
    OBVIOUS
  <2>1. pc = "launch" /\ holder' = CurrentPlan
    BY OnlyLaunch DEF LaunchChild, Child!Start
  <2>2. task \in Tasks /\ rows[task].approved = rows[task].plan /\ rows[task].plan \in FrozenPlans
    BY <2>1, TaskFacts DEF Working
  <2>3. holder'[1] = rows[task].plan.generation /\ holder'[2] = Current
    BY <2>1 DEF CurrentPlan
  <2>4. Current \in rows[task].plan.start..rows[task].plan.end
    <3>1. completed \in Nat
      BY Numbers DEF IInv, TypeOK
    <3>2. Current <= rows[task].plan.end
      BY <2>1 DEF IInv, WorkerInv
    <3> QED BY <2>2, <3>1, <3>2, PlanFacts, Numbers DEF Current
  <2> QED BY <2>2, <2>3, <2>4, PlanFacts
<1> QED BY <1>1, <1>2, Invariant, PTL DEF Spec, ApprovedPlanOnly
=============================================================================
