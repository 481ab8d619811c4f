---------------------------- MODULE ContactProofs ----------------------------
(***************************************************************************)
(* Proofs about the two components of app/contact_ingest, which share no   *)
(* state and no name.                                                      *)
(*                                                                         *)
(* CountryInference, for any number of entities, processes, runs, crashes  *)
(* and imports: the types hold and accepted countries are kept however     *)
(* runs are resumed; that SUCCESS skips nobody and that nothing is         *)
(* evaluated again is proved if no run is resumed before its creator has   *)
(* tried the lock (~EarlyResume; CountryEarlyResume.cfg shows why).        *)
(*                                                                         *)
(* ContactTasks, for any number of files, threads, crashes and errors: the *)
(* types hold in every deployment; that a task is imported once at a time  *)
(* needs one API process; what SUCCESS and the archive mean needs,         *)
(* besides, that nobody changes a file under an import.  The runs of       *)
(* MCContactTasks show that both conditions are needed.                    *)
(***************************************************************************)
EXTENDS ContactTasks, CountryInference, TLAPS, FiniteSetTheorems

-----------------------------------------------------------------------------
(* Country inference: what holds in every reachable state.                 *)

\* Entity e is in the range of work unit u.
Covers(u, e) == u.lower <= e /\ e <= u.upper

\* At most one process holds the advisory lock, and it is between taking it and its end.
LockInv ==
    /\ \A p, q \in runLock : p = q
    /\ \A p \in Cmds : p \in runLock <=> cmd[p].pc \in Holding

\* Every ledger is finite.
FiniteLedgers == \A r \in Runs : IsFiniteSet(units[r])

\* An invocation has a run row, and starts from the beginning.
RowInv ==
    \A p \in Cmds :
        /\ IF cmd[p].pc = "idle" THEN cmd[p].run = 0
           ELSE cmd[p].run \in Runs /\ run[cmd[p].run].status # "none"
        /\ cmd[p].pc = "lock" => ~cmd[p].pending /\ cmd[p].cursor = 0

\* The pcs at which a process has a batch.
HasBatch == {"mark", "commit", "done"}

\* A process goes back to, or has recorded, a unit of its index.
GoesOn(p) == cmd[p].pc = "commit" \/ (cmd[p].pc = "select" /\ cmd[p].pending)

\* A batch is a set of at most batch_size entities behind the cursor; until it is
\* committed, none of them shows a country.
BatchInv ==
    \A p \in Cmds :
        /\ cmd[p].pc \in HasBatch =>
            /\ cmd[p].batch # {}
            /\ Cardinality(cmd[p].batch) \in 1 .. BatchSize
            /\ \A e \in cmd[p].batch : cmd[p].cursor < e
        /\ cmd[p].pc \in {"mark", "commit"} => \A e \in cmd[p].batch : ~Shown(e)
        /\ GoesOn(p) => \E u \in units[cmd[p].run] : u.index = cmd[p].index

\* Everything but what the ledgers mean.
RunInv == CountryTypeOK /\ FiniteLedgers /\ LockInv /\ RowInv /\ BatchInv

-----------------------------------------------------------------------------
\* A run nobody has tried the lock for belongs to its creator alone and has no unit.
CreatorInv ==
    /\ \A r \in Runs : run[r].status = "none" => units[r] = {}
    /\ \A p \in Cmds : cmd[p].pc = "lock" /\ ~cmd[p].resumed =>
        /\ units[cmd[p].run] = {}
        /\ run[cmd[p].run].status = "RUNNING"
        /\ \A q \in Cmds : cmd[q].run = cmd[p].run => q = p

\* Whoever is steady is a candidate.
SteadyInv == \A r \in Runs : steady[r] \subseteq Candidates

\* The units of a run follow each other, and only the last one may be open.
OrderInv ==
    \A r \in Runs : \A u, v \in units[r] :
        \/ u = v
        \/ u.index < v.index /\ u.upper < v.lower /\ u.status = "SUCCESS"
        \/ v.index < u.index /\ v.upper < u.lower /\ v.status = "SUCCESS"

\* A unit u of run r is backed by rows: it is SUCCESS or the run owns a row in its range.
Backed(r, u) == u.status = "SUCCESS" \/ \E e \in Owned(r) : Covers(u, e)

\* The steady entities before a unit are evaluated, and those in a backed one.
CoverInv ==
    \A r \in Runs : \A u \in units[r] :
        /\ u.lower <= u.upper
        /\ \A e \in steady[r] :
            (e < u.lower \/ (Covers(u, e) /\ Backed(r, u))) => e \in evald[r]

\* Every row belongs to a unit of its run.
OwnerInv == \A e \in Entities : inf[e].run \in Runs => \E u \in units[inf[e].run] : Covers(u, e)

\* A unit that process p is through with.
Passed(p, u) == u.status = "SUCCESS" /\ u.index < cmd[p].index /\ u.upper <= cmd[p].cursor

\* The unit process p works on: it is to be done again, or its batch is under way.
Current(p, u) ==
    /\ u.index = cmd[p].index
    /\ u.status # "SUCCESS"
    /\ cmd[p].cursor < u.lower
    /\ cmd[p].pc \in {"select", "mark"} => cmd[p].pending
    /\ cmd[p].pc \in HasBatch => u.lower = Min(cmd[p].batch) /\ u.upper = Max(cmd[p].batch)
    /\ cmd[p].pc # "done" => \A e \in Owned(cmd[p].run) : ~Covers(u, e)

\* What a process in its batch loop knows of its run: everybody steady up to the cursor
\* is evaluated, the batch leaves nobody steady out, and every unit is passed or current.
Loop(p) ==
    LET r == cmd[p].run IN
    /\ \A e \in steady[r] : e <= cmd[p].cursor => e \in evald[r]
    /\ cmd[p].pc \in HasBatch =>
        \A e \in steady[r] : cmd[p].cursor < e /\ e <= Max(cmd[p].batch) => e \in cmd[p].batch
    /\ cmd[p].pc = "done" => cmd[p].batch \subseteq evald[r]
    /\ \A u \in units[r] : Passed(p, u) \/ Current(p, u)

LoopInv == \A p \in Cmds : cmd[p].pc \in HasBatch \cup {"select"} => Loop(p)

\* What the ledgers say, and what a run that ended has done.
Ledgers == OrderInv /\ CoverInv /\ OwnerInv
LedgerInv == CreatorInv /\ SteadyInv /\ Ledgers /\ LoopInv /\ SuccessIsComplete


-----------------------------------------------------------------------------
(* Least and greatest members, and the first ones of a set.                *)

\* The order of the naturals, as a set of pairs.
Less == {ss \in Nat \X Nat : ss[1] < ss[2]}

\* It is well founded.
LEMMA LessWellFounded == IsWellFoundedOn(Less, Nat)
  BY NatLessThanWellFounded DEF OpToRel, Less

\* A set of naturals has a least member.
LEMMA Least == ASSUME NEW S \in SUBSET Nat, S # {} PROVE \E x \in S : \A y \in S : x <= y
<1>1. PICK x \in S : \A y \in S : ~(<<y, x>> \in Less)
  BY WFMin, LessWellFounded
<1>2. \A y \in S : x <= y
  <2> SUFFICES ASSUME NEW y \in S, y < x PROVE FALSE
    OBVIOUS
  <2>1. <<y, x>> \in Less
    BY DEF Less
  <2> QED BY <1>1, <2>1
<1> QED BY <1>2

\* What Min returns.
LEMMA MinFacts ==
    ASSUME NEW S \in SUBSET Nat, S # {}
    PROVE  Min(S) \in S /\ \A y \in S : Min(S) <= y
  BY Least DEF Min

\* What Max returns.
LEMMA MaxFacts ==
    ASSUME NEW n \in Nat, NEW S \in SUBSET (0 .. n), S # {}
    PROVE  Max(S) \in S /\ \A y \in S : y <= Max(S)
<1> DEFINE T == {n - x : x \in S}
<1>1. T \in SUBSET Nat /\ T # {}
  OBVIOUS
<1>2. PICK t \in T : \A y \in T : t <= y
  BY <1>1, Least
<1>3. PICK m \in S : t = n - m
  BY <1>2
<1>4. \A y \in S : y <= m
  <2> TAKE y \in S
  <2>1. t <= n - y
    BY <1>2
  <2> QED BY <1>3, <2>1
<1>5. \A y \in S : m >= y
  BY <1>4
<1>6. Max(S) \in S /\ \A y \in S : Max(S) >= y
  BY <1>5 DEF Max
<1> QED BY <1>6

\* The entities are finitely many positive integers.
LEMMA EntityFacts ==
    Entities \in SUBSET (0 .. NumEntities) /\ IsFiniteSet(Entities) /\ 0 \notin Entities
<1>1. NumEntities \in Nat
  BY CountryAssumption
<1>2. IsFiniteSet(1 .. NumEntities)
  BY <1>1, FS_Interval
<1> QED BY <1>1, <1>2 DEF Entities

\* They are positive.
LEMMA EntityIsNat == \A e \in Entities : e \in Nat /\ 0 < e /\ e <= NumEntities
  BY CountryAssumption DEF Entities

\* The ends of a batch.
LEMMA BatchEnds ==
    ASSUME NEW b \in SUBSET Entities, b # {}
    PROVE  /\ Min(b) \in b /\ Max(b) \in b
           /\ \A e \in b : Min(b) <= e /\ e <= Max(b)
<1>1. NumEntities \in Nat /\ b \in SUBSET (0 .. NumEntities) /\ b \in SUBSET Nat
  BY CountryAssumption, EntityFacts
<1> QED BY <1>1, MinFacts, MaxFacts

\* The first k members of a set of entities: a prefix of it of at most k members, and
\* not empty when there is anything to take.
LEMMA FirstOfFacts ==
    ASSUME NEW S \in SUBSET Entities, NEW k \in Nat
    PROVE  /\ FirstOf(S, k) \in SUBSET S
           /\ \A d \in S, e \in FirstOf(S, k) : d <= e => d \in FirstOf(S, k)
           /\ k # 0 /\ S # {} => FirstOf(S, k) # {}
           /\ IsFiniteSet(FirstOf(S, k))
           /\ Cardinality(FirstOf(S, k)) \in 0 .. k
<1> DEFINE Below(e) == {d \in S : d < e}
           F == FirstOf(S, k)
<1>0. NumEntities \in Nat /\ S \in SUBSET (0 .. NumEntities)
  BY EntityFacts, CountryAssumption
<1>f. IsFiniteSet(S)
  BY EntityFacts, FS_Subset
<1>1. S \in SUBSET Nat /\ IsFiniteSet(S)
  BY <1>0, <1>f
<1>n. \A x \in S : x \in Nat
  BY <1>1
<1>2. \A e \in S : IsFiniteSet(Below(e)) /\ Cardinality(Below(e)) \in Nat
  <2> TAKE e \in S
  <2>1. Below(e) \in SUBSET S
    OBVIOUS
  <2> QED BY <1>1, <2>1, FS_Subset, FS_CardinalityType
<1>3. F \in SUBSET S /\ \A e \in S : e \in F <=> Cardinality(Below(e)) < k
  BY DEF FirstOf
<1>4. \A d \in S, e \in F : d <= e => d \in F
  <2> SUFFICES ASSUME NEW d \in S, NEW e \in F, d <= e PROVE d \in F
    OBVIOUS
  <2>0. e \in S
    BY <1>3
  <2>1. Below(d) \in SUBSET Below(e)
    BY <1>n, <2>0
  <2>2. Cardinality(Below(d)) <= Cardinality(Below(e))
    BY <1>2, <2>0, <2>1, FS_Subset
  <2>3. Cardinality(Below(e)) < k
    BY <1>3, <2>0
  <2>4. Cardinality(Below(d)) < k
    BY <1>2, <2>0, <2>2, <2>3
  <2> QED BY <1>3, <2>4
<1>5. ASSUME k # 0, S # {} PROVE F # {}
  <2>1. PICK x \in S : \A y \in S : x <= y
    BY <1>1, <1>5, Least
  <2>2. Below(x) = {}
    BY <1>n, <2>1
  <2>3. Cardinality(Below(x)) = 0
    BY <2>2, FS_EmptySet
  <2> QED BY <1>3, <1>5, <2>3
<1>6. IsFiniteSet(F) /\ Cardinality(F) \in Nat
  BY <1>1, <1>3, FS_Subset, FS_CardinalityType
<1>7. Cardinality(F) <= k
  <2>1. CASE F = {}
    BY <2>1, FS_EmptySet
  <2>2. CASE F # {}
    <3> DEFINE m == Max(F)
    <3>1. m \in F /\ \A y \in F : y <= m
      BY <1>0, <1>3, <2>2, MaxFacts
    <3>2. m \in S
      BY <1>3, <3>1
    <3>3. F \in SUBSET (Below(m) \cup {m})
      BY <1>n, <1>3, <3>1, <3>2
    <3>4. IsFiniteSet(Below(m)) /\ Cardinality(Below(m)) \in Nat /\ Cardinality(Below(m)) < k
      BY <1>2, <1>3, <3>1, <3>2
    <3>5. m \notin Below(m)
      BY <1>n, <3>2
    <3>6. /\ IsFiniteSet(Below(m) \cup {m})
          /\ Cardinality(Below(m) \cup {m}) = Cardinality(Below(m)) + 1
      BY <3>4, <3>5, FS_AddElement
    <3>7. Cardinality(F) <= Cardinality(Below(m) \cup {m})
      BY <3>3, <3>6, FS_Subset
    <3> QED BY <1>6, <3>4, <3>6, <3>7
  <2> QED BY <2>1, <2>2
<1> QED BY <1>3, <1>4, <1>5, <1>6, <1>7

\* What a fresh batch may take; nothing only when the run has reached its limit.
LEMMA TakeFacts ==
    ASSUME CountryTypeOK, NEW r \in Runs
    PROVE  /\ Take(r) \in 0 .. BatchSize
           /\ Take(r) = 0 => run[r].limit > 0 /\ Cardinality(Owned(r)) >= run[r].limit
<1>1. BatchSize \in Nat \ {0} /\ run[r].limit \in Nat
  BY CountryAssumption DEF CountryTypeOK, RunRows
<1>2. Cardinality(Owned(r)) \in Nat
  <2>1. Owned(r) \in SUBSET Entities
    BY DEF Owned
  <2> QED BY <2>1, EntityFacts, FS_Subset, FS_CardinalityType
<1> DEFINE left == run[r].limit - Cardinality(Owned(r))
           least == Min({BatchSize, left})
           take == Max({0, least})
<1>3. left \in Int
  BY <1>1, <1>2
<1>4. least \in {BatchSize, left} /\ least <= BatchSize /\ least <= left
  <2>1. \E x \in {BatchSize, left} : \A y \in {BatchSize, left} : x <= y
    BY <1>1, <1>3
  <2> HIDE DEF left
  <2> QED BY <2>1 DEF Min
<1>5. least \in Int
  BY <1>1, <1>3, <1>4
<1>6. take \in {0, least} /\ take >= 0 /\ take >= least
  <2>1. \E x \in {0, least} : \A y \in {0, least} : x >= y
    BY <1>5
  <2> HIDE DEF least
  <2> QED BY <2>1 DEF Max
<1>7. Take(r) = IF run[r].limit = 0 THEN BatchSize ELSE take
  BY DEF Take
<1> HIDE DEF take, least
<1>8. CASE run[r].limit = 0
  BY <1>1, <1>7, <1>8
<1>9. CASE run[r].limit # 0
  BY <1>1, <1>2, <1>3, <1>4, <1>5, <1>6, <1>7, <1>9
<1> QED BY <1>8, <1>9

-----------------------------------------------------------------------------
(* Ledgers: what the operators that rewrite one return.                    *)

\* The image of a finite set is finite.
LEMMA FiniteImage ==
    ASSUME NEW U, IsFiniteSet(U), NEW f \in [U -> WorkUnits]
    PROVE  IsFiniteSet({f[u] : u \in U})
<1> DEFINE V == {f[u] : u \in U}
<1>1. f \in Surjection(U, V)
  BY DEF Surjection
<1> QED BY <1>1, FS_Surjection

\* WithStatus writes one ledger, and only the status of units with the range of b.
LEMMA WithStatusFacts ==
    ASSUME CountryTypeOK, FiniteLedgers, NEW r \in Runs, NEW b,
           NEW st \in {"RUNNING", "SUCCESS", "FAILED"}
    PROVE  LET L == WithStatus(r, b, st) IN
           /\ L \in [Runs -> SUBSET WorkUnits]
           /\ \A q \in Runs : IsFiniteSet(L[q])
           /\ \A q \in Runs \ {r} : L[q] = units[q]
           /\ L[r] = {IF u.lower = Min(b) /\ u.upper = Max(b)
                      THEN [u EXCEPT !.status = st] ELSE u : u \in units[r]}
<1> DEFINE f == [u \in units[r] |-> IF u.lower = Min(b) /\ u.upper = Max(b)
                                    THEN [u EXCEPT !.status = st] ELSE u]
           V == {f[u] : u \in units[r]}
<1>1. units \in [Runs -> SUBSET WorkUnits] /\ units[r] \in SUBSET WorkUnits
  BY DEF CountryTypeOK
<1>2. \A u \in units[r] : [u EXCEPT !.status = st] \in WorkUnits
  BY <1>1 DEF WorkUnits
<1>3. f \in [units[r] -> WorkUnits]
  BY <1>1, <1>2
<1>4. IsFiniteSet(V)
  BY <1>3, FiniteImage DEF FiniteLedgers
<1>5. V \in SUBSET WorkUnits
  BY <1>3
<1>6. V = {IF u.lower = Min(b) /\ u.upper = Max(b)
           THEN [u EXCEPT !.status = st] ELSE u : u \in units[r]}
  OBVIOUS
<1>7. WithStatus(r, b, st) = [units EXCEPT ![r] = V]
  BY <1>6 DEF WithStatus
<1> HIDE DEF V
<1> QED BY <1>1, <1>4, <1>5, <1>6, <1>7 DEF FiniteLedgers

\* Reconciled only makes units SUCCESS whose rows are all there.
LEMMA ReconciledFacts ==
    ASSUME CountryTypeOK, FiniteLedgers, NEW r \in Runs
    PROVE  /\ Reconciled(r) \in SUBSET WorkUnits
           /\ IsFiniteSet(Reconciled(r))
<1> DEFINE f == [u \in units[r] |->
                    IF ArtifactCount(r, u) = u.count /\ \A v \in Partial(r) : u.index < v.index
                    THEN [u EXCEPT !.status = "SUCCESS"] ELSE u]
           V == {f[u] : u \in units[r]}
<1>1. units[r] \in SUBSET WorkUnits
  BY DEF CountryTypeOK
<1>2. \A u \in units[r] : [u EXCEPT !.status = "SUCCESS"] \in WorkUnits
  BY <1>1 DEF WorkUnits
<1>3. f \in [units[r] -> WorkUnits]
  BY <1>1, <1>2
<1>4. IsFiniteSet(V)
  BY <1>3, FiniteImage DEF FiniteLedgers
<1>5. V = Reconciled(r)
  BY DEF Reconciled
<1> QED BY <1>3, <1>4, <1>5

\* The ledger the error handler leaves.
LEMMA CurrentFailedFacts ==
    ASSUME CountryTypeOK, FiniteLedgers, RowInv, NEW p \in Cmds
    PROVE  /\ CurrentFailed(p) \in [Runs -> SUBSET WorkUnits]
           /\ \A q \in Runs : IsFiniteSet(CurrentFailed(p)[q])
           /\ \A q \in Runs : q # cmd[p].run => CurrentFailed(p)[q] = units[q]
<1>1. CASE cmd[p].pc \in {"mark", "commit", "done"}
  <2>1. cmd[p].run \in Runs
    BY <1>1 DEF RowInv
  <2>2. CurrentFailed(p) = WithStatus(cmd[p].run, cmd[p].batch, "FAILED")
    BY <1>1 DEF CurrentFailed
  <2> QED BY <2>1, <2>2, WithStatusFacts
<1>2. CASE cmd[p].pc \notin {"mark", "commit", "done"}
  BY <1>2 DEF CurrentFailed, CountryTypeOK, FiniteLedgers
<1> QED BY <1>1, <1>2

\* A ledger without a gap in its indices: where to go on.
LEMMA ResumeFacts ==
    ASSUME NEW L \in SUBSET WorkUnits, IsFiniteSet(L), ~Disordered(L)
    PROVE  /\ ResumeIndex(L) \in Nat
           /\ \A u \in L : u.index < ResumeIndex(L) \/ \E v \in Open(L) : v.index = ResumeIndex(L)
           /\ \A u \in Open(L) : ResumeIndex(L) <= u.index
           /\ Open(L) # {} => \E u \in Open(L) : u.index = ResumeIndex(L)
           /\ ResumeCursor(L) \in 0 .. NumEntities
           /\ \A u \in L \ Open(L) : u.upper <= ResumeCursor(L)
           /\ ResumeCursor(L) # 0 => \E u \in L \ Open(L) : u.upper = ResumeCursor(L)
<1> DEFINE n == Cardinality(L)
           I == {u.index : u \in Open(L)} \cup {n + 1}
           J == {u.upper : u \in L \ Open(L)} \cup {0}
<1>1. n \in Nat
  BY FS_CardinalityType
<1>2. \A u \in L : u.index \in 1 .. n
  BY DEF Disordered
<1>3. Open(L) \subseteq L
  BY DEF Open
<1>4. I \in SUBSET Nat /\ I # {} /\ n + 1 \in I
  BY <1>1, <1>2, <1>3
<1>5. Min(I) \in I /\ \A y \in I : Min(I) <= y
  BY <1>4, MinFacts
<1>6. ResumeIndex(L) = Min(I)
  BY DEF ResumeIndex
<1>7. \A u \in Open(L) : u.index \in I
  OBVIOUS
<1>8. Min(I) = n + 1 \/ \E u \in Open(L) : u.index = Min(I)
  BY <1>5
<1>9. ResumeCursor(L) = Max(J)
  BY DEF ResumeCursor
<1>10. NumEntities \in Nat /\ J \in SUBSET (0 .. NumEntities) /\ J # {}
  <2>1. \A u \in L : u.upper \in Entities
    BY DEF WorkUnits
  <2>2. NumEntities \in Nat
    BY CountryAssumption
  <2>3. \A y \in J : y \in 0 .. NumEntities
    BY <2>1, <2>2 DEF Entities
  <2> QED BY <2>2, <2>3
<1>11. Max(J) \in J /\ \A y \in J : y <= Max(J)
  BY <1>10, MaxFacts
<1>12. \A u \in L \ Open(L) : u.upper \in J
  OBVIOUS
<1>13. Max(J) = 0 \/ \E u \in L \ Open(L) : u.upper = Max(J)
  BY <1>11
<1> HIDE DEF I, J, n
<1>14. /\ Min(I) \in Nat
       /\ \A u \in L : u.index < Min(I) \/ \E v \in Open(L) : v.index = Min(I)
       /\ \A u \in Open(L) : Min(I) <= u.index
  BY <1>1, <1>2, <1>3, <1>4, <1>5, <1>7, <1>8
<1>15. Open(L) # {} => \E u \in Open(L) : u.index = Min(I)
  <2> SUFFICES ASSUME NEW w \in Open(L), Min(I) = n + 1 PROVE FALSE
    BY <1>8
  <2>1. w.index \in 1 .. n /\ Min(I) <= w.index
    BY <1>2, <1>3, <1>14
  <2> QED BY <1>1, <2>1
<1>16. Max(J) \in 0 .. NumEntities
  BY <1>10, <1>11
<1> QED BY <1>6, <1>9, <1>11, <1>12, <1>13, <1>14, <1>15, <1>16

-----------------------------------------------------------------------------
(* The processes, the lock, the rows and the batches.                      *)

\* A process that holds the lock is alone with it.
LEMMA Alone ==
    ASSUME LockInv, NEW p \in Cmds, cmd[p].pc \in Holding
    PROVE  \A q \in Cmds : q # p => cmd[q].pc \notin Holding
  BY DEF LockInv

\* The state of a process that has nothing to do.
LEMMA IdleFacts ==
    /\ Idle \in Invocations
    /\ Idle.pc = "idle" /\ Idle.run = 0 /\ Idle.cursor = 0 /\ ~Idle.pending /\ Idle.batch = {}
  BY CountryAssumption DEF Idle, Invocations, Steps

\* The lock after a process has stopped.
LEMMA Released ==
    ASSUME LockInv, NEW p \in Cmds, runLock' = runLock \ {p}, cmd' = [cmd EXCEPT ![p] = Idle],
           cmd \in [Cmds -> Invocations]
    PROVE  LockInv'
  BY DEF LockInv, Idle, Holding

\* The initial state.
LEMMA RunInit == CountryInit => RunInv
<1> SUFFICES ASSUME CountryInit PROVE RunInv
  OBVIOUS
<1>1. CountryTypeOK
  BY CountryAssumption
  DEF CountryInit, CountryTypeOK, InferenceRows, RunRows, Invocations, Idle, Steps, Holding,
      Verdicts, Runs
<1>2. FiniteLedgers
  BY FS_EmptySet DEF CountryInit, FiniteLedgers
<1>3. LockInv /\ RowInv /\ BatchInv
  BY DEF CountryInit, LockInv, RowInv, BatchInv, Idle, Holding, HasBatch, GoesOn
<1> QED BY <1>1, <1>2, <1>3 DEF RunInv

\* A process stops with a ledger that differs from the last in its own run at most.
LEMMA StopRun ==
    ASSUME RunInv, NEW p \in Cmds, cmd[p].pc # "idle", NEW L, NEW f, Stop(p, L, f),
           fails' \in Nat,
           L \in [Runs -> SUBSET WorkUnits], \A r \in Runs : IsFiniteSet(L[r]),
           cmd[p].pc \notin Holding => L = units
    PROVE  RunInv'
<1> USE DEF RunInv
<1>0. /\ units' = L /\ runLock' = runLock \ {p} /\ cmd' = [cmd EXCEPT ![p] = Idle]
      /\ UNCHANGED <<ent, inf, imports, steady, evald>>
      /\ run' = run \/ run' = [run EXCEPT ![cmd[p].run].status = "FAILED"]
  BY DEF Stop
<1>1. cmd[p].run \in Runs
  BY DEF RowInv
<1>2. CountryTypeOK'
  <2>1. Idle \in Invocations
    BY IdleFacts
  <2>2. run' \in [Runs -> RunRows]
    <3>1. run \in [Runs -> RunRows]
      BY DEF CountryTypeOK
    <3>2. [run[cmd[p].run] EXCEPT !.status = "FAILED"] \in RunRows
      BY <1>1, <3>1 DEF RunRows
    <3> QED BY <1>0, <1>1, <3>1, <3>2
  <2> QED BY <1>0, <2>1, <2>2 DEF CountryTypeOK
<1>3. FiniteLedgers'
  BY <1>0 DEF FiniteLedgers
<1>4. LockInv'
  BY <1>0, Released DEF CountryTypeOK
<1>5. \A r \in Runs : run[r].status # "none" => run'[r].status # "none"
  BY <1>0 DEF CountryTypeOK, RunRows
<1>6. RowInv'
  BY <1>0, <1>5 DEF RowInv, CountryTypeOK, Idle
<1>7. \A q \in Cmds : q # p => cmd[q].pc \notin Holding \/ units' = units
  BY <1>0, Alone
<1>8. BatchInv'
  <2> SUFFICES ASSUME NEW q \in Cmds
               PROVE  /\ cmd'[q].pc \in HasBatch =>
                            /\ cmd'[q].batch # {}
                            /\ Cardinality(cmd'[q].batch) \in 1 .. BatchSize
                            /\ \A e \in cmd'[q].batch : cmd'[q].cursor < e
                      /\ cmd'[q].pc \in {"mark", "commit"} =>
                            \A e \in cmd'[q].batch : ~Shown(e)'
                      /\ GoesOn(q)' => \E u \in units'[cmd'[q].run] : u.index = cmd'[q].index
    BY DEF BatchInv
  <2>1. CASE q = p
    BY <1>0, <2>1 DEF CountryTypeOK, Idle, HasBatch, GoesOn
  <2>2. CASE q # p
    <3>1. cmd'[q] = cmd[q]
      BY <1>0, <2>2 DEF CountryTypeOK
    <3>2. GoesOn(q) => units' = units
      BY <1>7, <2>2 DEF GoesOn, Holding
    <3> QED BY <1>0, <3>1, <3>2 DEF BatchInv, GoesOn, Shown
  <2> QED BY <2>1, <2>2
<1> QED BY <1>2, <1>3, <1>4, <1>6, <1>8

\* A step of p that keeps everything but p's invocation, the lock and run rows.
LEMMA MoveRun ==
    ASSUME RunInv, NEW p \in Cmds, NEW i \in Invocations, cmd' = [cmd EXCEPT ![p] = i],
           UNCHANGED <<ent, inf, fails, imports, evald>>,
           run' \in [Runs -> RunRows], steady' \in [Runs -> SUBSET Entities],
           units' \in [Runs -> SUBSET WorkUnits], \A r \in Runs : IsFiniteSet(units'[r]),
           cmd[p].pc \in Holding \/ UNCHANGED units,
           \A r \in Runs : run[r].status # "none" => run'[r].status # "none",
           IF i.pc = "idle" THEN i.run = 0 ELSE i.run \in Runs /\ run'[i.run].status # "none",
           i.pc = "lock" => ~i.pending /\ i.cursor = 0,
           IF i.pc \in Holding THEN runLock \subseteq {p} /\ runLock' = {p}
           ELSE runLock' = runLock \ {p},
           i.pc \in HasBatch =>
               /\ i.batch # {}
               /\ Cardinality(i.batch) \in 1 .. BatchSize
               /\ \A e \in i.batch : i.cursor < e,
           i.pc \in {"mark", "commit"} => \A e \in i.batch : ~Shown(e),
           i.pc = "commit" \/ (i.pc = "select" /\ i.pending) =>
               \E u \in units'[i.run] : u.index = i.index
    PROVE  RunInv'
<1> USE DEF RunInv
<1>0. cmd'[p] = i /\ \A q \in Cmds : q # p => cmd'[q] = cmd[q]
  BY DEF CountryTypeOK
<1>a. runLock' \subseteq Cmds
  BY DEF CountryTypeOK
<1>1. CountryTypeOK'
  BY <1>a DEF CountryTypeOK
<1>2. FiniteLedgers'
  BY DEF FiniteLedgers
<1>3. LockInv'
  <2>1. CASE i.pc \in Holding
    BY <1>0, <2>1 DEF LockInv
  <2>2. CASE i.pc \notin Holding
    BY <1>0, <2>2 DEF LockInv
  <2> QED BY <2>1, <2>2
<1>4. RowInv'
  BY <1>0 DEF RowInv
<1>5. BatchInv'
  <2> SUFFICES ASSUME NEW q \in Cmds
               PROVE  /\ cmd'[q].pc \in HasBatch =>
                            /\ cmd'[q].batch # {}
                            /\ Cardinality(cmd'[q].batch) \in 1 .. BatchSize
                            /\ \A e \in cmd'[q].batch : cmd'[q].cursor < e
                      /\ cmd'[q].pc \in {"mark", "commit"} =>
                            \A e \in cmd'[q].batch : ~Shown(e)'
                      /\ GoesOn(q)' => \E u \in units'[cmd'[q].run] : u.index = cmd'[q].index
    BY DEF BatchInv
  <2>0. \A e : Shown(e)' <=> Shown(e)
    BY DEF Shown
  <2>1. CASE q = p
    BY <1>0, <2>0, <2>1 DEF GoesOn
  <2>2. CASE q # p
    <3>1. cmd'[q] = cmd[q]
      BY <1>0, <2>2
    <3>2. GoesOn(q) => units' = units
      BY Alone, <2>2 DEF GoesOn, Holding
    <3> QED BY <2>0, <3>1, <3>2 DEF BatchInv, GoesOn
  <2> QED BY <2>1, <2>2
<1> QED BY <1>1, <1>2, <1>3, <1>4, <1>5

\* A new run, or a resumed one, keeps it.
LEMMA StartRun ==
    ASSUME RunInv, NEW p \in Cmds,
           (\E cfg \in Configs : StartNew(p, cfg)) \/ (\E r \in Runs : StartResume(p, r))
    PROVE  RunInv'
<1> USE DEF RunInv
<1>1. cmd[p].pc = "idle" /\ runLock' = runLock /\ p \notin runLock
  BY DEF StartNew, StartResume, LockInv, Holding
<1>2. CASE \E cfg \in Configs : StartNew(p, cfg)
  <2>1. PICK cfg \in Configs : StartNew(p, cfg)
    BY <1>2
  <2>2. PICK r \in Runs :
          /\ run[r].status = "none"
          /\ run' = [run EXCEPT ![r].status = "RUNNING", ![r].apply = cfg.apply,
                                ![r].limit = cfg.limit]
          /\ cmd' = [cmd EXCEPT ![p] = [Idle EXCEPT !.pc = "lock", !.run = r]]
          /\ steady' = [steady EXCEPT ![r] = Candidates]
    BY <2>1 DEF StartNew
  <2> DEFINE i == [Idle EXCEPT !.pc = "lock", !.run = r]
  <2>3. i \in Invocations
    <3>1. r \in 0 .. MaxRuns
      BY CountryAssumption DEF Runs
    <3> QED BY <3>1, IdleFacts DEF Invocations, Steps
  <2>4. run' \in [Runs -> RunRows]
    <3>1. cfg \in [apply : BOOLEAN, limit : Nat]
      BY CountryAssumption
    <3>2. run \in [Runs -> RunRows]
      BY DEF CountryTypeOK
    <3> DEFINE row == [run[r] EXCEPT !.status = "RUNNING", !.apply = cfg.apply,
                                     !.limit = cfg.limit]
    <3>3. row \in RunRows
      BY <3>1, <3>2 DEF RunRows
    <3>4. run' = [run EXCEPT ![r] = row]
      BY <2>2
    <3> HIDE DEF row
    <3> QED BY <3>2, <3>3, <3>4
  <2>5. steady' \in [Runs -> SUBSET Entities]
    BY <2>2 DEF CountryTypeOK, Candidates
  <2>6. cmd' = [cmd EXCEPT ![p] = i]
    BY <2>2
  <2>7. /\ run'[r].status # "none"
        /\ \A q \in Runs : run[q].status # "none" => run'[q].status # "none"
    BY <2>2 DEF CountryTypeOK, RunRows
  <2>8. UNCHANGED <<ent, inf, units, runLock, fails, imports, evald>>
    BY <2>1 DEF StartNew
  <2>9. /\ i.pc = "lock" /\ i.run = r /\ ~i.pending /\ i.cursor = 0
    BY IdleFacts DEF Invocations
  <2>10. units' \in [Runs -> SUBSET WorkUnits] /\ \A q \in Runs : IsFiniteSet(units'[q])
    BY <2>8 DEF CountryTypeOK, FiniteLedgers
  <2>11. i.pc \notin Holding /\ i.pc \notin HasBatch /\ runLock' = runLock \ {p}
    BY <1>1, <2>9 DEF Holding, HasBatch
  <2> HIDE DEF i
  <2> QED BY <2>3, <2>4, <2>5, <2>6, <2>7, <2>8, <2>9, <2>10, <2>11, MoveRun
<1>3. CASE \E r \in Runs : StartResume(p, r)
  <2>1. PICK r \in Runs : StartResume(p, r)
    BY <1>3
  <2> DEFINE i == [Idle EXCEPT !.pc = "lock", !.run = r, !.resumed = TRUE]
  <2>2. cmd' = [cmd EXCEPT ![p] = i] /\ run[r].status # "none"
    BY <2>1 DEF StartResume
  <2>3. i \in Invocations
    <3>1. r \in 0 .. MaxRuns
      BY CountryAssumption DEF Runs
    <3> QED BY <3>1, IdleFacts DEF Invocations, Steps
  <2>4. UNCHANGED <<ent, inf, run, units, runLock, fails, imports, steady, evald>>
    BY <2>1 DEF StartResume
  <2>5. /\ i.pc = "lock" /\ i.run = r /\ ~i.pending /\ i.cursor = 0
    BY IdleFacts DEF Invocations
  <2>6. /\ run' \in [Runs -> RunRows] /\ steady' \in [Runs -> SUBSET Entities]
        /\ units' \in [Runs -> SUBSET WorkUnits] /\ \A q \in Runs : IsFiniteSet(units'[q])
    BY <2>4 DEF CountryTypeOK, FiniteLedgers
  <2>7. i.pc \notin Holding /\ i.pc \notin HasBatch /\ runLock' = runLock \ {p}
    BY <1>1, <2>5 DEF Holding, HasBatch
  <2> HIDE DEF i
  <2> QED BY <2>2, <2>3, <2>4, <2>5, <2>6, <2>7, MoveRun
<1> QED BY <1>2, <1>3

\* Trying the lock keeps it.
LEMMA LockRun ==
    ASSUME RunInv, NEW p \in Cmds, TakeLock(p) \/ LockBusy(p)
    PROVE  RunInv'
<1> USE DEF RunInv
<1>1. /\ cmd[p].pc = "lock" /\ p \notin runLock /\ cmd[p].run \in Runs /\ cmd[p] \in Invocations
      /\ ~cmd[p].pending /\ run[cmd[p].run].status # "none"
  BY DEF TakeLock, LockBusy, LockInv, Holding, RowInv, CountryTypeOK
<1>2. /\ units' \in [Runs -> SUBSET WorkUnits] /\ \A q \in Runs : IsFiniteSet(units'[q])
      /\ steady' \in [Runs -> SUBSET Entities]
      /\ UNCHANGED <<ent, inf, units, fails, imports, evald>>
  BY DEF CountryTypeOK, FiniteLedgers, TakeLock, LockBusy
<1>3. CASE TakeLock(p)
  <2> DEFINE i == [cmd[p] EXCEPT !.pc = IF cmd[p].resumed THEN "reopen" ELSE "select"]
  <2>1. i \in Invocations
    BY <1>1 DEF Invocations, Steps, Holding
  <2>2. /\ i.pc \in {"reopen", "select"} /\ i.run = cmd[p].run /\ ~i.pending
    BY <1>1 DEF Invocations
  <2>3. cmd' = [cmd EXCEPT ![p] = i] /\ runLock = {} /\ runLock' = {p} /\ run' = run
    BY <1>3 DEF TakeLock, LockFree
  <2>4. i.pc \in Holding /\ i.pc \notin HasBatch
    BY <2>2 DEF Holding, HasBatch
  <2>5. run' \in [Runs -> RunRows]
    BY <2>3 DEF CountryTypeOK
  <2> HIDE DEF i
  <2> QED BY <1>1, <1>2, <2>1, <2>2, <2>3, <2>4, <2>5, MoveRun
<1>4. CASE LockBusy(p)
  <2>1. Idle \in Invocations /\ Idle.pc = "idle" /\ Idle.run = 0
    BY IdleFacts
  <2>2. run' = run \/ run' = [run EXCEPT ![cmd[p].run].status = "BUSY"]
    BY <1>4 DEF LockBusy
  <2>3. /\ run' \in [Runs -> RunRows]
        /\ \A r \in Runs : run[r].status # "none" => run'[r].status # "none"
    <3>1. run \in [Runs -> RunRows]
      BY DEF CountryTypeOK
    <3>2. [run[cmd[p].run] EXCEPT !.status = "BUSY"] \in RunRows
      BY <1>1, <3>1 DEF RunRows
    <3> QED BY <1>1, <2>2, <3>1, <3>2 DEF RunRows
  <2>4. cmd' = [cmd EXCEPT ![p] = Idle] /\ runLock' = runLock \ {p}
    BY <1>1, <1>4 DEF LockBusy
  <2>5. Idle.pc \notin Holding /\ Idle.pc \notin HasBatch
    BY <2>1 DEF Holding, HasBatch
  <2> QED BY <1>1, <1>2, <2>1, <2>3, <2>4, <2>5, MoveRun
<1> QED BY <1>3, <1>4

\* Whoever holds the lock is the only one in it.
LEMMA Held ==
    ASSUME RunInv, NEW p \in Cmds, cmd[p].pc \in Holding
    PROVE  /\ runLock = {p} /\ cmd[p] \in Invocations
           /\ cmd[p].run \in Runs /\ run[cmd[p].run].status # "none"
  BY DEF RunInv, CountryTypeOK, LockInv, RowInv, Holding

\* The refusals of the code keep it.
LEMMA RefuseRun ==
    ASSUME RunInv, NEW p \in Cmds, cmd[p].pc \in Holding, Refuse(p)
    PROVE  RunInv'
<1>1. Stop(p, CurrentFailed(p), TRUE) /\ fails' \in Nat /\ cmd[p].pc # "idle"
  BY DEF Refuse, RunInv, CountryTypeOK, Holding
<1>2. /\ CurrentFailed(p) \in [Runs -> SUBSET WorkUnits]
      /\ \A q \in Runs : IsFiniteSet(CurrentFailed(p)[q])
  BY CurrentFailedFacts DEF RunInv
<1> QED BY <1>1, <1>2, StopRun

\* Crashes and failing calls keep it.
LEMMA FailRun == ASSUME RunInv, NEW p \in Cmds, Fail(p) PROVE RunInv'
<1>1. /\ CurrentFailed(p) \in [Runs -> SUBSET WorkUnits]
      /\ \A q \in Runs : IsFiniteSet(CurrentFailed(p)[q])
      /\ units \in [Runs -> SUBSET WorkUnits]
      /\ \A q \in Runs : IsFiniteSet(units[q])
  BY CurrentFailedFacts DEF RunInv, CountryTypeOK, FiniteLedgers
<1>2. cmd[p].pc # "idle" /\ fails' \in Nat
  BY DEF Fail, RunInv, CountryTypeOK
<1>3. cmd[p].pc \notin Holding => CurrentFailed(p) = units
  BY DEF CurrentFailed, Holding
<1>4. PICK s \in BOOLEAN : Stop(p, units, s) \/ Stop(p, CurrentFailed(p), s)
  BY DEF Fail
<1>5. CASE Stop(p, units, s)
  BY <1>1, <1>2, <1>5, StopRun
<1>6. CASE Stop(p, CurrentFailed(p), s)
  BY <1>1, <1>2, <1>3, <1>6, StopRun
<1> QED BY <1>4, <1>5, <1>6

\* What the batch query returns: candidates behind the cursor, none left out before the
\* last of them, and nothing only when there is no candidate behind the cursor.
LEMMA CandidateBatchFacts ==
    ASSUME NEW after \in Nat, NEW k \in 0 .. BatchSize
    PROVE  LET b == CandidateBatch(after, k) IN
           /\ b \in SUBSET Entities
           /\ \A e \in b : e \in Candidates /\ after < e /\ ~Shown(e)
           /\ \A d \in Candidates, e \in b : after < d /\ d <= e => d \in b
           /\ b # {} => Cardinality(b) \in 1 .. BatchSize
           /\ k # 0 /\ b = {} => \A e \in Candidates : e <= after
<1> DEFINE S == {e \in Candidates : e > after}
           b == FirstOf(S, k)
<1>1. S \in SUBSET Entities /\ k \in Nat /\ BatchSize \in Nat
  BY CountryAssumption DEF Candidates
<1>2. /\ b \in SUBSET S
      /\ \A d \in S, e \in b : d <= e => d \in b
      /\ k # 0 /\ S # {} => b # {}
      /\ IsFiniteSet(b) /\ Cardinality(b) \in 0 .. k
  BY <1>1, FirstOfFacts
<1>3. b # {} => Cardinality(b) # 0
  BY <1>2, FS_EmptySet
<1>4. \A e \in Candidates : e \in Nat /\ ~Shown(e)
  BY CountryAssumption DEF Candidates, Entities
<1>5. \A e \in S : e \in Candidates /\ after < e
  BY <1>4
<1>6. \A e \in Candidates : after < e => e \in S
  BY <1>4
<1>7. b = CandidateBatch(after, k)
  BY DEF CandidateBatch
<1> HIDE DEF S, b
<1>8. b # {} => Cardinality(b) \in 1 .. BatchSize
  BY <1>1, <1>2, <1>3
<1>9. k # 0 /\ b = {} => \A e \in Candidates : e <= after
  BY <1>2, <1>4, <1>6
<1> QED BY <1>1, <1>2, <1>4, <1>5, <1>6, <1>7, <1>8, <1>9

\* Resuming keeps it.
LEMMA ReopenRun == ASSUME RunInv, NEW p \in Cmds, Reopen(p) PROVE RunInv'
<1> USE DEF RunInv
<1> DEFINE r == cmd[p].run
           ledger == Reconciled(r)
<1>1. cmd[p].pc = "reopen" /\ cmd[p].pc \in Holding
  BY DEF Reopen, Holding
<1>2. runLock = {p} /\ cmd[p] \in Invocations /\ r \in Runs /\ run[r].status # "none"
  BY <1>1, Held
<1>3. ledger \in SUBSET WorkUnits /\ IsFiniteSet(ledger)
  BY <1>2, ReconciledFacts
<1>4. /\ [units EXCEPT ![r] = ledger] \in [Runs -> SUBSET WorkUnits]
      /\ \A q \in Runs : IsFiniteSet([units EXCEPT ![r] = ledger][q])
      /\ [units EXCEPT ![r] = ledger][r] = ledger
  BY <1>2, <1>3 DEF CountryTypeOK, FiniteLedgers
<1>5. CASE Partial(r) # {} \/ Disordered(ledger)
  <2>1. Stop(p, [units EXCEPT ![r] = ledger], TRUE) /\ fails' \in Nat
    BY <1>5 DEF Reopen, CountryTypeOK
  <2> HIDE DEF ledger, r
  <2> QED BY <1>1, <1>4, <2>1, StopRun
<1>6. CASE ~(Partial(r) # {} \/ Disordered(ledger))
  <2> DEFINE i == [cmd[p] EXCEPT !.pc = "select", !.cursor = ResumeCursor(ledger),
                                  !.pending = Open(ledger) # {}, !.index = ResumeIndex(ledger)]
  <2>1. /\ units' = [units EXCEPT ![r] = ledger]
        /\ run' = [run EXCEPT ![r].status = "RUNNING"]
        /\ cmd' = [cmd EXCEPT ![p] = i]
        /\ UNCHANGED <<ent, inf, runLock, fails, imports, steady, evald>>
    BY <1>6 DEF Reopen
  <2>2. /\ ResumeIndex(ledger) \in Nat /\ ResumeCursor(ledger) \in 0 .. NumEntities
        /\ Open(ledger) # {} => \E u \in ledger : u.index = ResumeIndex(ledger)
    BY <1>3, <1>6, ResumeFacts DEF Open
  <2>3. (Open(ledger) # {}) \in BOOLEAN
    OBVIOUS
  <2>4. i \in Invocations
    BY <1>2, <2>2, <2>3 DEF Invocations, Steps, Holding
  <2>5. /\ i.pc = "select" /\ i.run = r /\ i.index = ResumeIndex(ledger)
        /\ i.pending <=> Open(ledger) # {}
    BY <1>2 DEF Invocations
  <2>6. /\ run' \in [Runs -> RunRows]
        /\ \A q \in Runs : run[q].status # "none" => run'[q].status # "none"
        /\ run'[r].status # "none"
    <3>1. run \in [Runs -> RunRows]
      BY DEF CountryTypeOK
    <3>2. [run[r] EXCEPT !.status = "RUNNING"] \in RunRows
      BY <1>2, <3>1 DEF RunRows
    <3> QED BY <1>2, <2>1, <3>1, <3>2 DEF RunRows
  <2>7. i.pc \in Holding /\ i.pc \notin HasBatch
    BY <2>5 DEF Holding, HasBatch
  <2>8. steady' \in [Runs -> SUBSET Entities]
    BY <2>1 DEF CountryTypeOK
  <2>9. /\ units' \in [Runs -> SUBSET WorkUnits] /\ \A q \in Runs : IsFiniteSet(units'[q])
        /\ units'[r] = ledger
    BY <1>4, <2>1
  <2>10. i.pc = "commit" \/ (i.pc = "select" /\ i.pending) =>
               \E u \in units'[i.run] : u.index = i.index
    BY <2>2, <2>5, <2>9
  <2>11. runLock \subseteq {p} /\ runLock' = {p} /\ UNCHANGED <<ent, inf, fails, imports, evald>>
    BY <1>2, <2>1
  <2>12. cmd' = [cmd EXCEPT ![p] = i] /\ cmd[p].pc \in Holding
    BY <1>1, <2>1
  <2>13. /\ i.pc \notin {"idle", "lock", "mark", "commit"}
         /\ i.run \in Runs /\ run'[i.run].status # "none"
    BY <1>2, <2>5, <2>6
  <2> HIDE DEF i, ledger, r
  <2> QED BY <2>4, <2>6, <2>7, <2>8, <2>9, <2>10, <2>11, <2>12, <2>13, MoveRun
<1> QED BY <1>5, <1>6

\* The unit that a process is to do again.
LEMMA PendingUnit ==
    ASSUME RunInv, NEW p \in Cmds, cmd[p].pc = "select", cmd[p].pending
    PROVE  LET u == CHOOSE v \in units[cmd[p].run] : v.index = cmd[p].index IN
           u \in units[cmd[p].run] /\ u.index = cmd[p].index /\ u \in WorkUnits
<1>1. \E v \in units[cmd[p].run] : v.index = cmd[p].index
  BY DEF RunInv, BatchInv, GoesOn
<1>2. cmd[p].run \in Runs
  BY Held DEF Holding
<1>3. units[cmd[p].run] \in SUBSET WorkUnits
  BY <1>2 DEF RunInv, CountryTypeOK
<1> QED BY <1>1, <1>3

\* Going on with a batch keeps it.
LEMMA SelectedRun ==
    ASSUME RunInv, NEW p \in Cmds, cmd[p].pc = "select", NEW k \in 0 .. BatchSize,
           NEW batch, batch = CandidateBatch(cmd[p].cursor, k), batch # {}, Selected(p, batch)
    PROVE  RunInv'
<1> USE DEF RunInv
<1> DEFINE i == [cmd[p] EXCEPT !.pc = "mark", !.batch = batch]
<1>1. cmd[p].pc \in Holding
  BY DEF Holding
<1>2. /\ runLock = {p} /\ cmd[p] \in Invocations
      /\ cmd[p].run \in Runs /\ run[cmd[p].run].status # "none"
  BY <1>1, Held
<1>3. cmd[p].cursor \in Nat
  BY <1>2 DEF Invocations
<1>4. /\ batch \in SUBSET Entities
      /\ \A e \in batch : cmd[p].cursor < e /\ ~Shown(e)
      /\ Cardinality(batch) \in 1 .. BatchSize
  BY <1>3, CandidateBatchFacts
<1>5. i \in Invocations
  BY <1>2, <1>4 DEF Invocations, Steps, Holding
<1>6. i.pc = "mark" /\ i.run = cmd[p].run /\ i.batch = batch /\ i.cursor = cmd[p].cursor
  BY <1>2 DEF Invocations
<1>7. /\ cmd' = [cmd EXCEPT ![p] = i]
      /\ UNCHANGED <<ent, inf, run, units, runLock, fails, imports, steady, evald>>
  BY DEF Selected
<1>8. i.pc \in Holding /\ i.pc \notin {"idle", "lock", "commit", "select"}
  BY <1>6 DEF Holding
<1>9. /\ run' \in [Runs -> RunRows] /\ steady' \in [Runs -> SUBSET Entities]
      /\ units' \in [Runs -> SUBSET WorkUnits] /\ \A q \in Runs : IsFiniteSet(units'[q])
      /\ run' = run /\ runLock' = {p} /\ runLock \subseteq {p}
  BY <1>2, <1>7 DEF CountryTypeOK, FiniteLedgers
<1> HIDE DEF i
<1> QED BY <1>1, <1>2, <1>4, <1>5, <1>6, <1>7, <1>8, <1>9, MoveRun

\* The end of a run keeps it.
LEMMA CompleteRun ==
    ASSUME RunInv, NEW p \in Cmds, cmd[p].pc = "select", Complete(p)
    PROVE  RunInv'
<1> USE DEF RunInv
<1> DEFINE r == cmd[p].run
<1>1. cmd[p].pc \in Holding
  BY DEF Holding
<1>2. runLock = {p} /\ r \in Runs /\ run[r].status # "none"
  BY <1>1, Held
<1>3. CASE Open(units[r]) # {}
  BY <1>1, <1>3, RefuseRun DEF Complete
<1>4. CASE Open(units[r]) = {}
  <2> DEFINE row == [run[r] EXCEPT !.status = "SUCCESS", !.evaluated = Cardinality(Owned(r)),
                                   !.accepted = Cardinality(OwnedAccepted(r))]
  <2>1. /\ run' = [run EXCEPT ![r] = row] /\ runLock' = runLock \ {p}
        /\ cmd' = [cmd EXCEPT ![p] = Idle]
        /\ UNCHANGED <<ent, inf, units, fails, imports, steady, evald>>
    BY <1>4 DEF Complete
  <2>2. Cardinality(Owned(r)) \in Nat /\ Cardinality(OwnedAccepted(r)) \in Nat
    <3>1. Owned(r) \in SUBSET Entities /\ OwnedAccepted(r) \in SUBSET Entities
      BY DEF Owned, OwnedAccepted
    <3> QED BY <3>1, EntityFacts, FS_Subset, FS_CardinalityType
  <2>3. run \in [Runs -> RunRows]
    BY DEF CountryTypeOK
  <2>4. row \in RunRows /\ row.status # "none"
    BY <1>2, <2>2, <2>3 DEF RunRows
  <2> HIDE DEF row
  <2>5. /\ run' \in [Runs -> RunRows]
        /\ \A q \in Runs : run[q].status # "none" => run'[q].status # "none"
    BY <1>2, <2>1, <2>3, <2>4
  <2>6. Idle.pc \notin Holding /\ Idle.pc \notin HasBatch
    BY IdleFacts DEF Holding, HasBatch
  <2>7. /\ steady' \in [Runs -> SUBSET Entities]
        /\ units' \in [Runs -> SUBSET WorkUnits] /\ \A q \in Runs : IsFiniteSet(units'[q])
    BY <2>1 DEF CountryTypeOK, FiniteLedgers
  <2> QED BY <1>1, <2>1, <2>5, <2>6, <2>7, IdleFacts, MoveRun
<1> QED BY <1>3, <1>4

\* Reading the next batch keeps it.
LEMMA SelectRun == ASSUME RunInv, NEW p \in Cmds, Select(p) PROVE RunInv'
<1> DEFINE r == cmd[p].run
<1>1. cmd[p].pc = "select" /\ cmd[p].pc \in Holding
  BY DEF Select, Holding
<1>2. r \in Runs
  BY <1>1, Held
<1>3. CASE cmd[p].pending
  <2> DEFINE u == CHOOSE v \in units[r] : v.index = cmd[p].index
             batch == CandidateBatch(cmd[p].cursor, u.count)
  <2>1. IF SameRange(batch, u) THEN Selected(p, batch) ELSE Refuse(p)
    BY <1>3 DEF Select
  <2>2. u \in WorkUnits
    BY <1>1, <1>3, PendingUnit
  <2>3. u.count \in 0 .. BatchSize
    BY <2>2, CountryAssumption DEF WorkUnits
  <2> HIDE DEF u
  <2>4. CASE SameRange(batch, u)
    BY <1>1, <2>1, <2>3, <2>4, SelectedRun DEF SameRange
  <2>5. CASE ~SameRange(batch, u)
    BY <1>1, <2>1, <2>5, RefuseRun
  <2> QED BY <2>4, <2>5
<1>4. CASE ~cmd[p].pending
  <2> DEFINE batch == CandidateBatch(cmd[p].cursor, Take(r))
  <2>1. IF batch = {} THEN Complete(p) ELSE Selected(p, batch)
    BY <1>4 DEF Select
  <2>2. Take(r) \in 0 .. BatchSize
    BY <1>2, TakeFacts DEF RunInv
  <2>3. CASE batch = {}
    BY <1>1, <2>1, <2>3, CompleteRun
  <2>4. CASE batch # {}
    BY <1>1, <2>1, <2>2, <2>4, SelectedRun
  <2> QED BY <2>3, <2>4
<1> QED BY <1>3, <1>4

\* The unit that MarkRunning writes.
LEMMA NewUnitFacts ==
    ASSUME NEW j \in Nat, NEW b \in SUBSET Entities, b # {}, Cardinality(b) \in 1 .. BatchSize
    PROVE  /\ NewUnit(j, b) \in WorkUnits
           /\ NewUnit(j, b).index = j /\ NewUnit(j, b).status = "RUNNING"
           /\ NewUnit(j, b).lower = Min(b) /\ NewUnit(j, b).upper = Max(b)
<1>1. Min(b) \in Entities /\ Max(b) \in Entities
  BY BatchEnds
<1>2. Fingerprint(Min(b), Max(b)) \in SUBSET Entities
  BY DEF Fingerprint, Candidates
<1> QED BY <1>1, <1>2 DEF NewUnit, WorkUnits

\* Recording a unit keeps it.
LEMMA MarkRunningRun == ASSUME RunInv, NEW p \in Cmds, MarkRunning(p) PROVE RunInv'
<1> USE DEF RunInv
<1> DEFINE r == cmd[p].run
           new == NewUnit(cmd[p].index, cmd[p].batch)
           old == {u \in units[r] : SameKey(u, new)}
<1>1. cmd[p].pc = "mark" /\ cmd[p].pc \in Holding
  BY DEF MarkRunning, Holding
<1>2. runLock = {p} /\ cmd[p] \in Invocations /\ r \in Runs /\ run[r].status # "none"
  BY <1>1, Held
<1>3. /\ cmd[p].batch \in SUBSET Entities /\ cmd[p].batch # {} /\ cmd[p].index \in Nat
      /\ Cardinality(cmd[p].batch) \in 1 .. BatchSize
      /\ \A e \in cmd[p].batch : cmd[p].cursor < e /\ ~Shown(e)
  BY <1>1, <1>2 DEF BatchInv, HasBatch, Invocations
<1>4. new \in WorkUnits /\ new.index = cmd[p].index
  BY <1>3, NewUnitFacts
<1>5. CASE \A u \in old : TriggerAllows(u, new)
  <2> DEFINE i == [cmd[p] EXCEPT !.pc = "commit"]
  <2>1. /\ units' = [units EXCEPT ![r] = (@ \ old) \cup {new}]
        /\ cmd' = [cmd EXCEPT ![p] = i]
        /\ UNCHANGED <<ent, inf, run, runLock, fails, imports, steady, evald>>
    BY <1>5 DEF MarkRunning
  <2> HIDE DEF new
  <2>2. units'[r] = (units[r] \ old) \cup {new} /\ \A q \in Runs \ {r} : units'[q] = units[q]
    BY <1>2, <2>1 DEF CountryTypeOK
  <2>3. IsFiniteSet((units[r] \ old) \cup {new})
    <3>1. IsFiniteSet(units[r] \ old)
      BY <1>2, FS_Subset DEF FiniteLedgers
    <3> QED BY <3>1, FS_AddElement
  <2>4. \A q \in Runs : IsFiniteSet(units'[q])
    BY <2>2, <2>3 DEF FiniteLedgers
  <2>5. units' \in [Runs -> SUBSET WorkUnits]
    BY <1>2, <1>4, <2>1 DEF CountryTypeOK
  <2>6. i \in Invocations
    BY <1>2 DEF Invocations, Steps, Holding
  <2>7. /\ i.pc = "commit" /\ i.run = r /\ i.batch = cmd[p].batch /\ i.index = cmd[p].index
        /\ i.cursor = cmd[p].cursor
    BY <1>2 DEF Invocations
  <2>8. \E u \in units'[i.run] : u.index = i.index
    BY <1>4, <2>2, <2>7
  <2>9. run' \in [Runs -> RunRows] /\ steady' \in [Runs -> SUBSET Entities] /\ run' = run
    BY <2>1 DEF CountryTypeOK
  <2>10. /\ i.pc \in Holding /\ i.pc \notin {"idle", "lock"}
         /\ runLock \subseteq {p} /\ runLock' = {p}
    BY <1>2, <2>1, <2>7 DEF Holding
  <2>11. cmd' = [cmd EXCEPT ![p] = i] /\ UNCHANGED <<ent, inf, fails, imports, evald>>
    BY <2>1
  <2> HIDE DEF i, old, r
  <2> QED BY <1>1, <1>2, <1>3, <2>4, <2>5, <2>6, <2>7, <2>8, <2>9, <2>10, <2>11, MoveRun
<1>6. CASE ~(\A u \in old : TriggerAllows(u, new))
  <2>1. Refuse(p)
    BY <1>6 DEF MarkRunning
  <2> QED BY <1>1, <2>1, RefuseRun
<1> QED BY <1>5, <1>6

\* Marking a unit SUCCESS keeps it.
LEMMA MarkSuccessRun == ASSUME RunInv, NEW p \in Cmds, MarkSuccess(p) PROVE RunInv'
<1> USE DEF RunInv
<1> DEFINE r == cmd[p].run
           i == [cmd[p] EXCEPT !.pc = "select", !.cursor = Max(cmd[p].batch),
                                !.pending = FALSE, !.index = @ + 1, !.batch = {}]
<1>1. cmd[p].pc = "done" /\ cmd[p].pc \in Holding
  BY DEF MarkSuccess, Holding
<1>2. runLock = {p} /\ cmd[p] \in Invocations /\ r \in Runs /\ run[r].status # "none"
  BY <1>1, Held
<1>3. cmd[p].batch \in SUBSET Entities /\ cmd[p].batch # {} /\ cmd[p].index \in Nat
  BY <1>1, <1>2 DEF BatchInv, HasBatch, Invocations
<1>4. Max(cmd[p].batch) \in 0 .. NumEntities
  BY <1>3, BatchEnds, EntityFacts
<1>5. /\ units' = WithStatus(r, cmd[p].batch, "SUCCESS")
      /\ cmd' = [cmd EXCEPT ![p] = i]
      /\ UNCHANGED <<ent, inf, run, runLock, fails, imports, steady, evald>>
  BY DEF MarkSuccess
<1>6. i \in Invocations
  <2>1. cmd[p].index + 1 \in Nat /\ {} \in SUBSET Entities
    BY <1>3
  <2> QED BY <1>2, <1>4, <2>1 DEF Invocations, Steps, Holding
<1>7. i.pc = "select" /\ i.run = r /\ ~i.pending
  BY <1>2 DEF Invocations
<1>8. units' \in [Runs -> SUBSET WorkUnits] /\ \A q \in Runs : IsFiniteSet(units'[q])
  BY <1>2, <1>5, WithStatusFacts
<1>9. run' \in [Runs -> RunRows] /\ steady' \in [Runs -> SUBSET Entities] /\ run' = run
  BY <1>5 DEF CountryTypeOK
<1>10. i.pc \in Holding /\ i.pc \notin HasBatch /\ runLock \subseteq {p} /\ runLock' = {p}
  BY <1>2, <1>5, <1>7 DEF Holding, HasBatch
<1> HIDE DEF i, r
<1> QED BY <1>1, <1>2, <1>5, <1>6, <1>7, <1>8, <1>9, <1>10, MoveRun

\* Beginning an activation keeps it.
LEMMA StartActivationRun ==
    ASSUME RunInv, NEW p \in Cmds, NEW r \in Runs, StartActivation(p, r)
    PROVE  RunInv'
<1> USE DEF RunInv
<1> DEFINE i == [Idle EXCEPT !.pc = "activate", !.run = r]
<1>1. /\ cmd' = [cmd EXCEPT ![p] = i] /\ runLock = {} /\ runLock' = {p} /\ run[r].status # "none"
      /\ UNCHANGED <<ent, inf, run, units, fails, imports, steady, evald>>
  BY DEF StartActivation, LockFree, IntegrityReady
<1>2. i \in Invocations
  <2>1. r \in 0 .. MaxRuns
    BY CountryAssumption DEF Runs
  <2> QED BY <2>1, IdleFacts DEF Invocations, Steps, Holding
<1>3. i.pc = "activate" /\ i.run = r
  BY IdleFacts DEF Invocations
<1>4. /\ units' \in [Runs -> SUBSET WorkUnits] /\ \A q \in Runs : IsFiniteSet(units'[q])
      /\ run' \in [Runs -> RunRows] /\ steady' \in [Runs -> SUBSET Entities]
  BY <1>1 DEF CountryTypeOK, FiniteLedgers
<1>5. i.pc \in Holding /\ i.pc \notin HasBatch
  BY <1>3 DEF Holding, HasBatch
<1> HIDE DEF i
<1> QED BY <1>1, <1>2, <1>3, <1>4, <1>5, MoveRun

\* A committed batch is made of typed rows.
LEMMA CommitRun == ASSUME RunInv, NEW p \in Cmds, CommitBatch(p) PROVE RunInv'
<1> USE DEF RunInv
<1> DEFINE r == cmd[p].run
           b == cmd[p].batch
<1>1. cmd[p].pc = "commit" /\ cmd[p].pc \in Holding
  BY DEF CommitBatch, Holding
<1>2. runLock = {p} /\ cmd[p] \in Invocations /\ r \in Runs /\ run[r].status # "none"
  BY <1>1, Held
<1>3. PICK verdict \in Evidence :
        inf' = [e \in Entities |->
            IF e \in b
            THEN Upserted(inf[e], r, verdict[e],
                          run[r].apply /\ verdict[e] \in Accepted /\ ent[e] = "unknown")
            ELSE inf[e]]
  BY DEF CommitBatch
<1>4. /\ evald' = [evald EXCEPT ![r] = @ \cup b]
      /\ cmd' = [cmd EXCEPT ![p].pc = "done"]
      /\ UNCHANGED <<ent, run, units, runLock, fails, imports>>
      /\ steady' = [q \in Runs |-> steady[q] \cap Candidates']
  BY DEF CommitBatch, TrackSteady
<1>5. \A e \in Entities : inf'[e] \in InferenceRows
  <2> TAKE e \in Entities
  <2>1. inf[e] \in InferenceRows /\ verdict[e] \in Verdicts /\ run[r].apply \in BOOLEAN
    BY <1>2, CountryAssumption DEF CountryTypeOK, RunRows
  <2>2. r \in 0 .. MaxRuns
    BY <1>2 DEF Invocations
  <2>3. (verdict[e] \in Accepted) \in BOOLEAN /\ (ent[e] = "unknown") \in BOOLEAN
    OBVIOUS
  <2> DEFINE a == run[r].apply /\ verdict[e] \in Accepted /\ ent[e] = "unknown"
  <2>4. a \in BOOLEAN
    BY <2>1, <2>3
  <2>5. inf'[e] = IF e \in b THEN Upserted(inf[e], r, verdict[e], a) ELSE inf[e]
    BY <1>3
  <2> HIDE DEF a
  <2>6. (inf[e].applied \/ a) \in BOOLEAN
    BY <2>1, <2>4 DEF InferenceRows
  <2> QED BY <2>1, <2>2, <2>5, <2>6 DEF Upserted, InferenceRows
<1>6. CountryTypeOK'
  <2>1. inf' \in [Entities -> InferenceRows]
    BY <1>3, <1>5
  <2>2. evald' \in [Runs -> SUBSET Entities]
    BY <1>2, <1>4 DEF CountryTypeOK, Invocations
  <2>3. steady' \in [Runs -> SUBSET Entities]
    BY <1>4 DEF CountryTypeOK
  <2>4. cmd' \in [Cmds -> Invocations]
    <3>1. [cmd[p] EXCEPT !.pc = "done"] \in Invocations
      BY <1>2 DEF Invocations, Steps, Holding
    <3> QED BY <1>4, <3>1 DEF CountryTypeOK
  <2> QED BY <1>4, <2>1, <2>2, <2>3, <2>4 DEF CountryTypeOK
<1>7. cmd'[p] = [cmd[p] EXCEPT !.pc = "done"] /\ \A q \in Cmds : q # p => cmd'[q] = cmd[q]
  BY <1>4 DEF CountryTypeOK
<1>8. /\ cmd'[p].pc = "done" /\ cmd'[p].run = r /\ cmd'[p].batch = b
      /\ cmd'[p].cursor = cmd[p].cursor
  BY <1>2, <1>7 DEF Invocations
<1>9. FiniteLedgers' /\ LockInv' /\ RowInv'
  BY <1>1, <1>2, <1>4, <1>7, <1>8 DEF FiniteLedgers, LockInv, RowInv, Holding
<1>10. BatchInv'
  <2> SUFFICES ASSUME NEW q \in Cmds
               PROVE  /\ cmd'[q].pc \in HasBatch =>
                            /\ cmd'[q].batch # {}
                            /\ Cardinality(cmd'[q].batch) \in 1 .. BatchSize
                            /\ \A e \in cmd'[q].batch : cmd'[q].cursor < e
                      /\ cmd'[q].pc \in {"mark", "commit"} =>
                            \A e \in cmd'[q].batch : ~Shown(e)'
                      /\ GoesOn(q)' => \E u \in units'[cmd'[q].run] : u.index = cmd'[q].index
    BY DEF BatchInv
  <2>1. CASE q = p
    BY <1>1, <1>8, <2>1 DEF BatchInv, GoesOn, HasBatch
  <2>2. CASE q # p
    <3>1. cmd'[q] = cmd[q] /\ cmd[q].pc \notin Holding
      BY <1>1, <1>7, <2>2, Alone
    <3> QED BY <3>1 DEF GoesOn, HasBatch, Holding
  <2> QED BY <2>1, <2>2
<1> QED BY <1>6, <1>9, <1>10

\* An activation keeps it.
LEMMA ActivateRun == ASSUME RunInv, NEW p \in Cmds, Activate(p) PROVE RunInv'
<1> USE DEF RunInv
<1> DEFINE r == cmd[p].run
<1>1. cmd[p].pc = "activate" /\ cmd[p].pc \in Holding
  BY DEF Activate, Holding
<1>2. runLock = {p} /\ r \in Runs
  BY <1>1, Held
<1>3. inf' = [e \in Entities |->
        IF e \in Owned(r) /\ inf[e].status = "SAFE" /\ ent[e] = "unknown"
        THEN [inf[e] EXCEPT !.applied = TRUE] ELSE inf[e]]
  BY DEF Activate
<1>4. /\ runLock' = runLock \ {p} /\ cmd' = [cmd EXCEPT ![p] = Idle]
      /\ UNCHANGED <<ent, run, units, fails, imports, evald>>
      /\ steady' = [q \in Runs |-> steady[q] \cap Candidates']
  BY DEF Activate, TrackSteady
<1>5. CountryTypeOK'
  <2>1. \A e \in Entities : inf[e] \in InferenceRows
    BY DEF CountryTypeOK
  <2>2. \A e \in Entities : [inf[e] EXCEPT !.applied = TRUE] \in InferenceRows
    BY <2>1 DEF InferenceRows
  <2>3. inf' \in [Entities -> InferenceRows]
    BY <1>3, <2>1, <2>2
  <2>4. steady' \in [Runs -> SUBSET Entities]
    BY <1>4 DEF CountryTypeOK
  <2> QED BY <1>4, <2>3, <2>4, IdleFacts DEF CountryTypeOK
<1>6. cmd'[p] = Idle /\ \A q \in Cmds : q # p => cmd'[q] = cmd[q]
  BY <1>4 DEF CountryTypeOK
<1>7. FiniteLedgers' /\ RowInv'
  BY <1>4, <1>6, IdleFacts DEF FiniteLedgers, RowInv
<1>8. LockInv'
  BY <1>4, Released DEF CountryTypeOK
<1>9. BatchInv'
  <2>1. \A q \in Cmds : cmd'[q].pc \notin Holding
    BY <1>1, <1>6, Alone, IdleFacts DEF Holding
  <2> QED BY <2>1 DEF BatchInv, GoesOn, HasBatch, Holding
<1> QED BY <1>5, <1>7, <1>8, <1>9

\* Imports keep it.
LEMMA ImportRun == ASSUME RunInv, NEW e \in Entities, ContactImport(e) PROVE RunInv'
<1> USE DEF RunInv
<1>1. /\ UNCHANGED <<inf, run, units, runLock, cmd, fails, evald>>
      /\ steady' = [q \in Runs |-> steady[q] \cap Candidates']
      /\ imports' = imports + 1
      /\ ent' = [ent EXCEPT ![e] = "unknown"] \/ ent' = [ent EXCEPT ![e] = "sourced"]
  BY DEF ContactImport, TrackSteady
<1>2. CountryTypeOK'
  BY <1>1 DEF CountryTypeOK
<1>3. FiniteLedgers' /\ LockInv' /\ RowInv' /\ BatchInv'
  BY <1>1 DEF FiniteLedgers, LockInv, RowInv, BatchInv, GoesOn, Shown
<1> QED BY <1>2, <1>3

\* Every step keeps it.
LEMMA RunStep == RunInv /\ [CountryNext]_countryVars => RunInv'
<1> SUFFICES ASSUME RunInv, [CountryNext]_countryVars PROVE RunInv'
  OBVIOUS
<1>1. CASE UNCHANGED countryVars
  BY <1>1 DEF countryVars, RunInv, CountryTypeOK, FiniteLedgers, LockInv, RowInv, BatchInv, GoesOn,
              Shown
<1>2. ASSUME NEW p \in Cmds,
             \/ \E cfg \in Configs : StartNew(p, cfg)
             \/ \E r \in Runs : StartResume(p, r) \/ StartActivation(p, r)
             \/ TakeLock(p) \/ LockBusy(p)
             \/ Reopen(p) \/ Select(p) \/ MarkRunning(p) \/ CommitBatch(p) \/ MarkSuccess(p)
             \/ Activate(p)
             \/ Fail(p)
      PROVE  RunInv'
  BY <1>2, StartRun, StartActivationRun, LockRun, ReopenRun, SelectRun, MarkRunningRun,
     CommitRun, MarkSuccessRun, ActivateRun, FailRun
<1>3. ASSUME NEW e \in Entities, ContactImport(e) PROVE RunInv'
  BY <1>3, ImportRun
<1> QED BY <1>1, <1>2, <1>3 DEF CountryNext

\* Types, lock and batches, in every reachable state.
LEMMA RunInvariance == CountrySpec => []RunInv
  BY RunInit, RunStep, PTL DEF CountrySpec

\* The rows, the ledgers and the invocations keep their types, for any number of entities,
\* processes, runs, crashes and imports, and also when a run is resumed too early.
THEOREM CountryTypes == CountrySpec => []CountryTypeOK
<1>1. RunInv => CountryTypeOK
  BY DEF RunInv
<1> QED BY <1>1, RunInvariance, PTL

\* A country that is shown stays as it was accepted: no batch that was read before
\* overwrites its row, because nobody activates or commits while a batch is under way.
THEOREM AcceptedCountriesAreKept == CountrySpec => ShownIsKept
<1> DEFINE Kept == \A e \in Entities : Shown(e) => inf'[e] = inf[e]
<1>1. RunInv /\ [CountryNext]_countryVars => [Kept]_countryVars
  <2> SUFFICES ASSUME RunInv, CountryNext PROVE Kept
    OBVIOUS
  <2>1. ASSUME NEW p \in Cmds, CommitBatch(p) PROVE Kept
    <3>1. \A e \in cmd[p].batch : ~Shown(e)
      BY <2>1 DEF CommitBatch, RunInv, BatchInv
    <3>2. \A e \in Entities : e \notin cmd[p].batch => inf'[e] = inf[e]
      BY <2>1 DEF CommitBatch
    <3> QED BY <3>1, <3>2
  <2>2. ASSUME NEW p \in Cmds, Activate(p) PROVE Kept
    <3> SUFFICES ASSUME NEW e \in Entities, Shown(e) PROVE inf'[e] = inf[e]
      OBVIOUS
    <3>1. inf[e] \in InferenceRows /\ inf[e].applied
      BY DEF Shown, RunInv, CountryTypeOK
    <3>2. inf[e].applied = TRUE
      BY <3>1 DEF InferenceRows
    <3>3. [inf[e] EXCEPT !.applied = TRUE] = inf[e]
      BY <3>1, <3>2 DEF InferenceRows
    <3> QED BY <2>2, <3>3 DEF Activate
  <2>3. ASSUME NEW p \in Cmds,
               \/ \E cfg \in Configs : StartNew(p, cfg)
               \/ \E r \in Runs : StartResume(p, r) \/ StartActivation(p, r)
               \/ TakeLock(p) \/ LockBusy(p)
               \/ Reopen(p) \/ Select(p) \/ MarkRunning(p) \/ MarkSuccess(p)
               \/ Fail(p)
        PROVE  Kept
    BY <2>3 DEF StartNew, StartResume, StartActivation, TakeLock, LockBusy, Reopen, Select,
                Selected, Complete, Refuse, Stop, MarkRunning, MarkSuccess, Fail
  <2>4. ASSUME NEW e \in Entities, ContactImport(e) PROVE Kept
    BY <2>4 DEF ContactImport
  <2> QED BY <2>1, <2>2, <2>3, <2>4 DEF CountryNext
<1> QED BY <1>1, RunInvariance, PTL DEF CountrySpec, ShownIsKept

-----------------------------------------------------------------------------
(* What the ledgers mean.                                                  *)

\* Nothing is in a ledger at first.
LEMMA LedgerInit == CountryInit => LedgerInv
<1> SUFFICES ASSUME CountryInit PROVE LedgerInv
  OBVIOUS
<1>1. CreatorInv /\ SteadyInv /\ LoopInv /\ SuccessIsComplete
  BY DEF CountryInit, CreatorInv, SteadyInv, LoopInv, SuccessIsComplete, Idle, HasBatch
<1>2. Ledgers
  BY DEF CountryInit, Ledgers, OrderInv, CoverInv, OwnerInv, Runs
<1> QED BY <1>1, <1>2 DEF LedgerInv

\* A step that rewrites nothing in the ledgers and gives no row another owner keeps what
\* they say: the evaluated become more and the steady less.
LEMMA QuietLedgers ==
    ASSUME Ledgers, UNCHANGED units,
           \A e \in Entities : inf'[e].run = inf[e].run,
           \A r \in Runs : units[r] # {} => steady'[r] \subseteq steady[r],
           \A r \in Runs : evald[r] \subseteq evald'[r]
    PROVE  Ledgers'
<1> USE DEF Ledgers
<1>1. OrderInv'
  BY DEF OrderInv
<1>2. CoverInv'
  <2>1. \A r, u : Backed(r, u)' <=> Backed(r, u)
    BY DEF Backed, Owned, Covers
  <2> QED BY <2>1 DEF CoverInv, Covers
<1>3. OwnerInv'
  BY DEF OwnerInv, Covers
<1> QED BY <1>1, <1>2, <1>3

\* A step that rewrites the statuses of one ledger, where a unit becomes SUCCESS only when
\* its steady entities are evaluated, and stays it.
LEMMA StatusLedgers ==
    ASSUME Ledgers, NEW r \in Runs, NEW f \in [units[r] -> WorkUnits],
           \A u \in units[r] :
               /\ f[u].index = u.index /\ f[u].lower = u.lower /\ f[u].upper = u.upper
               /\ u.status = "SUCCESS" => f[u].status = "SUCCESS"
               /\ f[u].status = "SUCCESS" =>
                    Backed(r, u) \/ \A e \in steady[r] : Covers(u, e) => e \in evald[r],
           units'[r] = {f[u] : u \in units[r]},
           \A q \in Runs : q # r => units'[q] = units[q],
           UNCHANGED <<inf, steady, evald>>
    PROVE  Ledgers'
<1> USE DEF Ledgers
<1>1. \A v \in units'[r] : \E u \in units[r] : v = f[u]
  OBVIOUS
<1>2. \A u \in units[r] : f[u] \in units'[r]
  OBVIOUS
<1>3. OrderInv'
  <2> SUFFICES ASSUME NEW q \in Runs, NEW v \in units'[q], NEW w \in units'[q]
               PROVE  \/ v = w
                      \/ v.index < w.index /\ v.upper < w.lower /\ v.status = "SUCCESS"
                      \/ w.index < v.index /\ w.upper < v.lower /\ w.status = "SUCCESS"
    BY DEF OrderInv
  <2>1. CASE q = r
    <3>1. PICK u1 \in units[r], u2 \in units[r] : v = f[u1] /\ w = f[u2]
      BY <1>1, <2>1
    <3> QED BY <3>1 DEF OrderInv
  <2>2. CASE q # r
    BY <2>2 DEF OrderInv
  <2> QED BY <2>1, <2>2
<1>4. \A q, v : Backed(q, v)' <=> Backed(q, v)
  BY DEF Backed, Owned, Covers
<1>5. CoverInv'
  <2> SUFFICES ASSUME NEW q \in Runs, NEW v \in units'[q]
               PROVE  /\ v.lower <= v.upper
                      /\ \A e \in steady'[q] :
                          (e < v.lower \/ (Covers(v, e) /\ Backed(q, v)')) => e \in evald'[q]
    BY DEF CoverInv, Covers
  <2>1. CASE q = r
    <3>1. PICK u \in units[r] : v = f[u]
      BY <1>1, <2>1
    <3>2. /\ u.lower <= u.upper
          /\ \A e \in steady[r] :
              (e < u.lower \/ (Covers(u, e) /\ Backed(r, u))) => e \in evald[r]
      BY DEF CoverInv
    <3>3. \A e : Covers(v, e) <=> Covers(u, e)
      BY <3>1 DEF Covers
    <3>4. Backed(r, v) => Backed(r, u) \/ f[u].status = "SUCCESS"
      BY <3>1, <3>3 DEF Backed
    <3> QED BY <1>4, <2>1, <3>1, <3>2, <3>3, <3>4
  <2>2. CASE q # r
    BY <1>4, <2>2 DEF CoverInv
  <2> QED BY <2>1, <2>2
<1>6. OwnerInv'
  <2> SUFFICES ASSUME NEW e \in Entities, inf[e].run \in Runs
               PROVE  \E v \in units'[inf[e].run] : Covers(v, e)
    BY DEF OwnerInv, Covers
  <2>1. PICK u \in units[inf[e].run] : Covers(u, e)
    BY DEF OwnerInv
  <2>2. CASE inf[e].run = r
    <3>1. f[u] \in units'[r] /\ Covers(f[u], e)
      BY <1>2, <2>1, <2>2 DEF Covers
    <3> QED BY <2>2, <3>1
  <2>3. CASE inf[e].run # r
    BY <2>1, <2>3
  <2> QED BY <2>2, <2>3
<1> QED BY <1>3, <1>5, <1>6

\* A process in its batch loop sees the same when others move.
LEMMA LoopFrame ==
    ASSUME NEW p \in Cmds, Loop(p), UNCHANGED <<units[cmd[p].run], cmd[p]>>,
           \A e \in Entities : inf'[e].run = inf[e].run,
           steady'[cmd[p].run] \subseteq steady[cmd[p].run],
           evald[cmd[p].run] \subseteq evald'[cmd[p].run]
    PROVE  Loop(p)'
<1>1. \A u : Passed(p, u)' <=> Passed(p, u)
  BY DEF Passed
<1>2. \A u : Current(p, u)' <=> Current(p, u)
  BY DEF Current, Owned, Covers
<1> QED BY <1>1, <1>2 DEF Loop

\* A new run belongs to its creator until it tries the lock: the step of one process
\* that is not the creation of a run.
LEMMA CreatorFrame ==
    ASSUME RunInv, CreatorInv, NEW p \in Cmds, NEW i \in Invocations,
           cmd' = [cmd EXCEPT ![p] = i], i.pc = "lock" => i.resumed,
           \/ i.run \in {0, cmd[p].run}
           \/ \A c \in Cmds : cmd[c].pc = "lock" /\ ~cmd[c].resumed => cmd[c].run # i.run,
           \A r \in Runs : r # cmd[p].run => units'[r] = units[r] /\ run'[r] = run[r],
           cmd[p].pc # "idle" => run'[cmd[p].run].status # "none"
    PROVE  CreatorInv'
<1> USE DEF RunInv
<1>1. cmd'[p] = i /\ \A q \in Cmds : q # p => cmd'[q] = cmd[q]
  BY DEF CountryTypeOK
<1>2. \A r \in Runs : run'[r].status = "none" => units'[r] = {}
  <2> SUFFICES ASSUME NEW r \in Runs, run'[r].status = "none" PROVE units'[r] = {}
    OBVIOUS
  <2>1. r # cmd[p].run
    BY DEF RowInv, Runs
  <2> QED BY <2>1 DEF CreatorInv
<1>3. ASSUME NEW c \in Cmds, cmd'[c].pc = "lock", ~cmd'[c].resumed
      PROVE  /\ units'[cmd'[c].run] = {}
             /\ run'[cmd'[c].run].status = "RUNNING"
             /\ \A q \in Cmds : cmd'[q].run = cmd'[c].run => q = c
  <2>1. c # p /\ cmd'[c] = cmd[c]
    BY <1>1, <1>3
  <2>2. cmd[c].run \in Runs
    BY <1>3, <2>1 DEF RowInv
  <2>3. /\ units[cmd[c].run] = {}
        /\ run[cmd[c].run].status = "RUNNING"
        /\ \A q \in Cmds : cmd[q].run = cmd[c].run => q = c
    BY <1>3, <2>1 DEF CreatorInv
  <2>4. cmd[p].run # cmd[c].run
    BY <2>1, <2>3
  <2>5. i.run # cmd[c].run
    BY <1>3, <2>1, <2>2, <2>4 DEF Runs
  <2> QED BY <1>1, <2>1, <2>2, <2>3, <2>4, <2>5
<1> QED BY <1>2, <1>3 DEF CreatorInv

\* A step that ends no run keeps what SUCCESS says.
LEMMA SuccessFrame ==
    ASSUME SuccessIsComplete,
           \A r \in Runs : run'[r].status = "SUCCESS" =>
               run'[r] = run[r] /\ steady'[r] \subseteq steady[r] /\ evald[r] \subseteq evald'[r]
    PROVE  SuccessIsComplete'
  BY DEF SuccessIsComplete


\* What a step of process p has to keep for the ledgers to go on meaning what they mean.
LEMMA MoveLedgers ==
    ASSUME RunInv, LedgerInv, NEW p \in Cmds, NEW i \in Invocations,
           cmd' = [cmd EXCEPT ![p] = i],
           i.pc = "lock" => i.resumed,
           \/ i.run \in {0, cmd[p].run}
           \/ \A c \in Cmds : cmd[c].pc = "lock" /\ ~cmd[c].resumed => cmd[c].run # i.run,
           \A r \in Runs : r # cmd[p].run => units'[r] = units[r] /\ run'[r] = run[r],
           cmd[p].pc # "idle" => run'[cmd[p].run].status # "none",
           SteadyInv', Ledgers',
           \A r \in Runs : steady'[r] \subseteq steady[r] /\ evald[r] \subseteq evald'[r],
           \A r \in Runs : run'[r].status = "SUCCESS" =>
               \/ run'[r] = run[r]
               \/ steady'[r] \subseteq evald'[r]
               \/ run'[r].limit > 0 /\ run'[r].evaluated >= run'[r].limit,
           \/ cmd[p].pc \in Holding
           \/ i.pc \in Holding /\ runLock = {}
           \/ UNCHANGED units /\ \A e \in Entities : inf'[e].run = inf[e].run,
           i.pc \in HasBatch \cup {"select"} => Loop(p)'
    PROVE  LedgerInv'
<1>1. CreatorInv'
  BY CreatorFrame DEF LedgerInv
<1>2. SuccessIsComplete'
  BY DEF LedgerInv, SuccessIsComplete
<1>3. cmd'[p] = i /\ \A q \in Cmds : q # p => cmd'[q] = cmd[q]
  BY DEF RunInv, CountryTypeOK
<1>4. LoopInv'
  <2> SUFFICES ASSUME NEW q \in Cmds, cmd'[q].pc \in HasBatch \cup {"select"} PROVE Loop(q)'
    BY DEF LoopInv
  <2>1. CASE q = p
    BY <1>3, <2>1
  <2>2. CASE q # p
    <3>1. cmd'[q] = cmd[q] /\ cmd[q].pc \in Holding
      BY <1>3, <2>2 DEF HasBatch, Holding
    <3>2. q \in runLock /\ Loop(q) /\ cmd[q].run \in Runs
      BY <2>2, <3>1, Held DEF RunInv, LockInv, LedgerInv, LoopInv
    <3>3. cmd[p].pc \notin Holding
      BY <2>2, <3>1, Alone DEF RunInv
    <3>4. UNCHANGED units /\ \A e \in Entities : inf'[e].run = inf[e].run
      BY <3>2, <3>3
    <3> QED BY <3>1, <3>2, <3>4, LoopFrame
  <2> QED BY <2>1, <2>2
<1> QED BY <1>1, <1>2, <1>4 DEF LedgerInv

\* The candidates depend on the contacts and on the inference rows only.
LEMMA SteadyFrame ==
    ASSUME SteadyInv, UNCHANGED <<ent, inf, steady>>
    PROVE  SteadyInv'
  BY DEF SteadyInv, Candidates, Shown

\* A unit that ends where the batch under way ends is the current one.
LEMMA MarkFacts ==
    ASSUME RunInv, LedgerInv, NEW p \in Cmds, cmd[p].pc \in HasBatch,
           NEW u \in units[cmd[p].run], u.upper = Max(cmd[p].batch)
    PROVE  Current(p, u)
<1>1. cmd[p].pc \in Holding
  BY DEF HasBatch, Holding
<1>2. cmd[p] \in Invocations /\ cmd[p].batch # {} /\ \A e \in cmd[p].batch : cmd[p].cursor < e
  BY <1>1, Held DEF RunInv, BatchInv
<1>3. cmd[p].batch \in SUBSET Entities /\ cmd[p].cursor \in Nat
  BY <1>2 DEF Invocations
<1>4. Max(cmd[p].batch) \in cmd[p].batch /\ Max(cmd[p].batch) \in Nat
  BY <1>2, <1>3, BatchEnds, EntityIsNat
<1>5. ~(u.upper <= cmd[p].cursor)
  BY <1>2, <1>3, <1>4
<1>6. Passed(p, u) \/ Current(p, u)
  BY DEF LedgerInv, LoopInv, Loop
<1> QED BY <1>5, <1>6 DEF Passed

\* The error handler takes nothing back that is SUCCESS.
LEMMA FailedLedgers ==
    ASSUME RunInv, LedgerInv, NEW p \in Cmds, units' = CurrentFailed(p),
           UNCHANGED <<inf, steady, evald>>
    PROVE  Ledgers'
<1> DEFINE r == cmd[p].run
           b == cmd[p].batch
<1>1. CASE cmd[p].pc \in HasBatch
  <2>1. r \in Runs /\ units[r] \in SUBSET WorkUnits
    BY <1>1, Held DEF HasBatch, Holding, RunInv, CountryTypeOK
  <2> DEFINE f == [u \in units[r] |-> IF u.lower = Min(b) /\ u.upper = Max(b)
                                      THEN [u EXCEPT !.status = "FAILED"] ELSE u]
  <2>2. units' = WithStatus(r, b, "FAILED")
    BY <1>1 DEF CurrentFailed, HasBatch
  <2>3. units'[r] = {f[u] : u \in units[r]} /\ \A q \in Runs : q # r => units'[q] = units[q]
    <3>1. /\ units'[r] = {IF u.lower = Min(b) /\ u.upper = Max(b)
                          THEN [u EXCEPT !.status = "FAILED"] ELSE u : u \in units[r]}
          /\ \A q \in Runs \ {r} : units'[q] = units[q]
      BY <2>1, <2>2, WithStatusFacts DEF RunInv
    <3> QED BY <3>1
  <2>4. \A u \in units[r] : [u EXCEPT !.status = "FAILED"] \in WorkUnits
    BY <2>1 DEF WorkUnits
  <2>5. f \in [units[r] -> WorkUnits]
    BY <2>1, <2>4
  <2>6. \A u \in units[r] : u.status = "SUCCESS" => f[u] = u
    BY <1>1, MarkFacts DEF Current
  <2>7. \A u \in units[r] :
          /\ f[u].index = u.index /\ f[u].lower = u.lower /\ f[u].upper = u.upper
          /\ f[u].status = "SUCCESS" => u.status = "SUCCESS"
    BY <2>1 DEF WorkUnits
  <2>8. \A u \in units[r] : u.status = "SUCCESS" => Backed(r, u)
    BY DEF Backed
  <2> HIDE DEF f
  <2> QED BY <2>1, <2>3, <2>5, <2>6, <2>7, <2>8, StatusLedgers DEF LedgerInv
<1>2. CASE cmd[p].pc \notin HasBatch
  BY <1>2, QuietLedgers DEF CurrentFailed, HasBatch, LedgerInv
<1> QED BY <1>1, <1>2

\* Reconciling makes units SUCCESS that have rows.
LEMMA ReconciledLedgers ==
    ASSUME RunInv, LedgerInv, NEW r \in Runs, units' = [units EXCEPT ![r] = Reconciled(r)],
           UNCHANGED <<inf, steady, evald>>
    PROVE  Ledgers'
<1> DEFINE f == [u \in units[r] |->
                    IF ArtifactCount(r, u) = u.count /\ \A v \in Partial(r) : u.index < v.index
                    THEN [u EXCEPT !.status = "SUCCESS"] ELSE u]
<1>1. units \in [Runs -> SUBSET WorkUnits] /\ units[r] \in SUBSET WorkUnits
  BY DEF RunInv, CountryTypeOK
<1>2. units'[r] = {f[u] : u \in units[r]} /\ \A q \in Runs : q # r => units'[q] = units[q]
  BY <1>1 DEF Reconciled
<1>3. \A u \in units[r] : [u EXCEPT !.status = "SUCCESS"] \in WorkUnits
  BY <1>1 DEF WorkUnits
<1>4. f \in [units[r] -> WorkUnits]
  BY <1>1, <1>3
<1>5. \A u \in units[r] :
        /\ f[u].index = u.index /\ f[u].lower = u.lower /\ f[u].upper = u.upper
        /\ u.status = "SUCCESS" => f[u].status = "SUCCESS"
  BY <1>1 DEF WorkUnits
<1>6. ASSUME NEW u \in units[r], f[u].status = "SUCCESS" PROVE Backed(r, u)
  <2>1. CASE u.status = "SUCCESS"
    BY <2>1 DEF Backed
  <2>2. CASE u.status # "SUCCESS"
    <3>1. ArtifactCount(r, u) = u.count
      BY <1>6, <2>2
    <3>2. u.count \in 1 .. BatchSize /\ BatchSize \in Nat
      BY <1>1, CountryAssumption DEF WorkUnits
    <3>3. {e \in Owned(r) : u.lower <= e /\ e <= u.upper} # {}
      BY <3>1, <3>2, FS_EmptySet DEF ArtifactCount
    <3> QED BY <3>3 DEF Backed, Covers
  <2> QED BY <2>1, <2>2
<1> HIDE DEF f
<1> QED BY <1>2, <1>4, <1>5, <1>6, StatusLedgers DEF LedgerInv

\* A process stops with ledgers that mean what they say.
LEMMA StopLedgers ==
    ASSUME RunInv, LedgerInv, NEW p \in Cmds, cmd[p].pc # "idle", NEW L, NEW s, Stop(p, L, s),
           \A r \in Runs : r # cmd[p].run => L[r] = units[r],
           cmd[p].pc \notin Holding => L = units,
           Ledgers'
    PROVE  LedgerInv'
<1>1. /\ units' = L /\ cmd' = [cmd EXCEPT ![p] = Idle]
      /\ UNCHANGED <<ent, inf, steady, evald>>
      /\ run' = run \/ run' = [run EXCEPT ![cmd[p].run].status = "FAILED"]
  BY DEF Stop
<1>2. cmd[p].run \in Runs /\ run[cmd[p].run].status # "none" /\ run \in [Runs -> RunRows]
  BY DEF RunInv, RowInv, CountryTypeOK
<1>3. /\ run'[cmd[p].run].status # "none"
      /\ \A r \in Runs : run'[r].status = "SUCCESS" => run'[r] = run[r]
      /\ \A r \in Runs : r # cmd[p].run => units'[r] = units[r] /\ run'[r] = run[r]
  BY <1>1, <1>2 DEF RunRows
<1>4. SteadyInv'
  BY <1>1, SteadyFrame DEF LedgerInv
<1>5. Idle.pc \notin HasBatch \cup {"select", "lock"}
  BY IdleFacts DEF HasBatch
<1> QED BY <1>1, <1>3, <1>4, <1>5, IdleFacts, MoveLedgers

\* The refusals of the code keep it.
LEMMA RefuseLedgers ==
    ASSUME RunInv, LedgerInv, NEW p \in Cmds, cmd[p].pc \in Holding, Refuse(p)
    PROVE  LedgerInv'
<1>1. Stop(p, CurrentFailed(p), TRUE) /\ cmd[p].pc # "idle"
  BY DEF Refuse, Holding
<1>2. Ledgers'
  BY <1>1, FailedLedgers DEF Stop
<1>3. \A r \in Runs : r # cmd[p].run => CurrentFailed(p)[r] = units[r]
  BY CurrentFailedFacts DEF RunInv
<1> QED BY <1>1, <1>2, <1>3, StopLedgers

\* Crashes and failing calls keep it.
LEMMA FailLedgers == ASSUME RunInv, LedgerInv, NEW p \in Cmds, Fail(p) PROVE LedgerInv'
<1>1. PICK s \in BOOLEAN : Stop(p, units, s) \/ Stop(p, CurrentFailed(p), s)
  BY DEF Fail
<1>2. cmd[p].pc # "idle"
  BY DEF Fail
<1>3. CASE Stop(p, units, s)
  <2>1. Ledgers'
    BY <1>3, QuietLedgers DEF Stop, LedgerInv
  <2> QED BY <1>2, <1>3, <2>1, StopLedgers
<1>4. CASE Stop(p, CurrentFailed(p), s)
  <2>1. Ledgers'
    BY <1>4, FailedLedgers DEF Stop
  <2>2. \A r \in Runs : r # cmd[p].run => CurrentFailed(p)[r] = units[r]
    BY CurrentFailedFacts DEF RunInv
  <2>3. cmd[p].pc \notin Holding => CurrentFailed(p) = units
    BY DEF CurrentFailed, Holding
  <2> QED BY <1>2, <1>4, <2>1, <2>2, <2>3, StopLedgers
<1> QED BY <1>1, <1>3, <1>4

\* A new run begins with everybody who is a candidate, and belongs to its creator.
LEMMA StartNewLedgers ==
    ASSUME RunInv, LedgerInv, NEW p \in Cmds, NEW cfg \in Configs, StartNew(p, cfg)
    PROVE  LedgerInv'
<1>1. PICK r \in Runs :
        /\ run[r].status = "none"
        /\ run' = [run EXCEPT ![r].status = "RUNNING", ![r].apply = cfg.apply,
                              ![r].limit = cfg.limit]
        /\ cmd' = [cmd EXCEPT ![p] = [Idle EXCEPT !.pc = "lock", !.run = r]]
        /\ steady' = [steady EXCEPT ![r] = Candidates]
  BY DEF StartNew
<1>2. UNCHANGED <<ent, inf, units, runLock, fails, imports, evald>>
  BY DEF StartNew
<1>3. /\ run \in [Runs -> RunRows] /\ steady \in [Runs -> SUBSET Entities]
      /\ cmd \in [Cmds -> Invocations]
  BY DEF RunInv, CountryTypeOK
<1>4. units[r] = {} /\ \A q \in Cmds : cmd[q].run # r
  BY <1>1 DEF RunInv, RowInv, LedgerInv, CreatorInv, Runs
<1>5. run'[r].status = "RUNNING" /\ \A q \in Runs : q # r => run'[q] = run[q]
  BY <1>1, <1>3 DEF RunRows
<1>6. /\ cmd'[p].pc = "lock" /\ cmd'[p].run = r
      /\ \A q \in Cmds : q # p => cmd'[q] = cmd[q]
  BY <1>1, <1>3, IdleFacts DEF Invocations
<1>7. steady'[r] = Candidates /\ \A q \in Runs : q # r => steady'[q] = steady[q]
  BY <1>1, <1>3
<1>8. CreatorInv'
  <2>1. \A q \in Runs : run'[q].status = "none" => units'[q] = {}
    BY <1>2, <1>5 DEF LedgerInv, CreatorInv
  <2>2. ASSUME NEW c \in Cmds, cmd'[c].pc = "lock", ~cmd'[c].resumed
        PROVE  /\ units'[cmd'[c].run] = {}
               /\ run'[cmd'[c].run].status = "RUNNING"
               /\ \A q \in Cmds : cmd'[q].run = cmd'[c].run => q = c
    <3>1. CASE c = p
      BY <1>2, <1>4, <1>5, <1>6, <3>1
    <3>2. CASE c # p
      <4>1. cmd'[c] = cmd[c] /\ cmd[c].run # r /\ cmd[c].run \in Runs
        BY <1>4, <1>6, <2>2, <3>2 DEF RunInv, RowInv
      <4> QED BY <1>2, <1>5, <1>6, <2>2, <4>1 DEF LedgerInv, CreatorInv
    <3> QED BY <3>1, <3>2
  <2> QED BY <2>1, <2>2 DEF CreatorInv
<1>9. SteadyInv'
  <2>1. Candidates' = Candidates
    BY <1>2 DEF Candidates, Shown
  <2> QED BY <1>7, <2>1 DEF LedgerInv, SteadyInv
<1>10. Ledgers'
  BY <1>2, <1>4, <1>7, QuietLedgers DEF LedgerInv
<1>11. LoopInv'
  <2> SUFFICES ASSUME NEW q \in Cmds, cmd'[q].pc \in HasBatch \cup {"select"} PROVE Loop(q)'
    BY DEF LoopInv
  <2>1. cmd'[q] = cmd[q] /\ cmd[q].pc \in Holding
    BY <1>6 DEF HasBatch, Holding
  <2>2. Loop(q) /\ cmd[q].run \in Runs
    BY <2>1, Held DEF LedgerInv, LoopInv
  <2>3. steady'[cmd[q].run] = steady[cmd[q].run]
    BY <1>4, <1>7, <2>2
  <2> QED BY <1>2, <2>1, <2>2, <2>3, LoopFrame
<1>12. SuccessIsComplete'
  BY <1>2, <1>5, <1>7, SuccessFrame DEF LedgerInv
<1> QED BY <1>8, <1>9, <1>10, <1>11, <1>12 DEF LedgerInv

\* Resuming a run whose creator has tried the lock, and taking or missing the lock.
LEMMA LockLedgers ==
    ASSUME RunInv, LedgerInv, ~EarlyResume, NEW p \in Cmds,
           (\E r \in Runs : StartResume(p, r)) \/ TakeLock(p) \/ LockBusy(p)
    PROVE  LedgerInv'
<1>1. UNCHANGED <<ent, inf, units, steady, evald>>
  BY DEF StartResume, TakeLock, LockBusy
<1>2. SteadyInv' /\ Ledgers' /\ \A e \in Entities : inf'[e].run = inf[e].run
  BY <1>1, SteadyFrame, QuietLedgers DEF LedgerInv
<1>3. CASE \E r \in Runs : StartResume(p, r)
  <2>1. PICK r \in Runs : StartResume(p, r)
    BY <1>3
  <2> DEFINE i == [Idle EXCEPT !.pc = "lock", !.run = r, !.resumed = TRUE]
  <2>2. cmd' = [cmd EXCEPT ![p] = i] /\ cmd[p].pc = "idle" /\ run' = run
    BY <2>1 DEF StartResume
  <2>3. i \in Invocations
    <3>1. r \in 0 .. MaxRuns
      BY CountryAssumption DEF Runs
    <3> QED BY <3>1, IdleFacts DEF Invocations, Steps
  <2>4. i.pc = "lock" /\ i.run = r /\ i.resumed
    BY IdleFacts DEF Invocations
  <2>5. \A c \in Cmds : cmd[c].pc = "lock" /\ ~cmd[c].resumed => cmd[c].run # i.run
    BY <2>1, <2>4 DEF StartResume
  <2>6. i.pc \notin HasBatch \cup {"select"}
    BY <2>4 DEF HasBatch
  <2> HIDE DEF i
  <2> QED BY <1>1, <1>2, <2>2, <2>3, <2>4, <2>5, <2>6, MoveLedgers
<1>4. CASE TakeLock(p)
  <2> DEFINE i == [cmd[p] EXCEPT !.pc = IF cmd[p].resumed THEN "reopen" ELSE "select"]
  <2>1. /\ cmd[p] \in Invocations /\ cmd[p].pc = "lock" /\ cmd[p].run \in Runs
        /\ run[cmd[p].run].status # "none" /\ cmd[p].cursor = 0
    BY <1>4 DEF TakeLock, RunInv, RowInv, CountryTypeOK
  <2>2. i \in Invocations
    BY <2>1 DEF Invocations, Steps, Holding
  <2>3. cmd' = [cmd EXCEPT ![p] = i] /\ runLock = {} /\ run' = run
    BY <1>4 DEF TakeLock, LockFree
  <2>4. /\ i.pc = IF cmd[p].resumed THEN "reopen" ELSE "select"
        /\ i.run = cmd[p].run /\ i.cursor = 0
    BY <2>1 DEF Invocations
  <2>5. i.pc \in Holding /\ i.pc # "lock"
    BY <2>4 DEF Holding
  <2>6. ASSUME i.pc \in HasBatch \cup {"select"} PROVE Loop(p)'
    <3>1. ~cmd[p].resumed /\ i.pc = "select"
      BY <2>4, <2>6 DEF HasBatch
    <3>2. units[cmd[p].run] = {}
      BY <2>1, <3>1 DEF LedgerInv, CreatorInv
    <3>3. cmd'[p] = i
      BY <2>3 DEF RunInv, CountryTypeOK
    <3>4. \A e \in steady[cmd[p].run] : ~(e <= 0)
      BY <2>1, CountryAssumption DEF RunInv, CountryTypeOK, Entities
    <3> HIDE DEF i
    <3> QED BY <1>1, <2>4, <3>1, <3>2, <3>3, <3>4 DEF Loop, HasBatch
  <2> HIDE DEF i
  <2> QED BY <1>1, <1>2, <2>1, <2>2, <2>3, <2>4, <2>5, <2>6, MoveLedgers
<1>5. CASE LockBusy(p)
  <2>1. /\ cmd' = [cmd EXCEPT ![p] = Idle] /\ cmd[p].run \in Runs
        /\ run[cmd[p].run].status # "none" /\ run \in [Runs -> RunRows]
        /\ run' = run \/ run' = [run EXCEPT ![cmd[p].run].status = "BUSY"]
    BY <1>5 DEF LockBusy, RunInv, RowInv, CountryTypeOK
  <2>2. /\ run'[cmd[p].run].status # "none"
        /\ \A r \in Runs : run'[r].status = "SUCCESS" => run'[r] = run[r]
        /\ \A r \in Runs : r # cmd[p].run => run'[r] = run[r]
    BY <2>1 DEF RunRows
  <2>3. Idle.pc \notin HasBatch \cup {"select", "lock"}
    BY IdleFacts DEF HasBatch
  <2> QED BY <1>1, <1>2, <2>1, <2>2, <2>3, IdleFacts, MoveLedgers
<1> QED BY <1>3, <1>4, <1>5

\* An activation begins: nobody creates a run that is SUCCESS.
LEMMA StartActivationLedgers ==
    ASSUME RunInv, LedgerInv, NEW p \in Cmds, NEW r \in Runs, StartActivation(p, r)
    PROVE  LedgerInv'
<1> DEFINE i == [Idle EXCEPT !.pc = "activate", !.run = r]
<1>1. /\ cmd' = [cmd EXCEPT ![p] = i] /\ run[r].status = "SUCCESS" /\ cmd[p].pc = "idle"
      /\ UNCHANGED <<ent, inf, run, units, steady, evald>>
  BY DEF StartActivation, IntegrityReady
<1>2. i \in Invocations
  <2>1. r \in 0 .. MaxRuns
    BY CountryAssumption DEF Runs
  <2> QED BY <2>1, IdleFacts DEF Invocations, Steps, Holding
<1>3. i.pc = "activate" /\ i.run = r
  BY IdleFacts DEF Invocations
<1>4. SteadyInv' /\ Ledgers' /\ \A e \in Entities : inf'[e].run = inf[e].run
  BY <1>1, SteadyFrame, QuietLedgers DEF LedgerInv
<1>5. \A c \in Cmds : cmd[c].pc = "lock" /\ ~cmd[c].resumed => cmd[c].run # i.run
  BY <1>1, <1>3 DEF LedgerInv, CreatorInv
<1>6. i.pc \notin HasBatch \cup {"select"} /\ i.pc # "lock"
  BY <1>3 DEF HasBatch
<1> HIDE DEF i
<1> QED BY <1>1, <1>2, <1>4, <1>5, <1>6, MoveLedgers

\* The activating transaction: rows keep their owner.
LEMMA ActivateLedgers == ASSUME RunInv, LedgerInv, NEW p \in Cmds, Activate(p) PROVE LedgerInv'
<1> DEFINE r == cmd[p].run
<1>1. cmd[p].pc = "activate" /\ cmd[p].pc \in Holding
  BY DEF Activate, Holding
<1>2. r \in Runs /\ run[r].status # "none"
  BY <1>1, Held
<1>3. inf' = [e \in Entities |->
        IF e \in Owned(r) /\ inf[e].status = "SAFE" /\ ent[e] = "unknown"
        THEN [inf[e] EXCEPT !.applied = TRUE] ELSE inf[e]]
  BY DEF Activate
<1>4. /\ cmd' = [cmd EXCEPT ![p] = Idle] /\ UNCHANGED <<ent, run, units, evald>>
      /\ steady' = [q \in Runs |-> steady[q] \cap Candidates']
  BY DEF Activate, TrackSteady
<1>5. \A e \in Entities : inf'[e].run = inf[e].run
  BY <1>3 DEF RunInv, CountryTypeOK, InferenceRows
<1>6. SteadyInv' /\ \A q \in Runs : steady'[q] \subseteq steady[q]
  BY <1>4 DEF SteadyInv
<1>7. Ledgers'
  BY <1>4, <1>5, <1>6, QuietLedgers DEF LedgerInv
<1>8. Idle.pc \notin HasBatch \cup {"select", "lock"}
  BY IdleFacts DEF HasBatch
<1> QED BY <1>1, <1>2, <1>4, <1>6, <1>7, <1>8, IdleFacts, MoveLedgers

\* An import takes some of the steady away.
LEMMA ImportLedgers ==
    ASSUME RunInv, LedgerInv, NEW x \in Entities, ContactImport(x)
    PROVE  LedgerInv'
<1>1. /\ UNCHANGED <<inf, run, units, runLock, cmd, fails, evald>>
      /\ steady' = [q \in Runs |-> steady[q] \cap Candidates']
  BY DEF ContactImport, TrackSteady
<1>2. SteadyInv' /\ \A q \in Runs : steady'[q] \subseteq steady[q]
  BY <1>1 DEF SteadyInv
<1>3. Ledgers' /\ CreatorInv' /\ SuccessIsComplete'
  BY <1>1, <1>2, QuietLedgers, SuccessFrame DEF LedgerInv, CreatorInv
<1>4. LoopInv'
  <2> SUFFICES ASSUME NEW q \in Cmds, cmd'[q].pc \in HasBatch \cup {"select"} PROVE Loop(q)'
    BY DEF LoopInv
  <2>1. cmd[q].pc \in HasBatch \cup {"select"} /\ cmd[q].pc \in Holding
    BY <1>1 DEF HasBatch, Holding
  <2>2. Loop(q) /\ cmd[q].run \in Runs
    BY <2>1, Held DEF LedgerInv, LoopInv
  <2> QED BY <1>1, <1>2, <2>2, LoopFrame
<1> QED BY <1>2, <1>3, <1>4 DEF LedgerInv

\* Going on with a batch: nobody steady lies between the cursor and its end outside it,
\* and the units that are passed stay so.
LEMMA SelectedLedgers ==
    ASSUME RunInv, LedgerInv, NEW p \in Cmds, cmd[p].pc = "select", NEW k \in 0 .. BatchSize,
           NEW batch, batch = CandidateBatch(cmd[p].cursor, k), batch # {}, Selected(p, batch),
           \A u \in units[cmd[p].run] :
               Current(p, u) => cmd[p].pending /\ u.lower = Min(batch) /\ u.upper = Max(batch)
    PROVE  LedgerInv'
<1> DEFINE r == cmd[p].run
           i == [cmd[p] EXCEPT !.pc = "mark", !.batch = batch]
<1>1. cmd[p].pc \in Holding
  BY DEF Holding
<1>2. cmd[p] \in Invocations /\ r \in Runs /\ run[r].status # "none"
  BY <1>1, Held
<1>3. cmd[p].cursor \in Nat
  BY <1>2 DEF Invocations
<1>4. /\ batch \in SUBSET Entities
      /\ \A d \in Candidates, e \in batch : cmd[p].cursor < d /\ d <= e => d \in batch
  BY <1>3, CandidateBatchFacts
<1>5. Max(batch) \in batch
  BY <1>4, BatchEnds
<1>6. i \in Invocations
  BY <1>2, <1>4 DEF Invocations, Steps, Holding
<1>7. /\ i.pc = "mark" /\ i.run = r /\ i.batch = batch /\ i.cursor = cmd[p].cursor
      /\ i.index = cmd[p].index /\ i.pending = cmd[p].pending
  BY <1>2 DEF Invocations
<1>8. cmd' = [cmd EXCEPT ![p] = i] /\ UNCHANGED <<ent, inf, run, units, steady, evald>>
  BY DEF Selected
<1>9. cmd'[p] = i
  BY <1>8 DEF RunInv, CountryTypeOK
<1>10. SteadyInv' /\ Ledgers'
  BY <1>8, SteadyFrame, QuietLedgers DEF LedgerInv
<1> HIDE DEF i
<1>11. Loop(p)'
  <2>1. Loop(p)
    BY DEF LedgerInv, LoopInv
  <2>2. \A e \in steady[r] : cmd[p].cursor < e /\ e <= Max(batch) => e \in batch
    BY <1>2, <1>4, <1>5 DEF LedgerInv, SteadyInv
  <2>3. \A u \in units[r] : Passed(p, u)' \/ Current(p, u)'
    <3> TAKE u \in units[r]
    <3>1. CASE Passed(p, u)
      BY <1>7, <1>9, <3>1 DEF Passed
    <3>2. CASE Current(p, u)
      BY <1>7, <1>8, <1>9, <3>2 DEF Current, Owned
    <3> QED BY <2>1, <3>1, <3>2 DEF Loop
  <2> QED BY <1>7, <1>8, <1>9, <2>1, <2>2, <2>3 DEF Loop, HasBatch
<1> QED BY <1>1, <1>2, <1>6, <1>7, <1>8, <1>10, <1>11, MoveLedgers

\* The end of a run that has evaluated everybody who was there all the time, or reached
\* its limit.
LEMMA CompleteLedgers ==
    ASSUME RunInv, LedgerInv, NEW p \in Cmds, cmd[p].pc = "select",
           CandidateBatch(cmd[p].cursor, Take(cmd[p].run)) = {}, Complete(p)
    PROVE  LedgerInv'
<1> DEFINE r == cmd[p].run
<1>1. cmd[p].pc \in Holding
  BY DEF Holding
<1>2. cmd[p] \in Invocations /\ r \in Runs /\ run[r].status # "none"
  BY <1>1, Held
<1>3. CASE Open(units[r]) # {}
  BY <1>1, <1>3, RefuseLedgers DEF Complete
<1>4. CASE Open(units[r]) = {}
  <2> DEFINE row == [run[r] EXCEPT !.status = "SUCCESS", !.evaluated = Cardinality(Owned(r)),
                                   !.accepted = Cardinality(OwnedAccepted(r))]
  <2>1. /\ run' = [run EXCEPT ![r] = row] /\ cmd' = [cmd EXCEPT ![p] = Idle]
        /\ UNCHANGED <<ent, inf, units, steady, evald>>
    BY <1>4 DEF Complete
  <2>2. run \in [Runs -> RunRows] /\ steady[r] \in SUBSET Entities
    BY <1>2 DEF RunInv, CountryTypeOK
  <2>3. /\ row.status = "SUCCESS" /\ row.limit = run[r].limit
        /\ row.evaluated = Cardinality(Owned(r))
    BY <1>2, <2>2 DEF RunRows
  <2> HIDE DEF row
  <2>4. run'[r] = row /\ \A q \in Runs : q # r => run'[q] = run[q]
    BY <1>2, <2>1, <2>2
  <2>5. \/ steady[r] \subseteq evald[r]
        \/ run[r].limit > 0 /\ Cardinality(Owned(r)) >= run[r].limit
    <3>1. CASE Take(r) = 0
      BY <1>2, <3>1, TakeFacts DEF RunInv
    <3>2. CASE Take(r) # 0
      <4>1. Take(r) \in 0 .. BatchSize /\ cmd[p].cursor \in Nat
        BY <1>2, TakeFacts DEF RunInv, Invocations
      <4>2. \A e \in Candidates : e <= cmd[p].cursor
        BY <3>2, <4>1, CandidateBatchFacts
      <4>3. \A e \in steady[r] : e <= cmd[p].cursor => e \in evald[r]
        BY DEF LedgerInv, LoopInv, Loop
      <4> QED BY <1>2, <4>2, <4>3 DEF LedgerInv, SteadyInv
    <3> QED BY <3>1, <3>2
  <2>6. \A q \in Runs : run'[q].status = "SUCCESS" =>
            \/ run'[q] = run[q]
            \/ steady'[q] \subseteq evald'[q]
            \/ run'[q].limit > 0 /\ run'[q].evaluated >= run'[q].limit
    BY <2>1, <2>3, <2>4, <2>5
  <2>7. SteadyInv' /\ Ledgers'
    BY <2>1, SteadyFrame, QuietLedgers DEF LedgerInv
  <2>8. Idle.pc \notin HasBatch \cup {"select", "lock"}
    BY IdleFacts DEF HasBatch
  <2>9. run'[r].status # "none"
    BY <2>3, <2>4
  <2> QED BY <1>1, <2>1, <2>4, <2>6, <2>7, <2>8, <2>9, IdleFacts, MoveLedgers
<1> QED BY <1>3, <1>4

\* Reading the next batch keeps it: a pending unit has the range that is read again, and
\* without one every unit is passed.
LEMMA SelectLedgers == ASSUME RunInv, LedgerInv, NEW p \in Cmds, Select(p) PROVE LedgerInv'
<1> DEFINE r == cmd[p].run
<1>1. cmd[p].pc = "select" /\ cmd[p].pc \in Holding
  BY DEF Select, Holding
<1>2. r \in Runs
  BY <1>1, Held
<1>3. CASE cmd[p].pending
  <2> DEFINE u == CHOOSE v \in units[r] : v.index = cmd[p].index
             batch == CandidateBatch(cmd[p].cursor, u.count)
  <2>1. IF SameRange(batch, u) THEN Selected(p, batch) ELSE Refuse(p)
    BY <1>3 DEF Select
  <2>2. u \in units[r] /\ u \in WorkUnits /\ u.index = cmd[p].index
    BY <1>1, <1>3, PendingUnit
  <2>3. u.count \in 0 .. BatchSize
    BY <2>2, CountryAssumption DEF WorkUnits
  <2> HIDE DEF u
  <2>4. CASE SameRange(batch, u)
    <3>1. batch # {} /\ u.lower = Min(batch) /\ u.upper = Max(batch)
      BY <2>4 DEF SameRange
    <3>2. ASSUME NEW v \in units[r], Current(p, v) PROVE v = u
      <4>1. v.index = u.index /\ u.index \in Nat
        BY <2>2, <3>2 DEF Current, WorkUnits
      <4> QED BY <1>2, <2>2, <4>1 DEF LedgerInv, Ledgers, OrderInv
    <3> QED BY <1>1, <1>3, <2>1, <2>3, <2>4, <3>1, <3>2, SelectedLedgers
  <2>5. CASE ~SameRange(batch, u)
    BY <1>1, <2>1, <2>5, RefuseLedgers
  <2> QED BY <2>4, <2>5
<1>4. CASE ~cmd[p].pending
  <2> DEFINE batch == CandidateBatch(cmd[p].cursor, Take(r))
  <2>1. IF batch = {} THEN Complete(p) ELSE Selected(p, batch)
    BY <1>4 DEF Select
  <2>2. Take(r) \in 0 .. BatchSize
    BY <1>2, TakeFacts DEF RunInv
  <2>3. CASE batch = {}
    BY <1>1, <2>1, <2>3, CompleteLedgers
  <2>4. CASE batch # {}
    <3>1. \A u \in units[r] : ~Current(p, u)
      BY <1>1, <1>4 DEF Current
    <3> QED BY <1>1, <2>1, <2>2, <2>4, <3>1, SelectedLedgers
  <2> QED BY <2>3, <2>4
<1> QED BY <1>3, <1>4

\* Resuming: the last SUCCESS range ends at the cursor, and only one unit is to be done
\* again, none of whose rows are there.
LEMMA ReopenLedgers == ASSUME RunInv, LedgerInv, NEW p \in Cmds, Reopen(p) PROVE LedgerInv'
<1> DEFINE r == cmd[p].run
           L == Reconciled(r)
<1>1. cmd[p].pc = "reopen" /\ cmd[p].pc \in Holding
  BY DEF Reopen, Holding
<1>2. cmd[p] \in Invocations /\ r \in Runs /\ run[r].status # "none"
  BY <1>1, Held
<1>3. L \in SUBSET WorkUnits /\ IsFiniteSet(L)
  BY <1>2, ReconciledFacts DEF RunInv
<1>4. /\ units \in [Runs -> SUBSET WorkUnits]
      /\ run \in [Runs -> RunRows] /\ steady[r] \in SUBSET Entities
  BY <1>2 DEF RunInv, CountryTypeOK
<1>5. units' = [units EXCEPT ![r] = L] /\ UNCHANGED <<ent, inf, steady, evald>>
  BY DEF Reopen, Stop
<1>6. Ledgers'
  BY <1>2, <1>5, ReconciledLedgers
<1>7. units'[r] = L /\ \A q \in Runs : q # r => units'[q] = units[q]
  BY <1>2, <1>4, <1>5
<1>8. CASE Partial(r) # {} \/ Disordered(L)
  <2>1. Stop(p, [units EXCEPT ![r] = L], TRUE)
    BY <1>8 DEF Reopen
  <2> HIDE DEF L
  <2> QED BY <1>1, <1>5, <1>6, <1>7, <2>1, StopLedgers DEF Holding
<1>9. CASE Partial(r) = {} /\ ~Disordered(L)
  <2> DEFINE i == [cmd[p] EXCEPT !.pc = "select", !.cursor = ResumeCursor(L),
                                  !.pending = Open(L) # {}, !.index = ResumeIndex(L)]
  <2>1. run' = [run EXCEPT ![r].status = "RUNNING"] /\ cmd' = [cmd EXCEPT ![p] = i]
    BY <1>9 DEF Reopen
  <2>2. /\ ResumeIndex(L) \in Nat
        /\ \A u \in L : u.index < ResumeIndex(L) \/ \E v \in Open(L) : v.index = ResumeIndex(L)
        /\ Open(L) # {} => \E u \in Open(L) : u.index = ResumeIndex(L)
        /\ ResumeCursor(L) \in 0 .. NumEntities
        /\ \A u \in L \ Open(L) : u.upper <= ResumeCursor(L)
        /\ ResumeCursor(L) # 0 => \E u \in L \ Open(L) : u.upper = ResumeCursor(L)
    BY <1>3, <1>9, ResumeFacts
  <2>3. i \in Invocations
    <3>1. (Open(L) # {}) \in BOOLEAN
      OBVIOUS
    <3> QED BY <1>2, <2>2, <3>1 DEF Invocations, Steps, Holding
  <2>4. /\ i.pc = "select" /\ i.run = r /\ i.index = ResumeIndex(L) /\ i.cursor = ResumeCursor(L)
        /\ i.pending <=> Open(L) # {}
    BY <1>2 DEF Invocations
  <2>5. /\ run'[r].status = "RUNNING"
        /\ \A q \in Runs : q # r => run'[q] = run[q]
    BY <1>2, <1>4, <2>1 DEF RunRows
  <2>6. cmd'[p] = i
    BY <2>1 DEF RunInv, CountryTypeOK
  <2> HIDE DEF i
  <2>7. ASSUME NEW u \in Open(L), NEW e \in Owned(r) PROVE ~Covers(u, e)
    <3>1. u \in units[r] /\ ~(ArtifactCount(r, u) = u.count)
      <4>1. PICK w \in units[r] :
              u = IF ArtifactCount(r, w) = w.count /\ \A v \in Partial(r) : w.index < v.index
                  THEN [w EXCEPT !.status = "SUCCESS"] ELSE w
        BY <2>7 DEF Open, Reconciled
      <4>2. ~(ArtifactCount(r, w) = w.count)
        <5> SUFFICES ASSUME ArtifactCount(r, w) = w.count PROVE FALSE
          OBVIOUS
        <5>1. u = [w EXCEPT !.status = "SUCCESS"]
          BY <1>9, <4>1
        <5>2. w \in WorkUnits
          BY <1>2, <1>4
        <5> QED BY <2>7, <5>1, <5>2 DEF Open, WorkUnits
      <4> QED BY <4>1, <4>2
    <3>2. ArtifactCount(r, u) = 0
      BY <1>9, <2>7, <3>1 DEF Partial, Open
    <3> DEFINE rows == {x \in Owned(r) : u.lower <= x /\ x <= u.upper}
    <3>3. IsFiniteSet(rows)
      <4>1. rows \in SUBSET Entities
        BY DEF Owned
      <4> QED BY <4>1, EntityFacts, FS_Subset
    <3>4. rows = {}
      BY <3>2, <3>3, FS_EmptySet DEF ArtifactCount
    <3> QED BY <3>4 DEF Covers
  <2>8. \A e \in steady[r] : e <= ResumeCursor(L) => e \in evald[r]
    <3> SUFFICES ASSUME NEW e \in steady[r], e <= ResumeCursor(L) PROVE e \in evald[r]
      OBVIOUS
    <3>1. e \in Nat /\ e # 0
      BY <1>4, EntityIsNat
    <3>2. PICK w \in L \ Open(L) : w.upper = ResumeCursor(L)
      BY <2>2, <3>1
    <3>3. w.status = "SUCCESS" /\ w.lower \in Nat
      BY <1>3, <3>2, EntityIsNat DEF Open, WorkUnits
    <3>4. e < w.lower \/ (w.lower <= e /\ e <= w.upper)
      BY <3>1, <3>2, <3>3
    <3>5. /\ w \in units'[r] /\ e \in steady'[r] /\ evald'[r] = evald[r]
      BY <1>5, <1>7, <3>2
    <3>6. \A q \in Runs : \A u \in units'[q] : u.status = "SUCCESS" =>
            \A d \in steady'[q] : d < u.lower \/ (u.lower <= d /\ d <= u.upper) => d \in evald'[q]
      BY <1>6 DEF Ledgers, CoverInv, Covers, Backed
    <3> QED BY <1>2, <3>3, <3>4, <3>5, <3>6
  <2>9. \A u \in L, v \in L :
          \/ u = v
          \/ u.index < v.index /\ u.upper < v.lower /\ u.status = "SUCCESS"
          \/ v.index < u.index /\ v.upper < u.lower /\ v.status = "SUCCESS"
    BY <1>2, <1>6, <1>7 DEF Ledgers, OrderInv
  <2>10. ASSUME NEW u \in L PROVE Passed(p, u)' \/ Current(p, u)'
    <3>1. CASE u.status = "SUCCESS"
      <4>1. u.upper <= ResumeCursor(L) /\ u.index \in Nat
        BY <1>3, <2>2, <3>1 DEF Open, WorkUnits
      <4>2. u.index < ResumeIndex(L)
        BY <2>2, <2>9, <3>1 DEF Open
      <4> QED BY <2>4, <2>6, <3>1, <4>1, <4>2 DEF Passed
    <3>2. CASE u.status # "SUCCESS"
      <4>1. u \in Open(L)
        BY <3>2 DEF Open
      <4>2. u.index = ResumeIndex(L)
        BY <2>2, <2>9, <3>2, <4>1 DEF Open
      <4>3. u.lower \in Nat /\ 0 < u.lower
        BY <1>3, EntityIsNat DEF WorkUnits
      <4>4. ResumeCursor(L) < u.lower
        BY <2>2, <2>9, <3>2, <4>3 DEF Open
      <4>5. \A e \in Owned(r)' : ~Covers(u, e)
        <5>1. Owned(r)' = Owned(r)
          BY <1>2, <1>5, <2>4, <2>6 DEF Owned
        <5> QED BY <2>7, <4>1, <5>1
      <4> QED BY <2>4, <2>6, <3>2, <4>1, <4>2, <4>4, <4>5 DEF Current, HasBatch, Covers
    <3> QED BY <3>1, <3>2
  <2>11. Loop(p)'
    BY <1>5, <1>7, <2>4, <2>6, <2>8, <2>10 DEF Loop, HasBatch
  <2>12. SteadyInv'
    BY <1>5, SteadyFrame DEF LedgerInv
  <2> HIDE DEF L
  <2> QED BY <1>1, <1>5, <1>6, <1>7, <2>1, <2>3, <2>4, <2>5, <2>11, <2>12, MoveLedgers
<1> QED BY <1>8, <1>9

\* What a process with a batch has in its hands.
LEMMA LoopFacts ==
    ASSUME RunInv, LedgerInv, NEW p \in Cmds, cmd[p].pc \in HasBatch
    PROVE  LET r == cmd[p].run
               b == cmd[p].batch IN
           /\ cmd[p].pc \in Holding /\ cmd[p] \in Invocations
           /\ r \in Runs /\ run[r].status # "none"
           /\ units[r] \in SUBSET WorkUnits /\ steady[r] \in SUBSET Entities
           /\ cmd[p].cursor \in Nat /\ cmd[p].index \in Nat
           /\ b \in SUBSET Entities /\ b # {} /\ Cardinality(b) \in 1 .. BatchSize
           /\ Min(b) \in Nat /\ Max(b) \in Nat /\ cmd[p].cursor < Min(b) /\ Min(b) <= Max(b)
           /\ \A e \in b : Min(b) <= e /\ e <= Max(b)
           /\ \A u \in units[r] : Passed(p, u) \/ Current(p, u)
           /\ \A e \in steady[r] : e <= cmd[p].cursor => e \in evald[r]
           /\ \A e \in steady[r] : cmd[p].cursor < e /\ e <= Max(b) => e \in b
<1> DEFINE r == cmd[p].run
           b == cmd[p].batch
<1>1. cmd[p].pc \in Holding
  BY DEF HasBatch, Holding
<1>2. cmd[p] \in Invocations /\ r \in Runs /\ run[r].status # "none"
  BY <1>1, Held
<1>3. units[r] \in SUBSET WorkUnits /\ steady[r] \in SUBSET Entities
  BY <1>2 DEF RunInv, CountryTypeOK
<1>4. cmd[p].cursor \in Nat /\ cmd[p].index \in Nat /\ b \in SUBSET Entities
  BY <1>2 DEF Invocations
<1>5. b # {} /\ Cardinality(b) \in 1 .. BatchSize /\ \A e \in b : cmd[p].cursor < e
  BY DEF RunInv, BatchInv
<1>6. Min(b) \in b /\ Max(b) \in b /\ \A e \in b : Min(b) <= e /\ e <= Max(b)
  BY <1>4, <1>5, BatchEnds
<1>7. Min(b) \in Nat /\ Max(b) \in Nat
  BY <1>4, <1>6, EntityIsNat
<1>8. Loop(p)
  BY DEF LedgerInv, LoopInv
<1> QED BY <1>1, <1>2, <1>3, <1>4, <1>5, <1>6, <1>7, <1>8 DEF Loop

\* Nobody in the range of a batch that is not committed has a row of the run yet.
LEMMA NoRowsYet ==
    ASSUME RunInv, LedgerInv, NEW p \in Cmds, cmd[p].pc \in {"mark", "commit"},
           NEW e \in Owned(cmd[p].run), Min(cmd[p].batch) <= e, e <= Max(cmd[p].batch)
    PROVE  FALSE
<1> DEFINE r == cmd[p].run
<1>1. cmd[p].pc \in HasBatch
  BY DEF HasBatch
<1>2. /\ r \in Runs /\ cmd[p].cursor \in Nat
      /\ cmd[p].cursor < Min(cmd[p].batch) /\ Min(cmd[p].batch) \in Nat
  BY <1>1, LoopFacts
<1>3. e \in Entities /\ inf[e].run = r /\ e \in Nat
  BY EntityFacts DEF Owned
<1>4. PICK u \in units[r] : Covers(u, e)
  BY <1>2, <1>3 DEF LedgerInv, Ledgers, OwnerInv
<1>5. u.upper \in Nat
  BY <1>1, LoopFacts, EntityIsNat DEF WorkUnits
<1>6. ~Passed(p, u)
  BY <1>2, <1>3, <1>4, <1>5 DEF Passed, Covers
<1>7. ~Current(p, u)
  BY <1>4 DEF Current
<1> QED BY <1>1, <1>6, <1>7, LoopFacts

\* Recording a unit: one that is passed is left alone, and the one it replaces, if there
\* is one, is the current one, which has no rows.
LEMMA MarkRunningLedgers ==
    ASSUME RunInv, LedgerInv, NEW p \in Cmds, MarkRunning(p) PROVE LedgerInv'
<1> DEFINE r == cmd[p].run
           b == cmd[p].batch
           new == NewUnit(cmd[p].index, b)
           old == {u \in units[r] : SameKey(u, new)}
<1>1. cmd[p].pc = "mark" /\ cmd[p].pc \in HasBatch
  BY DEF MarkRunning, HasBatch
<1>2. /\ cmd[p].pc \in Holding /\ cmd[p] \in Invocations
      /\ r \in Runs /\ run[r].status # "none"
      /\ units[r] \in SUBSET WorkUnits /\ steady[r] \in SUBSET Entities
      /\ cmd[p].cursor \in Nat /\ cmd[p].index \in Nat
      /\ b \in SUBSET Entities /\ b # {} /\ Cardinality(b) \in 1 .. BatchSize
      /\ Min(b) \in Nat /\ Max(b) \in Nat /\ cmd[p].cursor < Min(b) /\ Min(b) <= Max(b)
  BY <1>1, LoopFacts
<1>3. /\ \A e \in b : Min(b) <= e /\ e <= Max(b)
      /\ \A u \in units[r] : Passed(p, u) \/ Current(p, u)
      /\ \A e \in steady[r] : e <= cmd[p].cursor => e \in evald[r]
      /\ \A e \in steady[r] : cmd[p].cursor < e /\ e <= Max(b) => e \in b
  BY <1>1, LoopFacts
<1>4. /\ new \in WorkUnits /\ new.index = cmd[p].index /\ new.status = "RUNNING"
      /\ new.lower = Min(b) /\ new.upper = Max(b)
  BY <1>2, NewUnitFacts
<1>5. CASE \A u \in old : TriggerAllows(u, new)
  <2> DEFINE i == [cmd[p] EXCEPT !.pc = "commit"]
  <2>1. /\ units' = [units EXCEPT ![r] = (@ \ old) \cup {new}]
        /\ cmd' = [cmd EXCEPT ![p] = i]
        /\ UNCHANGED <<ent, inf, run, steady, evald>>
    BY <1>5 DEF MarkRunning
  <2>2. i \in Invocations
    BY <1>2 DEF Invocations, Steps, Holding
  <2>3. /\ i.pc = "commit" /\ i.run = r /\ i.batch = b /\ i.index = cmd[p].index
        /\ i.cursor = cmd[p].cursor
    BY <1>2 DEF Invocations
  <2>4. cmd'[p] = i
    BY <2>1 DEF RunInv, CountryTypeOK
  <2> HIDE DEF i
  <2>5. \A u \in units[r] \ old :
              Passed(p, u) /\ u.lower \in Nat /\ u.upper \in Nat /\ u.index \in Nat
    <3> TAKE u \in units[r] \ old
    <3>1. ~Current(p, u)
      BY <1>1, <1>4 DEF Current, SameKey
    <3>2. u \in WorkUnits
      BY <1>2
    <3> QED BY <1>3, <3>1, <3>2, EntityIsNat DEF WorkUnits
  <2> HIDE DEF new
  <2>6. /\ units'[r] = (units[r] \ old) \cup {new}
        /\ \A q \in Runs : q # r => units'[q] = units[q]
    BY <1>2, <2>1 DEF RunInv, CountryTypeOK
  <2>7. \A u \in old : u.lower = new.lower /\ u.upper = new.upper
    BY DEF SameKey
  <2> HIDE DEF old
  <2>8. \A e \in Owned(r) : ~Covers(new, e)
    BY <1>1, <1>4, NoRowsYet DEF Covers
  <2>9. \A u \in units[r] \ old :
          u.index < new.index /\ u.upper < new.lower /\ u.status = "SUCCESS"
    BY <1>2, <1>4, <2>5 DEF Passed
  <2>10. OrderInv'
    <3> SUFFICES ASSUME NEW q \in Runs, NEW v \in units'[q], NEW w \in units'[q], v # w
                 PROVE  \/ v.index < w.index /\ v.upper < w.lower /\ v.status = "SUCCESS"
                        \/ w.index < v.index /\ w.upper < v.lower /\ w.status = "SUCCESS"
      BY DEF OrderInv
    <3>1. CASE v \in units[q] /\ w \in units[q]
      BY <3>1 DEF LedgerInv, Ledgers, OrderInv
    <3>2. CASE ~(v \in units[q] /\ w \in units[q])
      <4>1. q = r
        BY <2>6, <3>2
      <4>2. \/ v = new /\ w \in units[r] \ old
            \/ w = new /\ v \in units[r] \ old
        BY <2>6, <3>2, <4>1
      <4> QED BY <2>9, <4>2
    <3> QED BY <3>1, <3>2
  <2>11. \A q \in Runs : Owned(q)' = Owned(q)
    BY <2>1 DEF Owned
  <2>12. CoverInv'
    <3> SUFFICES ASSUME NEW q \in Runs, NEW v \in units'[q]
                 PROVE  /\ v.lower <= v.upper
                        /\ \A e \in steady'[q] :
                            (e < v.lower \/ (Covers(v, e) /\ Backed(q, v)')) => e \in evald'[q]
      BY DEF CoverInv, Covers
    <3>1. Backed(q, v)' <=> Backed(q, v)
      BY <2>1 DEF Backed, Owned, Covers
    <3>2. CASE v \in units[q]
      BY <2>1, <3>1, <3>2 DEF LedgerInv, Ledgers, CoverInv
    <3>3. CASE v \notin units[q]
      <4>1. q = r /\ v = new
        BY <2>6, <3>3
      <4>2. ~Backed(r, new)
        BY <1>4, <2>8 DEF Backed
      <4>3. ASSUME NEW e \in steady[r], e < new.lower PROVE e \in evald[r]
        <5>1. e \in Nat /\ e <= Max(b) /\ e \notin b
          BY <1>2, <1>3, <1>4, <4>3, EntityIsNat
        <5>2. e <= cmd[p].cursor
          BY <1>2, <1>3, <5>1
        <5> QED BY <1>3, <5>2
      <4> QED BY <1>2, <1>4, <2>1, <3>1, <4>1, <4>2, <4>3
    <3> QED BY <3>2, <3>3
  <2>13. OwnerInv'
    <3> SUFFICES ASSUME NEW e \in Entities, inf[e].run \in Runs
                 PROVE  \E v \in units'[inf[e].run] : Covers(v, e)
      BY <2>1 DEF OwnerInv, Covers
    <3>1. PICK u \in units[inf[e].run] : Covers(u, e)
      BY DEF LedgerInv, Ledgers, OwnerInv
    <3>2. u \in old => Covers(new, e)
      BY <2>7, <3>1 DEF Covers
    <3> QED BY <2>6, <3>1, <3>2
  <2>14. Loop(p)'
    <3>1. \A e \in Owned(r)' : ~Covers(new, e)
      <4>1. Owned(r)' = Owned(r)
        BY <1>2, <2>1, <2>3, <2>4 DEF Owned
      <4> QED BY <2>8, <4>1
    <3>2. /\ new.index = cmd'[p].index /\ new.status # "SUCCESS" /\ cmd'[p].cursor < new.lower
          /\ new.lower = Min(cmd'[p].batch) /\ new.upper = Max(cmd'[p].batch)
      BY <1>2, <1>4, <2>3, <2>4
    <3>3. /\ \A e \in Owned(cmd[p].run)' : ~Covers(new, e)
          /\ \A u \in units[r] \ old : /\ u.status = "SUCCESS" /\ u.index < cmd'[p].index
                                       /\ u.upper <= cmd'[p].cursor
      BY <2>3, <2>4, <2>5, <3>1 DEF Passed
    <3>4. ASSUME NEW u \in units'[r] PROVE Passed(p, u)' \/ Current(p, u)'
      <4>1. CASE u = new
        BY <2>3, <2>4, <3>2, <3>3, <4>1 DEF Current, Covers
      <4>2. CASE u # new
        BY <2>6, <3>3, <4>2 DEF Passed
      <4> QED BY <4>1, <4>2
    <3> QED BY <1>3, <2>1, <2>3, <2>4, <3>4 DEF Loop, HasBatch
  <2>15. SteadyInv'
    BY <2>1, SteadyFrame DEF LedgerInv
  <2>16. Ledgers' /\ i.pc # "lock"
    BY <2>3, <2>10, <2>12, <2>13 DEF Ledgers
  <2> QED BY <1>2, <2>1, <2>2, <2>3, <2>6, <2>14, <2>15, <2>16, MoveLedgers
<1>6. CASE ~(\A u \in old : TriggerAllows(u, new))
  <2>1. Refuse(p)
    BY <1>6 DEF MarkRunning
  <2> QED BY <1>2, <2>1, RefuseLedgers
<1> QED BY <1>5, <1>6

\* A commit: the batch has a unit, nobody in its range owns a row yet, and whoever is
\* steady in the range is in the batch.
LEMMA CommitLedgers ==
    ASSUME RunInv, LedgerInv, NEW p \in Cmds, CommitBatch(p)
    PROVE  LedgerInv'
<1> DEFINE r == cmd[p].run
           b == cmd[p].batch
           i == [cmd[p] EXCEPT !.pc = "done"]
<1>1. cmd[p].pc = "commit" /\ cmd[p].pc \in HasBatch
  BY DEF CommitBatch, HasBatch
<1>2. /\ cmd[p].pc \in Holding /\ cmd[p] \in Invocations
      /\ r \in Runs /\ run[r].status # "none"
      /\ units[r] \in SUBSET WorkUnits /\ steady[r] \in SUBSET Entities
      /\ cmd[p].cursor \in Nat /\ cmd[p].index \in Nat
      /\ b \in SUBSET Entities
      /\ Min(b) \in Nat /\ Max(b) \in Nat /\ cmd[p].cursor < Min(b) /\ Min(b) <= Max(b)
  BY <1>1, LoopFacts
<1>3. /\ \A e \in b : Min(b) <= e /\ e <= Max(b)
      /\ \A u \in units[r] : Passed(p, u) \/ Current(p, u)
      /\ \A e \in steady[r] : e <= cmd[p].cursor => e \in evald[r]
      /\ \A e \in steady[r] : cmd[p].cursor < e /\ e <= Max(b) => e \in b
  BY <1>1, LoopFacts
<1>4. PICK verdict \in Evidence :
        inf' = [e \in Entities |->
            IF e \in b
            THEN Upserted(inf[e], r, verdict[e],
                          run[r].apply /\ verdict[e] \in Accepted /\ ent[e] = "unknown")
            ELSE inf[e]]
  BY DEF CommitBatch
<1>5. \A e \in Entities : inf'[e].run = IF e \in b THEN r ELSE inf[e].run
  BY <1>4 DEF Upserted
<1>6. /\ cmd' = [cmd EXCEPT ![p] = i] /\ UNCHANGED <<ent, run, units>>
      /\ evald' = [evald EXCEPT ![r] = @ \cup b]
      /\ steady' = [q \in Runs |-> steady[q] \cap Candidates']
  BY DEF CommitBatch, TrackSteady
<1>7. /\ \A q \in Runs : steady'[q] \subseteq steady[q] /\ evald[q] \subseteq evald'[q]
      /\ b \subseteq evald'[r]
  BY <1>2, <1>6 DEF RunInv, CountryTypeOK
<1>8. i \in Invocations
  BY <1>2 DEF Invocations, Steps, Holding
<1>9. /\ i.pc = "done" /\ i.run = r /\ i.batch = b /\ i.index = cmd[p].index
      /\ i.cursor = cmd[p].cursor
  BY <1>2 DEF Invocations
<1>10. cmd'[p] = i
  BY <1>6 DEF RunInv, CountryTypeOK
<1> HIDE DEF i
<1>11. PICK c \in units[r] : c.index = cmd[p].index
  BY <1>1 DEF RunInv, BatchInv, GoesOn
<1>12. c.lower = Min(b) /\ c.upper = Max(b)
  BY <1>1, <1>2, <1>3, <1>11 DEF Passed, Current
<1>13. OrderInv'
  BY <1>6 DEF LedgerInv, Ledgers, OrderInv
<1>14. \A q \in Runs \ {r} : Owned(q)' \subseteq Owned(q)
  BY <1>5 DEF Owned
<1>15. CoverInv'
  <2> SUFFICES ASSUME NEW q \in Runs, NEW u \in units[q]
               PROVE  /\ u.lower <= u.upper
                      /\ \A e \in steady'[q] :
                          (e < u.lower \/ (Covers(u, e) /\ Backed(q, u)')) => e \in evald'[q]
    BY <1>6 DEF CoverInv, Covers
  <2>1. /\ u.lower <= u.upper
        /\ \A e \in steady[q] :
            (e < u.lower \/ (Covers(u, e) /\ Backed(q, u))) => e \in evald[q]
    BY DEF LedgerInv, Ledgers, CoverInv
  <2>2. CASE q # r
    <3>1. Backed(q, u)' => Backed(q, u)
      BY <1>14, <2>2 DEF Backed, Covers
    <3> QED BY <1>7, <2>1, <3>1
  <2>3. CASE q = r
    <3>1. CASE Passed(p, u)
      BY <1>7, <2>1, <3>1 DEF Passed, Backed
    <3>2. CASE Current(p, u)
      <4>1. u.lower = Min(b) /\ u.upper = Max(b)
        BY <1>1, <3>2 DEF Current
      <4>2. \A e \in steady[r] : Covers(u, e) => e \in b
        BY <1>2, <1>3, <4>1, EntityIsNat DEF Covers
      <4> QED BY <1>7, <2>1, <2>3, <4>2
    <3> QED BY <1>3, <2>3, <3>1, <3>2
  <2> QED BY <2>2, <2>3
<1>16. OwnerInv'
  <2> SUFFICES ASSUME NEW e \in Entities, inf'[e].run \in Runs
               PROVE  \E u \in units[inf'[e].run] : Covers(u, e)
    BY <1>6 DEF OwnerInv, Covers
  <2>1. CASE e \in b
    BY <1>3, <1>5, <1>12, <2>1 DEF Covers
  <2>2. CASE e \notin b
    BY <1>5, <2>2 DEF LedgerInv, Ledgers, OwnerInv
  <2> QED BY <2>1, <2>2
<1>17. Loop(p)'
  <2>1. \A u \in units[r] : Passed(p, u)' \/ Current(p, u)'
    <3> TAKE u \in units[r]
    <3>1. CASE Passed(p, u)
      BY <1>9, <1>10, <3>1 DEF Passed
    <3>2. CASE Current(p, u)
      BY <1>1, <1>9, <1>10, <3>2 DEF Current, HasBatch
    <3> QED BY <1>3, <3>1, <3>2
  <2> QED BY <1>2, <1>3, <1>6, <1>7, <1>9, <1>10, <2>1 DEF Loop
<1>18. SteadyInv'
  BY <1>6 DEF SteadyInv
<1>19. Ledgers' /\ i.pc # "lock"
  BY <1>9, <1>13, <1>15, <1>16 DEF Ledgers
<1> QED BY <1>2, <1>6, <1>7, <1>8, <1>9, <1>17, <1>18, <1>19, MoveLedgers

\* SUCCESS: whoever is steady in the range has been evaluated with the batch.
LEMMA MarkSuccessLedgers ==
    ASSUME RunInv, LedgerInv, NEW p \in Cmds, MarkSuccess(p) PROVE LedgerInv'
<1> DEFINE r == cmd[p].run
           b == cmd[p].batch
           i == [cmd[p] EXCEPT !.pc = "select", !.cursor = Max(b),
                                !.pending = FALSE, !.index = @ + 1, !.batch = {}]
<1>1. cmd[p].pc = "done" /\ cmd[p].pc \in HasBatch
  BY DEF MarkSuccess, HasBatch
<1>2. /\ cmd[p].pc \in Holding /\ cmd[p] \in Invocations
      /\ r \in Runs /\ run[r].status # "none"
      /\ units[r] \in SUBSET WorkUnits /\ steady[r] \in SUBSET Entities
      /\ cmd[p].cursor \in Nat /\ cmd[p].index \in Nat
      /\ b \in SUBSET Entities /\ b # {}
      /\ Min(b) \in Nat /\ Max(b) \in Nat /\ cmd[p].cursor < Min(b) /\ Min(b) <= Max(b)
  BY <1>1, LoopFacts
<1>3. /\ \A u \in units[r] : Passed(p, u) \/ Current(p, u)
      /\ \A e \in steady[r] : e <= cmd[p].cursor => e \in evald[r]
      /\ \A e \in steady[r] : cmd[p].cursor < e /\ e <= Max(b) => e \in b
  BY <1>1, LoopFacts
<1>4. b \subseteq evald[r]
  BY <1>1 DEF LedgerInv, LoopInv, Loop
<1>5. /\ units' = WithStatus(r, b, "SUCCESS") /\ cmd' = [cmd EXCEPT ![p] = i]
      /\ UNCHANGED <<ent, inf, run, steady, evald>>
  BY DEF MarkSuccess
<1>6. i \in Invocations
  <2>1. Max(b) \in 0 .. NumEntities /\ cmd[p].index + 1 \in Nat /\ {} \in SUBSET Entities
    BY <1>2, BatchEnds, EntityFacts
  <2> QED BY <1>2, <2>1 DEF Invocations, Steps, Holding
<1>7. i.pc = "select" /\ i.run = r /\ i.index = cmd[p].index + 1 /\ i.cursor = Max(b)
  BY <1>2 DEF Invocations
<1>8. cmd'[p] = i
  BY <1>5 DEF RunInv, CountryTypeOK
<1> HIDE DEF i
<1> DEFINE f == [u \in units[r] |-> IF u.lower = Min(b) /\ u.upper = Max(b)
                                    THEN [u EXCEPT !.status = "SUCCESS"] ELSE u]
<1>9. units'[r] = {f[u] : u \in units[r]} /\ \A q \in Runs : q # r => units'[q] = units[q]
  <2>1. /\ units'[r] = {IF u.lower = Min(b) /\ u.upper = Max(b)
                        THEN [u EXCEPT !.status = "SUCCESS"] ELSE u : u \in units[r]}
        /\ \A q \in Runs \ {r} : units'[q] = units[q]
    BY <1>2, <1>5, WithStatusFacts DEF RunInv
  <2>2. {f[u] : u \in units[r]} = {IF u.lower = Min(b) /\ u.upper = Max(b)
                                   THEN [u EXCEPT !.status = "SUCCESS"] ELSE u : u \in units[r]}
    OBVIOUS
  <2> QED BY <2>1, <2>2
<1>10. \A u \in units[r] : [u EXCEPT !.status = "SUCCESS"] \in WorkUnits
  BY <1>2 DEF WorkUnits
<1>11. f \in [units[r] -> WorkUnits]
  BY <1>2, <1>10
<1>12. \A u \in units[r] :
         /\ f[u].index = u.index /\ f[u].lower = u.lower /\ f[u].upper = u.upper
         /\ u.status = "SUCCESS" => f[u].status = "SUCCESS"
         /\ u.lower = Min(b) /\ u.upper = Max(b) => f[u].status = "SUCCESS"
         /\ ~(u.lower = Min(b) /\ u.upper = Max(b)) => f[u] = u
         /\ u.index \in Nat /\ u.upper \in Nat
  BY <1>2, EntityIsNat DEF WorkUnits
<1> HIDE DEF f
<1>13. \A e \in steady[r] : e <= Max(b) => e \in evald[r]
  BY <1>2, <1>3, <1>4, EntityIsNat
<1>14. Ledgers'
  <2>1. ASSUME NEW u \in units[r], f[u].status = "SUCCESS"
        PROVE  Backed(r, u) \/ \A e \in steady[r] : Covers(u, e) => e \in evald[r]
    BY <1>12, <1>13, <2>1 DEF Backed, Covers
  <2> QED BY <1>2, <1>5, <1>9, <1>11, <1>12, <2>1, StatusLedgers DEF LedgerInv
<1>15. Loop(p)'
  <2>1. ASSUME NEW u \in units[r]
        PROVE  f[u].status = "SUCCESS" /\ f[u].index < cmd[p].index + 1 /\ f[u].upper <= Max(b)
    <3>1. CASE Passed(p, u)
      BY <1>2, <1>12, <3>1 DEF Passed
    <3>2. CASE Current(p, u)
      BY <1>1, <1>2, <1>12, <3>2 DEF Current
    <3> QED BY <1>3, <3>1, <3>2
  <2>2. \A v \in units'[r] : v.status = "SUCCESS" /\ v.index < i.index /\ v.upper <= i.cursor
    BY <1>7, <1>9, <2>1
  <2> QED BY <1>5, <1>7, <1>8, <1>13, <2>2 DEF Loop, Passed, HasBatch
<1>16. SteadyInv' /\ i.pc # "lock"
  BY <1>5, <1>7, SteadyFrame DEF LedgerInv
<1> QED BY <1>2, <1>5, <1>6, <1>7, <1>9, <1>14, <1>15, <1>16, MoveLedgers

\* Every step keeps it, unless a run is resumed before its creator has tried the lock.
LEMMA LedgerStep ==
    ASSUME ~EarlyResume
    PROVE  RunInv /\ LedgerInv /\ [CountryNext]_countryVars => LedgerInv'
<1> SUFFICES ASSUME RunInv, LedgerInv, [CountryNext]_countryVars PROVE LedgerInv'
  OBVIOUS
<1>1. CASE UNCHANGED countryVars
  <2>1. UNCHANGED <<ent, inf, run, units, cmd, steady, evald>>
    BY <1>1 DEF countryVars
  <2>2. SteadyInv' /\ Ledgers' /\ SuccessIsComplete'
    BY <2>1, SteadyFrame, QuietLedgers, SuccessFrame DEF LedgerInv
  <2>3. CreatorInv'
    BY <2>1 DEF LedgerInv, CreatorInv
  <2>4. LoopInv'
    <3>1. \A q \in Cmds : Loop(q)' <=> Loop(q)
      BY <2>1 DEF Loop, Passed, Current, Owned, Covers
    <3> QED BY <2>1, <3>1 DEF LedgerInv, LoopInv
  <2> QED BY <2>2, <2>3, <2>4 DEF LedgerInv
<1>2. ASSUME NEW p \in Cmds,
             \/ \E cfg \in Configs : StartNew(p, cfg)
             \/ \E r \in Runs : StartResume(p, r) \/ StartActivation(p, r)
             \/ TakeLock(p) \/ LockBusy(p)
             \/ Reopen(p) \/ Select(p) \/ MarkRunning(p) \/ CommitBatch(p) \/ MarkSuccess(p)
             \/ Activate(p)
             \/ Fail(p)
      PROVE  LedgerInv'
  BY <1>2, StartNewLedgers, LockLedgers, StartActivationLedgers, ReopenLedgers, SelectLedgers,
     MarkRunningLedgers, CommitLedgers, MarkSuccessLedgers, ActivateLedgers, FailLedgers
<1>3. ASSUME NEW e \in Entities, ContactImport(e) PROVE LedgerInv'
  BY <1>3, ImportLedgers
<1> QED BY <1>1, <1>2, <1>3 DEF CountryNext

\* The ledgers mean what they say in every reachable state.
LEMMA LedgerInvariance == ASSUME ~EarlyResume PROVE CountrySpec => [](RunInv /\ LedgerInv)
<1>1. CountryInit => RunInv /\ LedgerInv
  BY RunInit, LedgerInit
<1>2. RunInv /\ LedgerInv /\ [CountryNext]_countryVars => (RunInv /\ LedgerInv)'
  BY RunStep, LedgerStep
<1> QED BY <1>1, <1>2, PTL DEF CountrySpec

\* A run that ends SUCCESS has evaluated everybody who was a candidate all the time from its
\* creation on, or max_entities ended it; through any number of crashes, resumes, imports
\* and activations, as long as nobody resumes a run before its creator has tried the lock.
THEOREM SuccessSkipsNobody == ASSUME ~EarlyResume PROVE CountrySpec => []SuccessIsComplete
<1>1. RunInv /\ LedgerInv => SuccessIsComplete
  BY DEF LedgerInv
<1> QED BY <1>1, LedgerInvariance, PTL

\* A run about to commit a batch has no SUCCESS unit over any of it and owns none of its
\* rows, on the same condition.
THEOREM NobodyIsReevaluated == ASSUME ~EarlyResume PROVE CountrySpec => []NeverReevaluated
<1>1. RunInv /\ LedgerInv => NeverReevaluated
  <2> SUFFICES ASSUME RunInv, LedgerInv, NEW p \in Cmds, cmd[p].pc = "commit",
                      NEW e \in cmd[p].batch
               PROVE  /\ inf[e].run # cmd[p].run
                      /\ \A u \in units[cmd[p].run] :
                            u.status = "SUCCESS" => ~(u.lower <= e /\ e <= u.upper)
    BY DEF NeverReevaluated
  <2> DEFINE r == cmd[p].run
             b == cmd[p].batch
  <2>1. /\ b \in SUBSET Entities /\ cmd[p].cursor \in Nat /\ Min(b) \in Nat
        /\ cmd[p].cursor < Min(b) /\ Min(b) <= e /\ e <= Max(b)
        /\ units[r] \in SUBSET WorkUnits
        /\ \A u \in units[r] : Passed(p, u) \/ Current(p, u)
    BY LoopFacts DEF HasBatch
  <2>2. e \in Entities /\ e \in Nat
    BY <2>1, EntityIsNat
  <2>3. inf[e].run # r
    BY <2>1, <2>2, NoRowsYet DEF Owned
  <2>4. ASSUME NEW u \in units[r], u.status = "SUCCESS" PROVE ~(u.lower <= e /\ e <= u.upper)
    <3>1. u.upper <= cmd[p].cursor /\ u.upper \in Nat
      BY <2>1, <2>4, EntityIsNat DEF Passed, Current, WorkUnits
    <3> QED BY <2>1, <2>2, <3>1
  <2> QED BY <2>3, <2>4
<1> QED BY <1>1, LedgerInvariance, PTL

-----------------------------------------------------------------------------
(* The task queue.                                                         *)

\* There is one API process.
OneProcess == \A a, b \in Procs : a = b

Outcomes == {"SUCCESS", "FAILED", "MISSING_FILE"}

\* A thread at work has a task, a path and, in the end, an outcome.
WorkInv ==
    \A t \in Threads :
        /\ pc[t] \in AtWork => cur[t] \in Contents /\ at[t] \in Paths /\ path[cur[t]] \in Paths
        /\ pc[t] \in {"lock", "import", "archive"} => plan[t] \in Contents
        /\ pc[t] = "finish" => outcome[t] \in Outcomes

\* A task in the table has a path.
PathInv == \A c \in Contents : status[c] # "NONE" => path[c] \in Paths

TypeInv == TypeOK /\ WorkInv /\ PathInv

\* Only a process that is through with its schema has threads at work.
LiveInv == \A t \in Threads : pc[t] # "idle" => proc[Home[t]] = "ready"

\* The task of a thread at work is PROCESSING, so that no other thread claims it.
HeldInv == \A t \in Threads : pc[t] \in AtWork => status[cur[t]] = "PROCESSING"

ClaimInv == LiveInv /\ HeldInv /\ OneApply

\* Content c is imported and archived.
Done(c) == c \in imported /\ \E f \in archive : f.task = c /\ f.content = c

\* An import plans, commits and archives the file that was discovered.
SourceInv ==
    \A t \in Threads :
        /\ pc[t] \in ReadsFile => incoming[at[t]] = cur[t]
        /\ pc[t] \in {"lock", "import", "archive"} => plan[t] = cur[t]
        /\ pc[t] = "archive" => cur[t] \in imported
        /\ pc[t] = "finish" /\ outcome[t] = "SUCCESS" => Done(cur[t])

FileInv == SourceInv /\ SuccessIsDone /\ OnlyDiscovered

-----------------------------------------------------------------------------
(* Types.                                                                  *)

\* The initial state is well typed.
LEMMA TypeInit == Init => TypeInv
  BY ContactConstants DEF Init, TypeInv, TypeOK, WorkInv, PathInv, Statuses, Pcs, AtWork, ReadsFile

\* Processes and the scanner keep the types.
LEMMA SystemTypes ==
    ASSUME TypeInv, NEW a \in Procs, Restart(a) \/ Crash(a) \/ Scan(a)
    PROVE  TypeInv'
<1> USE ContactConstants
<1>2. CASE StartProcess(a)
  BY <1>2 DEF StartProcess, TypeInv, TypeOK, WorkInv, PathInv, tasks, files, work, bounds
<1>3. CASE EnsureSchema(a)
  <2>1. \A d \in Contents : /\ status'[d] \in Statuses
                            /\ status'[d] = "NONE" <=> status[d] = "NONE"
    BY <1>3 DEF EnsureSchema, Interrupted, Reevaluated, TypeInv, TypeOK, Statuses
  <2>2. status' \in [Contents -> Statuses]
    BY <1>3, <2>1 DEF EnsureSchema
  <2>3. upgrades' \in Nat
    BY <1>3 DEF EnsureSchema, TypeInv, TypeOK
  <2> QED BY <1>3, <2>1, <2>2, <2>3
          DEF EnsureSchema, TypeInv, TypeOK, WorkInv, PathInv, files, work
<1>4. CASE Crash(a)
  <2>1. TypeOK'
    BY <1>4 DEF Crash, Forget, TypeInv, TypeOK, tasks, files, Pcs
  <2>2. WorkInv'
    BY <1>4 DEF Crash, Forget, TypeInv, TypeOK, WorkInv, tasks, AtWork, ReadsFile
  <2> QED BY <1>4, <2>1, <2>2 DEF Crash, TypeInv, PathInv, tasks
<1>5. CASE Scan(a)
  <2>1. PICK valid \in SUBSET Evaluates :
          status' = [d \in Contents |-> IF d \notin Evaluates THEN status[d]
                                        ELSE IF d \in valid THEN "READY" ELSE "INVALID"]
    BY <1>5 DEF Scan
  <2>2. PICK seen \in [Present -> Paths] :
          path' = [d \in Contents |-> IF d \in Present /\ status[d] # "SUCCESS"
                                      THEN seen[d] ELSE path[d]]
    BY <1>5 DEF Scan
  <2>3. status' \in [Contents -> Statuses] /\ path' \in [Contents -> Paths \cup {None}]
    BY <2>1, <2>2 DEF TypeInv, TypeOK, Statuses
  <2>4. PathInv'
    BY <2>1, <2>2 DEF TypeInv, PathInv, Evaluates, Known
  <2>5. \A d \in Contents : path[d] \in Paths => path'[d] \in Paths
    BY <2>2
  <2>6. WorkInv'
    BY <1>5, <2>5 DEF Scan, TypeInv, WorkInv, work
  <2> QED BY <1>5, <2>3, <2>4, <2>6 DEF Scan, TypeInv, TypeOK, files, work, bounds
<1> QED BY <1>2, <1>3, <1>4, <1>5 DEF Restart

\* Taking a task keeps the types.
LEMMA ClaimTypes ==
    ASSUME TypeInv, NEW t \in Threads, NEW c \in Contents,
           Apply(t, c) \/ Claim(t, c) \/ SkipTask(t, c)
    PROVE  TypeInv'
<1> USE ContactConstants DEF TypeInv, AtWork, ReadsFile
<1>1. CASE Apply(t, c)
  <2>1. PICK batch \in SUBSET Contents : Begin(t, batch)
    BY <1>1 DEF Apply
  <2> QED BY <2>1 DEF Begin, TypeOK, WorkInv, PathInv, Pcs, tasks, files, bounds
<1>2. CASE Claim(t, c)
  <2>1. TypeOK'
    BY <1>2 DEF Claim, TypeOK, files, bounds, Pcs, Statuses
  <2>2. WorkInv'
    BY <1>2 DEF Claim, Claimable, TypeOK, WorkInv, PathInv
  <2> QED BY <1>2, <2>1, <2>2 DEF Claim, Claimable, TypeOK, PathInv
<1>3. CASE SkipTask(t, c)
  BY <1>3 DEF SkipTask, Fault, TypeOK, WorkInv, PathInv, tasks, files
<1> QED BY <1>1, <1>2, <1>3

\* The other steps of a thread keep the types.
LEMMA ThreadTypes ==
    ASSUME TypeInv, NEW t \in Threads,
           \/ BatchApply(t) \/ EndThread(t) \/ CheckSource(t) \/ BuildPlan(t) \/ AcquireApplyLock(t)
           \/ Import(t) \/ Archive(t) \/ Finish(t) \/ FinishLost(t)
    PROVE  TypeInv'
<1> USE ContactConstants DEF TypeInv, AtWork, ReadsFile
<1>3. CASE BatchApply(t)
  <2>1. PICK batch \in SUBSET Contents : Begin(t, batch)
    BY <1>3 DEF BatchApply
  <2> QED BY <2>1 DEF Begin, TypeOK, WorkInv, PathInv, Pcs, tasks, files, bounds
<1>4. CASE EndThread(t)
  BY <1>4 DEF EndThread, TypeOK, WorkInv, PathInv, tasks, files, work, bounds, Pcs
<1>5. CASE CheckSource(t)
  BY <1>5 DEF CheckSource, EndWith, GoTo, Fault, TypeOK, WorkInv, PathInv, tasks, files, Pcs,
              Statuses, Outcomes
<1>6. CASE BuildPlan(t)
  <2>1. incoming[at[t]] \in Contents \cup {None}
    BY <1>6 DEF BuildPlan, TypeOK, WorkInv
  <2>2. TypeOK'
    BY <1>6, <2>1 DEF BuildPlan, EndWith, GoTo, Fault, TypeOK, tasks, files, Pcs, Statuses
  <2>3. WorkInv'
    BY <1>6, <2>1 DEF BuildPlan, EndWith, GoTo, Fault, TypeOK, WorkInv, tasks, Outcomes
  <2> QED BY <1>6, <2>2, <2>3 DEF BuildPlan, PathInv, tasks
<1>7. CASE AcquireApplyLock(t)
  BY <1>7 DEF AcquireApplyLock, TypeOK, WorkInv, PathInv, tasks, files, work, bounds, Pcs
<1>8. CASE Import(t)
  <2>1. plan[t] \in Contents
    BY <1>8 DEF Import, WorkInv
  <2>a. imported' = imported \/ imported' = imported \cup {plan[t]}
    BY <1>8 DEF Import
  <2>b. imported' \subseteq Contents
    BY <2>1, <2>a DEF TypeOK
  <2>c. /\ pc' \in [Threads -> Pcs] /\ outcome' \in [Threads -> Statuses \cup {None}]
        /\ faults' \in Nat
    BY <1>8 DEF Import, ImportRaised, EndWith, GoTo, Fault, TypeOK, Pcs, Statuses
  <2>2. TypeOK'
    BY <1>8, <2>b, <2>c DEF Import, TypeOK, tasks, files
  <2>3. WorkInv'
    BY <1>8 DEF Import, ImportRaised, EndWith, GoTo, TypeOK, WorkInv, tasks, Outcomes
  <2> QED BY <1>8, <2>2, <2>3 DEF Import, PathInv, tasks
<1>9. CASE Archive(t)
  <2> DEFINE p == at[t]
             target == [task |-> cur[t], name |-> p, content |-> cur[t]]
  <2>1. p \in Paths /\ cur[t] \in Contents /\ incoming[p] \in Contents \cup {None}
    BY <1>9 DEF Archive, TypeOK, WorkInv
  <2>2. /\ incoming' \in [Paths -> Contents \cup {None}]
        /\ archive' \subseteq [task : Contents, name : Paths, content : Contents]
    BY <1>9, <2>1 DEF Archive, TypeOK, files
  <2>3. TypeOK'
    BY <1>9, <2>2 DEF Archive, EndWith, Fault, TypeOK, tasks, Pcs, Statuses
  <2>4. WorkInv'
    BY <1>9 DEF Archive, EndWith, TypeOK, WorkInv, tasks, Outcomes
  <2> QED BY <1>9, <2>3, <2>4 DEF Archive, PathInv, tasks
<1>10. CASE Finish(t)
  <2>1. cur[t] \in Contents /\ outcome[t] \in Outcomes /\ path[cur[t]] \in Paths
    BY <1>10 DEF Finish, TypeOK, WorkInv
  <2>2. TypeOK'
    BY <1>10, <2>1 DEF Finish, Return, Forget, TypeOK, files, bounds, Pcs, Statuses, Outcomes
  <2>3. WorkInv'
    BY <1>10 DEF Finish, Return, Forget, TypeOK, WorkInv
  <2> QED BY <1>10, <2>1, <2>2, <2>3 DEF Finish, TypeOK, PathInv, Outcomes
<1>11. CASE FinishLost(t)
  <2>1. TypeOK'
    BY <1>11 DEF FinishLost, EndWith, Return, Forget, TypeOK, tasks, files, Pcs, Statuses
  <2>2. WorkInv'
    BY <1>11 DEF FinishLost, EndWith, Return, Forget, TypeOK, WorkInv, tasks, Outcomes
  <2> QED BY <1>11, <2>1, <2>2 DEF FinishLost, PathInv, tasks
<1> QED BY <1>3, <1>4, <1>5, <1>6, <1>7, <1>8, <1>9, <1>10, <1>11

\* Stuttering keeps the types.
LEMMA StutterTypes == ASSUME TypeInv, UNCHANGED vars PROVE TypeInv'
  BY DEF TypeInv, TypeOK, WorkInv, PathInv, vars, tasks, files, work, bounds

\* Every step keeps the types.
LEMMA TypeStep == TypeInv /\ [Next]_vars => TypeInv'
<1> SUFFICES ASSUME TypeInv, [Next]_vars PROVE TypeInv'
  OBVIOUS
<1>1. ASSUME NEW p \in Paths, NEW c \in Contents \cup {None}, ChangeFile(p, c) PROVE TypeInv'
  BY <1>1 DEF ChangeFile, TypeInv, TypeOK, WorkInv, PathInv, tasks, work
<1>2. ASSUME NEW a \in Procs, Restart(a) \/ Crash(a) \/ Scan(a) PROVE TypeInv'
  BY <1>2, SystemTypes
<1>3. ASSUME NEW t \in Threads, NEW c \in Contents, Apply(t, c) \/ Claim(t, c) \/ SkipTask(t, c)
      PROVE  TypeInv'
  BY <1>3, ClaimTypes
<1>4. ASSUME NEW t \in Threads,
             \/ BatchApply(t) \/ EndThread(t) \/ CheckSource(t) \/ BuildPlan(t) \/ AcquireApplyLock(t)
             \/ Import(t) \/ Archive(t) \/ Finish(t) \/ FinishLost(t)
      PROVE  TypeInv'
  BY <1>4, ThreadTypes
<1>5. CASE UNCHANGED vars
  BY <1>5, StutterTypes
<1> QED BY <1>1, <1>2, <1>3, <1>4, <1>5 DEF Next, ThreadStep

\* Types and the state of the threads, in every reachable state.
LEMMA TypeInvariance == Spec => []TypeInv
  BY TypeInit, TypeStep, PTL DEF Spec

\* The task table, the files and the threads keep their types, for any number of
\* API processes and whatever happens to the files.
THEOREM ContactTypes == Spec => []TypeOK
<1>1. TypeInv => TypeOK
  BY DEF TypeInv
<1> QED BY <1>1, TypeInvariance, PTL

-----------------------------------------------------------------------------
(* One import of a task at a time.                                         *)

\* No thread is at work in the initial state.
LEMMA ClaimInit == Init => ClaimInv
  BY DEF Init, ClaimInv, LiveInv, HeldInv, OneApply, AtWork, ReadsFile

\* Processes and the scanner leave the running imports alone.
LEMMA SystemClaims ==
    ASSUME OneProcess, TypeInv, ClaimInv, NEW a \in Procs, Restart(a) \/ Crash(a) \/ Scan(a)
    PROVE  ClaimInv'
<1> USE ContactConstants DEF ClaimInv
<1>0. \A t \in Threads : Home[t] = a
  BY DEF OneProcess
<1>1. CASE proc[a] # "ready" /\ Restart(a)
  <2>1. \A t \in Threads : pc'[t] = "idle"
    BY <1>0, <1>1 DEF Restart, StartProcess, EnsureSchema, LiveInv
  <2> QED BY <2>1 DEF LiveInv, HeldInv, OneApply, AtWork, ReadsFile
<1>2. CASE Crash(a)
  <2>1. \A t \in Threads : pc'[t] = "idle"
    BY <1>0, <1>2 DEF Crash
  <2> QED BY <2>1 DEF LiveInv, HeldInv, OneApply, AtWork, ReadsFile
<1>3. CASE Scan(a)
  <2>1. \A c \in Contents : status[c] = "PROCESSING" => status'[c] = "PROCESSING"
    <3>1. PICK valid \in SUBSET Evaluates :
            status' = [d \in Contents |-> IF d \notin Evaluates THEN status[d]
                                          ELSE IF d \in valid THEN "READY" ELSE "INVALID"]
      BY <1>3 DEF Scan
    <3> QED BY <3>1 DEF Evaluates, Known
  <2>2. UNCHANGED <<proc, pc, cur>>
    BY <1>3 DEF Scan, work
  <2> QED BY <2>1, <2>2 DEF LiveInv, HeldInv, OneApply, TypeInv, WorkInv
<1> QED BY <1>1, <1>2, <1>3 DEF Restart, StartProcess, EnsureSchema

\* A claim gives a task to one thread.
LEMMA TakeClaims ==
    ASSUME TypeInv, ClaimInv, NEW t \in Threads, NEW c \in Contents,
           Apply(t, c) \/ Claim(t, c) \/ SkipTask(t, c)
    PROVE  ClaimInv'
<1> USE DEF ClaimInv, TypeInv, AtWork, ReadsFile
<1>1. CASE Apply(t, c)
  BY <1>1 DEF Apply, Begin, TypeOK, LiveInv, HeldInv, OneApply, tasks
<1>2. CASE Claim(t, c)
  <2>1. status[c] # "PROCESSING"
    BY <1>2 DEF Claim, Claimable
  <2>2. LiveInv'
    BY <1>2 DEF Claim, TypeOK, LiveInv
  <2>3. HeldInv'
    BY <1>2, <2>1 DEF Claim, TypeOK, HeldInv, WorkInv
  <2>4. OneApply'
    BY <1>2, <2>1 DEF Claim, TypeOK, HeldInv, OneApply
  <2> QED BY <2>2, <2>3, <2>4
<1>3. CASE SkipTask(t, c)
  BY <1>3 DEF SkipTask, LiveInv, HeldInv, OneApply, tasks
<1> QED BY <1>1, <1>2, <1>3

\* A thread's other steps write the status of its own task only, when it gives it up.
LEMMA ThreadClaims ==
    ASSUME TypeInv, ClaimInv, NEW t \in Threads,
           \/ BatchApply(t) \/ EndThread(t) \/ CheckSource(t) \/ BuildPlan(t) \/ AcquireApplyLock(t)
           \/ Import(t) \/ Archive(t) \/ Finish(t) \/ FinishLost(t)
    PROVE  ClaimInv'
<1> USE DEF ClaimInv, TypeInv, AtWork, ReadsFile
<1>1. CASE BatchApply(t) \/ EndThread(t)
  BY <1>1 DEF BatchApply, Begin, EndThread, TypeOK, LiveInv, HeldInv, OneApply, tasks, work
<1>2. CASE CheckSource(t) \/ BuildPlan(t) \/ AcquireApplyLock(t) \/ Import(t) \/ Archive(t)
  <2>1. /\ UNCHANGED <<status, proc, cur>>
        /\ pc[t] \in AtWork
        /\ \E l \in AtWork : pc' = [pc EXCEPT ![t] = l]
    BY <1>2 DEF CheckSource, BuildPlan, AcquireApplyLock, Import, ImportRaised, Archive, EndWith,
                GoTo, tasks, work
  <2> QED BY <2>1 DEF TypeOK, LiveInv, HeldInv, OneApply
<1>3. CASE Finish(t)
  <2>1. LiveInv'
    BY <1>3 DEF Finish, Return, TypeOK, LiveInv
  <2>2. HeldInv'
    BY <1>3 DEF Finish, Return, Forget, TypeOK, HeldInv, OneApply, WorkInv
  <2>3. OneApply'
    BY <1>3 DEF Finish, Return, Forget, TypeOK, OneApply
  <2> QED BY <2>1, <2>2, <2>3
<1>4. CASE FinishLost(t)
  <2>1. LiveInv'
    BY <1>4 DEF FinishLost, Return, EndWith, TypeOK, LiveInv
  <2>2. HeldInv'
    BY <1>4 DEF FinishLost, Return, Forget, EndWith, TypeOK, HeldInv, tasks
  <2>3. OneApply'
    BY <1>4 DEF FinishLost, Return, Forget, EndWith, TypeOK, OneApply
  <2> QED BY <2>1, <2>2, <2>3
<1> QED BY <1>1, <1>2, <1>3, <1>4

\* Every step of one API process keeps the imports apart.
LEMMA ClaimStep == ASSUME OneProcess PROVE TypeInv /\ ClaimInv /\ [Next]_vars => ClaimInv'
<1> SUFFICES ASSUME TypeInv, ClaimInv, [Next]_vars PROVE ClaimInv'
  OBVIOUS
<1>1. ASSUME NEW p \in Paths, NEW c \in Contents \cup {None}, ChangeFile(p, c) PROVE ClaimInv'
  BY <1>1 DEF ChangeFile, ClaimInv, LiveInv, HeldInv, OneApply, tasks, work
<1>2. ASSUME NEW a \in Procs, Restart(a) \/ Crash(a) \/ Scan(a) PROVE ClaimInv'
  BY <1>2, SystemClaims
<1>3. ASSUME NEW t \in Threads, NEW c \in Contents, Apply(t, c) \/ Claim(t, c) \/ SkipTask(t, c)
      PROVE  ClaimInv'
  BY <1>3, TakeClaims
<1>4. ASSUME NEW t \in Threads,
             \/ BatchApply(t) \/ EndThread(t) \/ CheckSource(t) \/ BuildPlan(t) \/ AcquireApplyLock(t)
             \/ Import(t) \/ Archive(t) \/ Finish(t) \/ FinishLost(t)
      PROVE  ClaimInv'
  BY <1>4, ThreadClaims
<1>5. CASE UNCHANGED vars
  BY <1>5 DEF vars, tasks, work, ClaimInv, LiveInv, HeldInv, OneApply
<1> QED BY <1>1, <1>2, <1>3, <1>4, <1>5 DEF Next, ThreadStep

\* The claims of one API process, in every reachable state.
LEMMA ClaimInvariance == ASSUME OneProcess PROVE Spec => []ClaimInv
<1>1. TypeInv /\ ClaimInv /\ [Next]_vars => ClaimInv'
  BY ClaimStep
<1> QED BY <1>1, ClaimInit, TypeInvariance, PTL DEF Spec

\* With one API process no two threads import the same task, whatever happens to the
\* files and although the process may die and come back at any time.
THEOREM OneImportAtATime == ASSUME OneProcess PROVE Spec => []OneApply
<1>1. ClaimInv => OneApply
  BY DEF ClaimInv
<1> QED BY <1>1, ClaimInvariance, PTL

-----------------------------------------------------------------------------
(* What SUCCESS and the archive mean.                                      *)

\* Nothing is imported in the initial state.
LEMMA FileInit == Init => FileInv
  BY DEF Init, FileInv, SourceInv, SuccessIsDone, OnlyDiscovered, ReadsFile

\* Steps that leave the archive and the imported contents alone, start no import and
\* make no task SUCCESS or unknown keep what SUCCESS means.
LEMMA TableFiles ==
    ASSUME FileInv, UNCHANGED <<incoming, archive, imported>>,
           \A c \in Contents : status'[c] = "SUCCESS" => status[c] = "SUCCESS",
           \A c \in Contents : status'[c] = "NONE" => status[c] = "NONE",
           \A t \in Threads : \/ pc'[t] \notin ReadsFile \cup {"finish"}
                              \/ UNCHANGED <<pc[t], cur[t], at[t], plan[t], outcome[t]>>,
           imported \subseteq Contents
    PROVE  FileInv'
<1>1. SourceInv'
  BY DEF FileInv, SourceInv, Done, ReadsFile
<1>2. SuccessIsDone'
  BY DEF FileInv, SuccessIsDone
<1>3. OnlyDiscovered'
  BY DEF FileInv, OnlyDiscovered
<1> QED BY <1>1, <1>2, <1>3 DEF FileInv

\* Processes and the scanner make no task SUCCESS.
LEMMA SystemFiles ==
    ASSUME TypeInv, FileInv, NEW a \in Procs, Restart(a) \/ Crash(a) \/ Scan(a)
    PROVE  FileInv'
<1> USE DEF TypeInv, TypeOK, ReadsFile
<1>1. CASE StartProcess(a)
  BY <1>1, TableFiles DEF StartProcess, tasks, files, work
<1>2. CASE EnsureSchema(a)
  <2>1. \A c \in Contents : /\ status'[c] = "SUCCESS" => status[c] = "SUCCESS"
                            /\ status'[c] = "NONE" => status[c] = "NONE"
    BY <1>2 DEF EnsureSchema, Interrupted, Reevaluated
  <2>2. UNCHANGED <<incoming, archive, imported, pc, cur, at, plan, outcome>>
    BY <1>2 DEF EnsureSchema, files, work
  <2> QED BY <2>1, <2>2, TableFiles
<1>3. CASE Crash(a)
  <2>1. \A t \in Threads : \/ pc'[t] = "idle"
                           \/ UNCHANGED <<pc[t], cur[t], at[t], plan[t], outcome[t]>>
    BY <1>3 DEF Crash, Forget
  <2>2. UNCHANGED <<incoming, archive, imported, status>>
    BY <1>3 DEF Crash, files, tasks
  <2> QED BY <2>1, <2>2, TableFiles
<1>4. CASE Scan(a)
  <2>1. PICK valid \in SUBSET Evaluates :
          status' = [d \in Contents |-> IF d \notin Evaluates THEN status[d]
                                        ELSE IF d \in valid THEN "READY" ELSE "INVALID"]
    BY <1>4 DEF Scan
  <2>2. \A c \in Contents : /\ status'[c] = "SUCCESS" => status[c] = "SUCCESS"
                            /\ status'[c] = "NONE" => status[c] = "NONE"
    BY <2>1
  <2>3. UNCHANGED <<incoming, archive, imported, pc, cur, at, plan, outcome>>
    BY <1>4 DEF Scan, files, work
  <2> QED BY <2>2, <2>3, TableFiles
<1> QED BY <1>1, <1>2, <1>3, <1>4 DEF Restart

\* Neither does taking a task, nor ending a thread.
LEMMA TakeFiles ==
    ASSUME TypeInv, FileInv, NEW t \in Threads,
           \/ \E c \in Contents : Apply(t, c) \/ Claim(t, c) \/ SkipTask(t, c)
           \/ BatchApply(t) \/ EndThread(t)
    PROVE  FileInv'
<1> USE DEF TypeInv, TypeOK, ReadsFile
<1>1. UNCHANGED <<incoming, archive, imported>>
  BY DEF Apply, Claim, SkipTask, BatchApply, Begin, EndThread, files
<1>2. \A c \in Contents : /\ status'[c] = "SUCCESS" => status[c] = "SUCCESS"
                          /\ status'[c] = "NONE" => status[c] = "NONE"
  BY DEF Apply, Claim, SkipTask, BatchApply, Begin, EndThread, tasks
<1>3. \A u \in Threads : \/ pc'[u] \notin ReadsFile \cup {"finish"}
                         \/ UNCHANGED <<pc[u], cur[u], at[u], plan[u], outcome[u]>>
  BY DEF Apply, Claim, SkipTask, BatchApply, Begin, EndThread, work
<1> QED BY <1>1, <1>2, <1>3, TableFiles

\* The steps of an import.
LEMMA ImportFiles ==
    ASSUME TypeInv, ClaimInv, FileInv, NEW t \in Threads,
           CheckSource(t) \/ BuildPlan(t) \/ AcquireApplyLock(t) \/ Import(t) \/ Archive(t)
    PROVE  FileInv'
<1> USE ContactConstants DEF TypeInv, FileInv, ReadsFile
<1>1. CASE CheckSource(t)
  BY <1>1 DEF CheckSource, EndWith, GoTo, TypeOK, SourceInv, SuccessIsDone, OnlyDiscovered, Done,
              tasks, files
<1>2. CASE BuildPlan(t)
  BY <1>2 DEF BuildPlan, EndWith, GoTo, TypeOK, SourceInv, SuccessIsDone, OnlyDiscovered, Done,
              tasks, files
<1>3. CASE AcquireApplyLock(t)
  BY <1>3 DEF AcquireApplyLock, TypeOK, SourceInv, SuccessIsDone, OnlyDiscovered, Done,
              tasks, files, work
<1>4. CASE Import(t)
  <2>1. plan[t] = cur[t] /\ cur[t] \in Contents /\ status[cur[t]] = "PROCESSING"
    BY <1>4 DEF Import, SourceInv, WorkInv, ClaimInv, HeldInv, AtWork
  <2>2. imported \subseteq imported' /\ imported' \subseteq imported \cup {cur[t]}
    BY <1>4, <2>1 DEF Import
  <2>3. /\ UNCHANGED <<status, incoming, archive, cur, at, plan>>
        /\ \/ /\ cur[t] \in imported' /\ pc' = [pc EXCEPT ![t] = "archive"]
              /\ UNCHANGED outcome
           \/ /\ pc' = [pc EXCEPT ![t] = "finish"]
              /\ outcome' = [outcome EXCEPT ![t] = "FAILED"]
    BY <1>4, <2>1 DEF Import, ImportRaised, EndWith, GoTo, tasks, files
  <2>4. SourceInv'
    BY <1>4, <2>2, <2>3 DEF Import, TypeOK, SourceInv, Done
  <2>5. SuccessIsDone'
    BY <2>2, <2>3 DEF SuccessIsDone
  <2>6. OnlyDiscovered'
    BY <2>1, <2>2, <2>3 DEF OnlyDiscovered
  <2> QED BY <2>4, <2>5, <2>6
<1>5. CASE Archive(t)
  <2> DEFINE p == at[t]
             target == [task |-> cur[t], name |-> p, content |-> cur[t]]
  <2>1. /\ p \in Paths /\ cur[t] \in Contents
        /\ incoming[p] = cur[t] /\ cur[t] \in imported
    BY <1>5 DEF Archive, SourceInv, WorkInv, AtWork
  <2>2. /\ UNCHANGED <<status, imported, cur, at, plan>>
        /\ pc' = [pc EXCEPT ![t] = "finish"]
        /\ \/ /\ outcome' = [outcome EXCEPT ![t] = "SUCCESS"]
              /\ incoming' = [incoming EXCEPT ![p] = None]
              /\ archive' = archive \cup {target}
           \/ /\ outcome' = [outcome EXCEPT ![t] = "FAILED"]
              /\ UNCHANGED <<incoming, archive>>
    BY <1>5, <2>1 DEF Archive, EndWith, tasks, files
  <2>3. \A u \in Threads : u # t /\ pc[u] \in ReadsFile => incoming[at[u]] = incoming'[at[u]]
    BY <1>5, <2>1, <2>2 DEF Archive, TypeOK, SourceInv, WorkInv, ClaimInv, OneApply, AtWork
  <2>4. archive \subseteq archive' /\ (outcome'[t] = "SUCCESS" => target \in archive')
    BY <2>2 DEF TypeOK
  <2>5. SourceInv'
    BY <2>1, <2>2, <2>3, <2>4 DEF TypeOK, SourceInv, Done
  <2>6. SuccessIsDone' /\ OnlyDiscovered'
    BY <2>2, <2>4 DEF SuccessIsDone, OnlyDiscovered
  <2> QED BY <2>5, <2>6
<1> QED BY <1>1, <1>2, <1>3, <1>4, <1>5

\* Only a finished import makes its task SUCCESS.
LEMMA FinishFiles ==
    ASSUME TypeInv, FileInv, NEW t \in Threads, Finish(t) \/ FinishLost(t)
    PROVE  FileInv'
<1> USE ContactConstants DEF TypeInv, FileInv, ReadsFile
<1>1. CASE Finish(t)
  <2>1. /\ cur[t] \in Contents /\ outcome[t] \in Outcomes
        /\ outcome[t] = "SUCCESS" => Done(cur[t])
    BY <1>1 DEF Finish, WorkInv, SourceInv, AtWork
  <2>2. UNCHANGED <<incoming, archive, imported>>
    BY <1>1 DEF Finish, files
  <2>3. status' = [status EXCEPT ![cur[t]] = outcome[t]]
    BY <1>1 DEF Finish
  <2>4. SourceInv'
    BY <1>1, <2>2 DEF Finish, Return, Forget, TypeOK, SourceInv, Done
  <2>5. SuccessIsDone'
    BY <2>1, <2>2, <2>3 DEF TypeOK, SuccessIsDone, Done
  <2>6. OnlyDiscovered'
    BY <2>1, <2>2, <2>3 DEF TypeOK, OnlyDiscovered, Outcomes
  <2> QED BY <2>4, <2>5, <2>6
<1>2. CASE FinishLost(t)
  <2>1. UNCHANGED <<status, incoming, archive, imported>>
    BY <1>2 DEF FinishLost, tasks, files
  <2>2. SourceInv'
    BY <1>2, <2>1 DEF FinishLost, EndWith, Return, Forget, TypeOK, SourceInv, Done
  <2> QED BY <2>1, <2>2 DEF SuccessIsDone, OnlyDiscovered
<1> QED BY <1>1, <1>2

\* Every step keeps what SUCCESS means when the files of an import stay as they are.
LEMMA FileStep ==
    ASSUME ~FileChanges PROVE TypeInv /\ ClaimInv /\ FileInv /\ [Next]_vars => FileInv'
<1> SUFFICES ASSUME TypeInv, ClaimInv, FileInv, [Next]_vars PROVE FileInv'
  OBVIOUS
<1>1. ASSUME NEW p \in Paths, NEW c \in Contents \cup {None}, ChangeFile(p, c) PROVE FileInv'
  <2>1. UNCHANGED <<status, archive, imported, pc, cur, at, plan, outcome>>
    BY <1>1 DEF ChangeFile, tasks, work
  <2>2. \A t \in Threads : pc[t] \in ReadsFile => incoming'[at[t]] = incoming[at[t]]
    BY <1>1 DEF ChangeFile, TypeInv, TypeOK, WorkInv, AtWork
  <2>3. SourceInv'
    BY <2>1, <2>2 DEF FileInv, SourceInv, Done
  <2> QED BY <2>1, <2>3 DEF FileInv, SuccessIsDone, OnlyDiscovered
<1>2. ASSUME NEW a \in Procs, Restart(a) \/ Crash(a) \/ Scan(a) PROVE FileInv'
  BY <1>2, SystemFiles
<1>3. ASSUME NEW t \in Threads,
             \/ \E c \in Contents : Apply(t, c) \/ Claim(t, c) \/ SkipTask(t, c)
             \/ BatchApply(t) \/ EndThread(t)
      PROVE  FileInv'
  BY <1>3, TakeFiles
<1>4. ASSUME NEW t \in Threads,
             CheckSource(t) \/ BuildPlan(t) \/ AcquireApplyLock(t) \/ Import(t) \/ Archive(t)
      PROVE  FileInv'
  BY <1>4, ImportFiles
<1>5. ASSUME NEW t \in Threads, Finish(t) \/ FinishLost(t) PROVE FileInv'
  BY <1>5, FinishFiles
<1>6. CASE UNCHANGED vars
  BY <1>6 DEF vars, tasks, files, work, FileInv, SourceInv, Done, SuccessIsDone, OnlyDiscovered
<1> QED BY <1>1, <1>2, <1>3, <1>4, <1>5, <1>6 DEF Next, ThreadStep

\* What imports mean, in every reachable state.
LEMMA FileInvariance == ASSUME OneProcess, ~FileChanges PROVE Spec => []FileInv
<1>1. TypeInv /\ ClaimInv /\ FileInv /\ [Next]_vars => FileInv'
  BY FileStep
<1>2. Spec => []ClaimInv
  BY ClaimInvariance
<1> QED BY <1>1, <1>2, FileInit, TypeInvariance, PTL DEF Spec

\* With one API process and files that stay as they are during an import, a SUCCESS
\* task has its own content imported and archived.
THEOREM SuccessMeansDone == ASSUME OneProcess, ~FileChanges PROVE Spec => []SuccessIsDone
<1>1. FileInv => SuccessIsDone
  BY DEF FileInv
<1> QED BY <1>1, FileInvariance, PTL

\* Under the same conditions nothing is imported that was not discovered as a task.
THEOREM ImportedWasDiscovered == ASSUME OneProcess, ~FileChanges PROVE Spec => []OnlyDiscovered
<1>1. FileInv => OnlyDiscovered
  BY DEF FileInv
<1> QED BY <1>1, FileInvariance, PTL

\* Under the same conditions the program takes no file out of incoming whose contacts
\* are not committed.
THEOREM TakenWasImported == ASSUME OneProcess, ~FileChanges PROVE Spec => TakenIsImported
<1> DEFINE Taken == fileOps' = fileOps =>
                      \A p \in Paths : incoming'[p] = incoming[p] \/ incoming[p] \in imported
<1>1. TypeInv /\ FileInv /\ [Next]_vars => [Taken]_vars
  <2> SUFFICES ASSUME TypeInv, FileInv, Next PROVE Taken
    OBVIOUS
  <2>1. ASSUME NEW p \in Paths, NEW c \in Contents \cup {None}, ChangeFile(p, c) PROVE Taken
    BY <2>1 DEF ChangeFile, TypeInv, TypeOK
  <2>2. ASSUME NEW a \in Procs, Restart(a) \/ Crash(a) \/ Scan(a) PROVE Taken
    BY <2>2 DEF Restart, StartProcess, EnsureSchema, Crash, Scan, files
  <2>3. ASSUME NEW t \in Threads, Archive(t) PROVE Taken
    BY <2>3 DEF Archive, TypeInv, TypeOK, FileInv, SourceInv, WorkInv, AtWork, ReadsFile, files
  <2>4. ASSUME NEW t \in Threads,
               \/ \E c \in Contents : Apply(t, c) \/ Claim(t, c) \/ SkipTask(t, c)
               \/ BatchApply(t) \/ EndThread(t) \/ CheckSource(t) \/ BuildPlan(t)
               \/ AcquireApplyLock(t) \/ Import(t) \/ Finish(t) \/ FinishLost(t)
        PROVE  Taken
    BY <2>4 DEF Apply, BatchApply, Begin, Claim, SkipTask, EndThread, CheckSource, BuildPlan,
                AcquireApplyLock, Import, Finish, FinishLost, files
  <2> QED BY <2>1, <2>2, <2>3, <2>4 DEF Next, ThreadStep
<1>2. Spec => []FileInv
  BY FileInvariance
<1> QED BY <1>1, <1>2, TypeInvariance, PTL DEF Spec, TakenIsImported

=============================================================================
