------------------------ MODULE CnFinalPublishProofs ------------------------
(***************************************************************************)
(* Proofs about CnFinalPublish, for any number of nodes, ranges and        *)
(* stopped attempts: its types, that a finished publication is complete,   *)
(* that no node changes its mode, and that committed tasks are not redone. *)
(***************************************************************************)
EXTENDS CnFinalPublish, TLAPS

\* Something is in the ledger.
Begun ==
    \/ \E n \in Nodes : marker[n] # "NONE"
    \/ \E m \in Modes, n \in Nodes, i \in Ranges : unit[m][n][i] # "NONE"

Publishing == {"range", "command", "landed"}

\* A committed task has written its rows; a task at work is RUNNING.
TaskInv ==
    /\ \A m \in Modes, n \in Nodes, i \in Ranges : unit[m][n][i] = "SUCCESS" => m \in rows[n][i]
    /\ pc \in {"command", "landed"} /\ Ledgered(mode[node], node) =>
         unit[mode[node]][node][range] = "RUNNING"

\* The attempt has written, or found written, everything before its position.
ProgressInv ==
    /\ pc \in Publishing => \A n \in Nodes, i \in Ranges :
                               Before(n, i, node, range) => mode[n] \in rows[n][i]
    /\ pc = "landed" => mode[node] \in rows[node][range]
    /\ pc \in {"assert", "done"} => \A n \in Nodes, i \in Ranges : mode[n] \in rows[n][i]

\* What the rows of a node say about its marker and the ledger.
HasLegacy(n) == marker[n] # "SUCCESS" /\ checkpoint /\ IF n = Aux THEN Begun ELSE marker[n] = "NONE"

MarkerInv ==
    \A n \in Nodes, i \in Ranges :
        /\ "native" \in rows[n][i] => marker[n] = "SUCCESS"
        /\ "legacy" \in rows[n][i] => HasLegacy(n)

\* The nodes whose client is built.
Decided(n) ==
    \/ pc \in Publishing \cup {"assert", "done"}
    \/ pc \in {"cutover", "running"} /\ node # Aux /\ (n = Aux \/ n < node)

\* The mode of a built client agrees with the marker as the rows do.
ModeInv ==
    \A n \in Nodes : Decided(n) =>
        /\ mode[n] = "native" => marker[n] = "SUCCESS"
        /\ mode[n] = "legacy" => HasLegacy(n)

\* Before a client is cut over, its node has no legacy rows.
FreshInv ==
    /\ ~checkpoint => \A n \in Nodes, i \in Ranges : rows[n][i] = {}
    /\ pc \in {"cutover", "running"} => checkpoint
    /\ pc \in {"save", "cutover", "running"} /\ ~resume =>
         \A n \in Nodes, i \in Ranges : rows[n][i] = {}
    /\ pc = "running" => \A i \in Ranges : "legacy" \notin rows[node][i]
    /\ pc \in Publishing \cup {"assert", "done"} => checkpoint
    /\ pc \in {"save", "cutover", "running"} => range = 1
    /\ pc = "save" => node = Aux

IInv == TypeOK /\ TaskInv /\ ProgressInv /\ MarkerInv /\ ModeInv /\ FreshInv

-----------------------------------------------------------------------------
(* What the updates of the ledger and of the rows do.                      *)

\* What SetUnit changes: the task at the position, if it has a ledger row.
LEMMA SetUnitFacts ==
    ASSUME TypeOK, NEW s \in Statuses, SetUnit(s)
    PROVE  /\ unit' \in [Modes -> [Nodes -> [Ranges -> Statuses]]]
           /\ \A m \in Modes, n \in Nodes, i \in Ranges :
                unit'[m][n][i] = IF Ledgered(mode[node], node) /\ m = mode[node] /\ n = node /\ i = range
                                 THEN s ELSE unit[m][n][i]
  BY DEF TypeOK, SetUnit

\* What Write changes: the rows at the position.
LEMMA WriteFacts ==
    ASSUME TypeOK, Write
    PROVE  /\ rows' \in [Nodes -> [Ranges -> SUBSET Modes]]
           /\ \A n \in Nodes, i \in Ranges :
                rows'[n][i] = IF n = node /\ i = range THEN rows[n][i] \cup {mode[n]} ELSE rows[n][i]
  BY DEF TypeOK, Write

\* LedgerRows, read by the auxiliary client, is empty until the ledger is begun.
LEMMA LedgerRowsBegun == LedgerRows = {} <=> ~Begun
  BY DEF LedgerRows, Begun

\* The types of the position that Advance moves to, and what comes before it.
LEMMA AdvanceFacts ==
    ASSUME TypeOK, Advance
    PROVE  /\ node' \in Nodes /\ range' \in Ranges /\ pc' \in {"range", "assert"}
           /\ pc' = "range" => \A n \in Nodes, i \in Ranges :
                Before(n, i, node', range') => Before(n, i, node, range) \/ (n = node /\ i = range)
           /\ pc' = "assert" => \A n \in Nodes, i \in Ranges :
                Before(n, i, node, range) \/ (n = node /\ i = range)
  BY PublishConstants DEF TypeOK, Advance, Before, Nodes, Ranges

-----------------------------------------------------------------------------
(* The inductive invariant.                                                *)

\* Both kinds of initial state satisfy the invariant.
LEMMA InitInv == Init => IInv
<1> SUFFICES ASSUME Init PROVE IInv
  OBVIOUS
<1>1. CASE NewPublication
  <2> USE PublishConstants DEF Nodes, Ranges, Aux, NewPublication
  <2>1. TypeOK
    <3>1. unit \in [Modes -> [Nodes -> [Ranges -> Statuses]]]
      BY <1>1 DEF Empty, Statuses
    <3>2. rows \in [Nodes -> [Ranges -> SUBSET Modes]]
      BY <1>1
    <3>3. mode \in [Nodes -> Modes] /\ marker \in [Nodes -> Statuses]
      BY DEF Init, Modes, Statuses
    <3>4. checkpoint \in BOOLEAN /\ resume \in BOOLEAN
      BY <1>1, Zenon DEF Init
    <3>5. pc \in Pcs /\ node \in Nodes /\ range \in Ranges /\ faults \in Nat
      BY DEF Init, Pcs
    <3> QED BY <3>1, <3>2, <3>3, <3>4, <3>5, Zenon DEF TypeOK
  <2>2. TaskInv
    BY <1>1 DEF Init, TaskInv, Empty
  <2>3. ProgressInv /\ ModeInv /\ FreshInv /\ MarkerInv
    BY <1>1 DEF Init, ProgressInv, ModeInv, FreshInv, MarkerInv, Publishing, Decided
  <2> QED BY <2>1, <2>2, <2>3 DEF IInv
<1>2. ASSUME NEW n \in Nodes, NEW i \in Ranges, NEW s \in Statuses \ {"SUCCESS"},
             NEW w \in SUBSET {"legacy"}, OldPublication(n, i, s, w)
      PROVE  IInv
  <2> USE PublishConstants DEF Nodes, Ranges, Aux
  <2>1. /\ checkpoint = TRUE
        /\ unit = [m \in Modes |-> [k \in Nodes |-> [j \in Ranges |->
                     IF m = "native" \/ k \notin StageNodes THEN "NONE"
                     ELSE IF Before(k, j, n, i) THEN "SUCCESS"
                     ELSE IF k = n /\ j = i THEN s ELSE "NONE"]]]
        /\ rows = [k \in Nodes |-> [j \in Ranges |->
                     IF Before(k, j, n, i) THEN {"legacy"}
                     ELSE IF k = n /\ j = i THEN w ELSE {}]]
    BY <1>2, Zenon DEF OldPublication
  <2>2. /\ \A m \in Modes, k \in Nodes, j \in Ranges :
             unit[m][k][j] = IF m = "native" \/ k \notin StageNodes THEN "NONE"
                             ELSE IF Before(k, j, n, i) THEN "SUCCESS"
                             ELSE IF k = n /\ j = i THEN s ELSE "NONE"
        /\ \A k \in Nodes, j \in Ranges :
             rows[k][j] = IF Before(k, j, n, i) THEN {"legacy"}
                          ELSE IF k = n /\ j = i THEN w ELSE {}
    BY <2>1
  <2>3. TypeOK
    <3>1. unit \in [Modes -> [Nodes -> [Ranges -> Statuses]]]
      BY <2>1 DEF Statuses
    <3>2. rows \in [Nodes -> [Ranges -> SUBSET Modes]]
      BY <2>1 DEF Modes
    <3>3. mode \in [Nodes -> Modes] /\ marker \in [Nodes -> Statuses]
      BY DEF Init, Modes, Statuses
    <3>4. checkpoint \in BOOLEAN /\ resume \in BOOLEAN
      BY <2>1, Zenon DEF Init
    <3>5. pc \in Pcs /\ node \in Nodes /\ range \in Ranges /\ faults \in Nat
      BY DEF Init, Pcs
    <3> QED BY <3>1, <3>2, <3>3, <3>4, <3>5, Zenon DEF TypeOK
  <2>4. TaskInv
    <3>1. ASSUME NEW m \in Modes, NEW k \in Nodes, NEW j \in Ranges, unit[m][k][j] = "SUCCESS"
          PROVE  m \in rows[k][j]
      BY <2>2, <3>1 DEF Modes
    <3> QED BY <3>1 DEF Init, TaskInv
  <2>5. ProgressInv /\ ModeInv /\ FreshInv
    BY <2>1 DEF Init, ProgressInv, ModeInv, FreshInv, Publishing, Decided
  <2>6. MarkerInv
    <3> SUFFICES ASSUME NEW k \in Nodes, NEW j \in Ranges
                 PROVE  /\ "native" \notin rows[k][j]
                        /\ "legacy" \in rows[k][j] => HasLegacy(k)
      BY DEF MarkerInv
    <3>1. "native" \notin rows[k][j] /\ marker[k] = "NONE"
      BY <2>2 DEF Init
    <3>2. ASSUME k = Aux, "legacy" \in rows[k][j] PROVE unit["legacy"][1][1] = "SUCCESS"
      <4>1. n = Aux
        BY <2>2, <3>2 DEF Before
      <4> QED BY <2>2, <4>1 DEF Before, Modes
    <3>3. k = Aux /\ "legacy" \in rows[k][j] => Begun
      BY <3>2 DEF Begun, Modes
    <3> QED BY <2>1, <3>1, <3>3 DEF HasLegacy
  <2> QED BY <2>3, <2>4, <2>5, <2>6 DEF IInv
<1> QED BY <1>1, <1>2 DEF Init

-----------------------------------------------------------------------------
(* One lemma for each action.                                              *)

\* Beginning an attempt; the rows and the ledger stay.
LEMMA BeginStep == ASSUME IInv, Begin PROVE IInv'
<1> USE PublishConstants DEF Nodes, Ranges, Aux
<1>1. TypeOK'
  <2>1. resume' \in BOOLEAN
    BY Zenon DEF IInv, TypeOK, Begin
  <2> QED BY <2>1 DEF IInv, TypeOK, Begin, ledger, Pcs
<1>2. TaskInv'
  BY DEF IInv, TaskInv, Begin, ledger
<1>3. ProgressInv'
  BY DEF Begin, ProgressInv, Publishing
<1>4. MarkerInv'
  BY DEF IInv, MarkerInv, HasLegacy, Begun, Begin, ledger
<1>5. ModeInv'
  BY DEF ModeInv, Decided, Begin, Publishing
<1>6. FreshInv'
  BY DEF IInv, FreshInv, Begin, Publishing
<1> QED BY <1>1, <1>2, <1>3, <1>4, <1>5, <1>6 DEF IInv

\* Saving the checkpoint of a new publication.
LEMMA SaveStep == ASSUME IInv, SaveCheckpoint PROVE IInv'
<1> USE PublishConstants DEF Nodes, Ranges, Aux
<1>1. TypeOK'
  BY DEF IInv, TypeOK, SaveCheckpoint, ledger, attempt, position, Pcs
<1>2. TaskInv'
  BY DEF IInv, TaskInv, SaveCheckpoint, ledger, attempt, position
<1>3. ProgressInv'
  BY DEF SaveCheckpoint, ProgressInv, Publishing
<1>4. MarkerInv'
  BY DEF IInv, MarkerInv, HasLegacy, Begun, SaveCheckpoint, ledger
<1>5. ModeInv'
  <2>1. \A n \in Nodes : ~Decided(n)'
    BY DEF IInv, FreshInv, SaveCheckpoint, Decided, Publishing, position
  <2> QED BY <2>1 DEF ModeInv
<1>6. FreshInv'
  BY DEF IInv, FreshInv, SaveCheckpoint, Publishing, attempt, position
<1> QED BY <1>1, <1>2, <1>3, <1>4, <1>5, <1>6 DEF IInv

\* Which clients are built after CutOver: those built before, and this one.
LEMMA CutOverFacts ==
    ASSUME TypeOK, pc \in {"cutover", "running"}, NEW m \in Modes, CutOver(m)
    PROVE  /\ mode' \in [Nodes -> Modes] /\ node' \in Nodes /\ pc' \in {"range", "cutover"}
           /\ pc' = "range" => node' = 1
           /\ mode'[node] = m
           /\ \A n \in Nodes : n # node => mode'[n] = mode[n]
           /\ \A n \in Nodes : Decided(n)' => n = node \/ Decided(n)
<1> USE PublishConstants DEF Nodes, Aux
<1>1. mode' \in [Nodes -> Modes] /\ mode'[node] = m /\ \A n \in Nodes : n # node => mode'[n] = mode[n]
  BY DEF TypeOK, CutOver
<1>2. /\ node' \in Nodes /\ pc' \in {"range", "cutover"}
      /\ pc' = "range" => node' = 1 /\ node = Aux - 1
      /\ pc' = "cutover" => node' = IF node = Aux THEN 1 ELSE node + 1
  BY DEF TypeOK, CutOver
<1>3. \A n \in Nodes : Decided(n)' => n = node \/ Decided(n)
  BY <1>2 DEF Decided, Publishing, TypeOK
<1> QED BY <1>1, <1>2, <1>3

\* A client whose mode is settled is built: the marker, or rows that are there, say which.
LEMMA KeepStep == ASSUME IInv, KeepMode PROVE IInv'
<1> USE PublishConstants DEF Nodes, Ranges, Aux
<1> DEFINE m == IF marker[node] = "SUCCESS" THEN "native" ELSE "legacy"
<1>0. /\ TypeOK /\ pc = "cutover" /\ ~WritesMarker(node)
      /\ CutOver(m) /\ m \in Modes
      /\ UNCHANGED <<checkpoint, marker, unit, rows, resume, range, faults>>
  BY DEF IInv, KeepMode, ledger, Modes
<1>a. /\ mode' \in [Nodes -> Modes] /\ node' \in Nodes /\ pc' \in {"range", "cutover"}
      /\ pc' = "range" => node' = 1
      /\ mode'[node] = m
      /\ \A n \in Nodes : n # node => mode'[n] = mode[n]
      /\ \A n \in Nodes : Decided(n)' => n = node \/ Decided(n)
  BY <1>0, CutOverFacts
<1> HIDE DEF m
<1>1. TypeOK'
  BY <1>0, <1>a DEF TypeOK, Pcs
<1>2. TaskInv'
  BY <1>0, <1>a DEF IInv, TaskInv
<1>3. ProgressInv'
  BY <1>0, <1>a DEF IInv, FreshInv, ProgressInv, Publishing, Before
<1>b. \A n \in Nodes : HasLegacy(n)' <=> HasLegacy(n)
  BY <1>0 DEF HasLegacy, Begun
<1>4. MarkerInv'
  BY <1>0, <1>b DEF IInv, MarkerInv
<1>5. ModeInv'
  <2>1. m = "native" => marker[node] = "SUCCESS"
    BY DEF m
  <2>2. m = "legacy" => HasLegacy(node)
    BY <1>0, LedgerRowsBegun DEF m, HasLegacy, WritesMarker, IInv, FreshInv
  <2> QED BY <1>0, <1>a, <1>b, <2>1, <2>2 DEF IInv, ModeInv, TypeOK
<1>6. FreshInv'
  BY <1>0, <1>a DEF IInv, FreshInv, Publishing
<1> QED BY <1>1, <1>2, <1>3, <1>4, <1>5, <1>6 DEF IInv

\* A marker is only begun for a node that has no legacy rows.
LEMMA MarkerRunningStep == ASSUME IInv, MarkerRunning PROVE IInv'
<1> USE PublishConstants DEF Nodes, Ranges, Aux
<1>0. /\ TypeOK /\ pc = "cutover" /\ pc' = "running" /\ WritesMarker(node)
      /\ marker' = [marker EXCEPT ![node] = "RUNNING"]
      /\ UNCHANGED <<checkpoint, unit, rows, resume, mode, node, range, faults>>
  BY DEF IInv, MarkerRunning, attempt, position
<1>1. TypeOK'
  BY <1>0 DEF TypeOK, Pcs, Statuses
<1>2. TaskInv'
  BY <1>0 DEF IInv, TaskInv
<1>3. ProgressInv'
  BY <1>0 DEF ProgressInv, Publishing
<1>a. \A i \in Ranges : rows[node][i] = {}
  <2>1. \A i \in Ranges : "native" \notin rows[node][i] /\ "legacy" \notin rows[node][i]
    BY <1>0, LedgerRowsBegun DEF IInv, MarkerInv, HasLegacy, WritesMarker, FreshInv, TypeOK
  <2>2. \A i \in Ranges : rows[node][i] \in SUBSET {"native", "legacy"}
    BY <1>0 DEF TypeOK, Modes
  <2> QED BY <2>1, <2>2
<1>b. Begun'
  BY <1>0 DEF Begun, TypeOK
<1>c. \A n \in Nodes : n # node => marker'[n] = marker[n] /\ (HasLegacy(n) => HasLegacy(n)')
  BY <1>0, <1>b DEF HasLegacy, TypeOK
<1>4. MarkerInv'
  BY <1>0, <1>a, <1>c DEF IInv, MarkerInv
<1>5. ModeInv'
  <2>1. \A n \in Nodes : Decided(n)' => Decided(n) /\ n # node
    BY <1>0 DEF Decided, Publishing
  <2> QED BY <1>0, <1>c, <2>1 DEF IInv, ModeInv
<1>6. FreshInv'
  BY <1>0, <1>a DEF IInv, FreshInv, Publishing
<1> QED BY <1>1, <1>2, <1>3, <1>4, <1>5, <1>6 DEF IInv

\* The marker is committed and the client built in native mode.
LEMMA MarkerSuccessStep == ASSUME IInv, MarkerSuccess PROVE IInv'
<1> USE PublishConstants DEF Nodes, Ranges, Aux
<1>0. /\ TypeOK /\ pc = "running" /\ CutOver("native") /\ "native" \in Modes
      /\ marker' = [marker EXCEPT ![node] = "SUCCESS"]
      /\ UNCHANGED <<checkpoint, unit, rows, resume, range, faults>>
  BY DEF IInv, MarkerSuccess, Modes
<1>a. /\ mode' \in [Nodes -> Modes] /\ node' \in Nodes /\ pc' \in {"range", "cutover"}
      /\ pc' = "range" => node' = 1
      /\ mode'[node] = "native"
      /\ \A n \in Nodes : n # node => mode'[n] = mode[n]
      /\ \A n \in Nodes : Decided(n)' => n = node \/ Decided(n)
  BY <1>0, CutOverFacts
<1>1. TypeOK'
  BY <1>0, <1>a DEF TypeOK, Pcs, Statuses
<1>2. TaskInv'
  BY <1>0, <1>a DEF IInv, TaskInv
<1>3. ProgressInv'
  BY <1>0, <1>a DEF IInv, FreshInv, ProgressInv, Publishing, Before
<1>b. Begun' /\ marker'[node] = "SUCCESS"
  BY <1>0 DEF Begun, TypeOK
<1>c. \A n \in Nodes : n # node => marker'[n] = marker[n] /\ (HasLegacy(n) => HasLegacy(n)')
  BY <1>0, <1>b DEF HasLegacy, TypeOK
<1>4. MarkerInv'
  BY <1>0, <1>b, <1>c DEF IInv, MarkerInv, FreshInv
<1>5. ModeInv'
  BY <1>0, <1>a, <1>b, <1>c DEF IInv, ModeInv
<1>6. FreshInv'
  BY <1>0, <1>a DEF IInv, FreshInv, Publishing
<1> QED BY <1>1, <1>2, <1>3, <1>4, <1>5, <1>6 DEF IInv

\* A range is skipped only when its task is committed, and then its rows are there.
LEMMA SkipStep == ASSUME IInv, SkipRange PROVE IInv'
<1> USE PublishConstants DEF Nodes, Ranges, Aux
<1>0. /\ TypeOK /\ pc = "range" /\ Skips /\ Advance
      /\ UNCHANGED <<checkpoint, marker, unit, rows, resume, mode, faults>>
  BY DEF IInv, SkipRange, ledger, attempt
<1>a. mode[node] \in rows[node][range]
  BY <1>0 DEF IInv, TaskInv, Skips, IsSuccess, TypeOK
<1>b. /\ node' \in Nodes /\ range' \in Ranges /\ pc' \in {"range", "assert"}
      /\ pc' = "range" => \A n \in Nodes, i \in Ranges :
           Before(n, i, node', range') => Before(n, i, node, range) \/ (n = node /\ i = range)
      /\ pc' = "assert" => \A n \in Nodes, i \in Ranges :
           Before(n, i, node, range) \/ (n = node /\ i = range)
  BY <1>0, AdvanceFacts
<1>1. TypeOK'
  BY <1>0, <1>b DEF TypeOK, Pcs
<1>2. TaskInv'
  BY <1>0, <1>b DEF IInv, TaskInv
<1>3. ProgressInv'
  BY <1>0, <1>a, <1>b DEF IInv, ProgressInv, Publishing
<1>c. \A n \in Nodes : HasLegacy(n)' <=> HasLegacy(n)
  BY <1>0 DEF HasLegacy, Begun
<1>4. MarkerInv'
  BY <1>0, <1>c DEF IInv, MarkerInv
<1>5. ModeInv'
  BY <1>0, <1>b, <1>c DEF IInv, ModeInv, Decided, Publishing
<1>6. FreshInv'
  BY <1>0, <1>b DEF IInv, FreshInv, Publishing
<1> QED BY <1>1, <1>2, <1>3, <1>4, <1>5, <1>6 DEF IInv

\* A change of one task's status, to anything but NONE, keeps what rows and modes
\* say about the markers.
LEMMA SetUnitKeeps ==
    ASSUME IInv, NEW s \in Statuses \ {"NONE"}, SetUnit(s), UNCHANGED <<checkpoint, marker>>
    PROVE  \A n \in Nodes : HasLegacy(n) => HasLegacy(n)'
<1>1. Begun => Begun'
  BY SetUnitFacts, UNCHANGED marker DEF IInv, Begun, TypeOK
<1> QED BY <1>1 DEF HasLegacy

\* A task that is not committed is marked as running.
LEMMA MarkRunningStep == ASSUME IInv, MarkRunning PROVE IInv'
<1> USE PublishConstants DEF Nodes, Ranges, Aux
<1>0. /\ TypeOK /\ pc = "range" /\ pc' = "command" /\ ~Skips /\ SetUnit("RUNNING")
      /\ "RUNNING" \in Statuses \ {"NONE"}
      /\ UNCHANGED <<checkpoint, marker, rows, resume, mode, node, range, faults>>
  BY DEF IInv, MarkRunning, attempt, position, Statuses
<1>a. /\ unit' \in [Modes -> [Nodes -> [Ranges -> Statuses]]]
      /\ \A m \in Modes, n \in Nodes, i \in Ranges :
           unit'[m][n][i] = IF Ledgered(mode[node], node) /\ m = mode[node] /\ n = node /\ i = range
                            THEN "RUNNING" ELSE unit[m][n][i]
  BY <1>0, SetUnitFacts
<1>1. TypeOK'
  BY <1>0, <1>a DEF TypeOK, Pcs
<1>2. TaskInv'
  BY <1>0, <1>a DEF IInv, TaskInv, TypeOK, Ledgered
<1>3. ProgressInv'
  BY <1>0 DEF IInv, ProgressInv, Publishing, Before
<1>b. \A n \in Nodes : HasLegacy(n) => HasLegacy(n)'
  BY <1>0, SetUnitKeeps
<1>4. MarkerInv'
  BY <1>0, <1>b DEF IInv, MarkerInv
<1>5. ModeInv'
  BY <1>0, <1>b DEF IInv, ModeInv, Decided, Publishing
<1>6. FreshInv'
  BY <1>0 DEF IInv, FreshInv, Publishing
<1> QED BY <1>1, <1>2, <1>3, <1>4, <1>5, <1>6 DEF IInv

\* The rows that a publishing attempt writes are allowed by the node's marker.
LEMMA WriteKeeps ==
    ASSUME IInv, pc \in Publishing, Write, UNCHANGED <<checkpoint, marker>>,
           \A n \in Nodes : HasLegacy(n) => HasLegacy(n)'
    PROVE  MarkerInv'
<1>1. /\ mode[node] = "native" => marker[node] = "SUCCESS"
      /\ mode[node] = "legacy" => HasLegacy(node)
  BY DEF IInv, ModeInv, Decided, TypeOK
<1>2. \A n \in Nodes, i \in Ranges :
        rows'[n][i] = IF n = node /\ i = range THEN rows[n][i] \cup {mode[n]} ELSE rows[n][i]
  BY WriteFacts DEF IInv
<1>3. ASSUME NEW n \in Nodes, NEW i \in Ranges
      PROVE  /\ ("native" \in rows'[n][i] => marker[n] = "SUCCESS")
             /\ ("legacy" \in rows'[n][i] => HasLegacy(n))
  <2>1. CASE n = node /\ i = range
    <3>1. rows'[n][i] = rows[n][i] \cup {mode[n]}
      BY <1>2, <2>1
    <3> QED BY <1>1, <2>1, <3>1 DEF IInv, MarkerInv
  <2>2. CASE ~(n = node /\ i = range)
    <3>1. rows'[n][i] = rows[n][i]
      BY <1>2, <2>2
    <3> QED BY <3>1 DEF IInv, MarkerInv
  <2> QED BY <2>1, <2>2
<1> QED BY <1>3 DEF MarkerInv

\* The command of the task at work writes its rows.
LEMMA CommandStep == ASSUME IInv, Command PROVE IInv'
<1> USE PublishConstants DEF Nodes, Ranges, Aux
<1>0. /\ TypeOK /\ pc = "command" /\ pc' = "landed" /\ Write
      /\ UNCHANGED <<checkpoint, marker, unit, resume, mode, node, range, faults>>
  BY DEF IInv, Command, ledger, attempt, position
<1>a. /\ rows' \in [Nodes -> [Ranges -> SUBSET Modes]]
      /\ \A n \in Nodes, i \in Ranges :
           rows'[n][i] = IF n = node /\ i = range THEN rows[n][i] \cup {mode[n]} ELSE rows[n][i]
  BY <1>0, WriteFacts
<1>1. TypeOK'
  BY <1>0, <1>a DEF TypeOK, Pcs
<1>2. TaskInv'
  BY <1>0, <1>a DEF IInv, TaskInv
<1>3. ProgressInv'
  BY <1>0, <1>a DEF IInv, ProgressInv, Publishing, Before, TypeOK
<1>b. \A n \in Nodes : HasLegacy(n)' <=> HasLegacy(n)
  BY <1>0 DEF HasLegacy, Begun
<1>4. MarkerInv'
  BY <1>0, <1>b, WriteKeeps DEF Publishing
<1>5. ModeInv'
  BY <1>0, <1>b DEF IInv, ModeInv, Decided, Publishing
<1>6. FreshInv'
  BY <1>0 DEF IInv, FreshInv, Publishing
<1> QED BY <1>1, <1>2, <1>3, <1>4, <1>5, <1>6 DEF IInv

\* The task is committed after its rows are written.
LEMMA MarkSuccessStep == ASSUME IInv, MarkSuccess PROVE IInv'
<1> USE PublishConstants DEF Nodes, Ranges, Aux
<1>0. /\ TypeOK /\ pc = "landed" /\ SetUnit("SUCCESS") /\ Advance
      /\ "SUCCESS" \in Statuses \ {"NONE"}
      /\ UNCHANGED <<checkpoint, marker, rows, resume, mode, faults>>
  BY DEF IInv, MarkSuccess, attempt, Statuses
<1>a. /\ unit' \in [Modes -> [Nodes -> [Ranges -> Statuses]]]
      /\ \A m \in Modes, n \in Nodes, i \in Ranges :
           unit'[m][n][i] = IF Ledgered(mode[node], node) /\ m = mode[node] /\ n = node /\ i = range
                            THEN "SUCCESS" ELSE unit[m][n][i]
  BY <1>0, SetUnitFacts
<1>b. /\ node' \in Nodes /\ range' \in Ranges /\ pc' \in {"range", "assert"}
      /\ pc' = "range" => \A n \in Nodes, i \in Ranges :
           Before(n, i, node', range') => Before(n, i, node, range) \/ (n = node /\ i = range)
      /\ pc' = "assert" => \A n \in Nodes, i \in Ranges :
           Before(n, i, node, range) \/ (n = node /\ i = range)
  BY <1>0, AdvanceFacts
<1>c. mode[node] \in rows[node][range]
  BY <1>0 DEF IInv, ProgressInv
<1>1. TypeOK'
  BY <1>0, <1>a, <1>b DEF TypeOK, Pcs
<1>2. TaskInv'
  <2>1. ASSUME NEW m \in Modes, NEW n \in Nodes, NEW i \in Ranges, unit'[m][n][i] = "SUCCESS"
        PROVE  m \in rows[n][i]
    <3>1. CASE m = mode[node] /\ n = node /\ i = range
      BY <1>c, <3>1
    <3>2. CASE ~(m = mode[node] /\ n = node /\ i = range)
      <4>1. unit[m][n][i] = "SUCCESS"
        BY <1>a, <2>1, <3>2
      <4> QED BY <4>1 DEF IInv, TaskInv
    <3> QED BY <3>1, <3>2
  <2> QED BY <1>0, <1>b, <2>1 DEF TaskInv
<1>3. ProgressInv'
  BY <1>0, <1>b, <1>c DEF IInv, ProgressInv, Publishing
<1>d. \A n \in Nodes : HasLegacy(n) => HasLegacy(n)'
  BY <1>0, SetUnitKeeps
<1>4. MarkerInv'
  BY <1>0, <1>d DEF IInv, MarkerInv
<1>5. ModeInv'
  BY <1>0, <1>b, <1>d DEF IInv, ModeInv, Decided, Publishing
<1>6. FreshInv'
  BY <1>0, <1>b DEF IInv, FreshInv, Publishing
<1> QED BY <1>1, <1>2, <1>3, <1>4, <1>5, <1>6 DEF IInv

\* An attempt that ends leaves the rows it wrote and the ledger as they are.
LEMMA CompleteStep == ASSUME IInv, Complete PROVE IInv'
<1> USE PublishConstants DEF Nodes, Ranges, Aux
<1>0. /\ TypeOK /\ pc = "assert" /\ pc' \in {"done", "idle"}
      /\ UNCHANGED <<checkpoint, marker, unit, rows, resume, mode, node, range, faults>>
  BY DEF IInv, Complete, ledger, attempt, position
<1>1. TypeOK'
  BY <1>0 DEF TypeOK, Pcs
<1>2. TaskInv'
  BY <1>0 DEF IInv, TaskInv
<1>3. ProgressInv'
  BY <1>0 DEF IInv, ProgressInv, Publishing
<1>a. \A n \in Nodes : HasLegacy(n)' <=> HasLegacy(n)
  BY <1>0 DEF HasLegacy, Begun
<1>4. MarkerInv'
  BY <1>0, <1>a DEF IInv, MarkerInv
<1>5. ModeInv'
  BY <1>0, <1>a DEF IInv, ModeInv, Decided, Publishing
<1>6. FreshInv'
  BY <1>0 DEF IInv, FreshInv, Publishing
<1> QED BY <1>1, <1>2, <1>3, <1>4, <1>5, <1>6 DEF IInv

\* What a stopped attempt leaves: the parts of the invariant about pc are void.
LEMMA StopKeeps ==
    ASSUME IInv, pc' = "idle", UNCHANGED <<checkpoint, marker, resume, mode, node, range>>,
           (Write /\ pc = "command") \/ UNCHANGED rows,
           \A n \in Nodes : HasLegacy(n) => HasLegacy(n)'
    PROVE  /\ ProgressInv' /\ MarkerInv' /\ ModeInv' /\ FreshInv'
           /\ rows' \in [Nodes -> [Ranges -> SUBSET Modes]]
           /\ \A n \in Nodes, i \in Ranges : rows[n][i] \subseteq rows'[n][i]
<1>1. CASE UNCHANGED rows
  <2>1. ProgressInv' /\ FreshInv'
    BY <1>1 DEF IInv, ProgressInv, FreshInv, Publishing
  <2>2. ModeInv'
    BY DEF ModeInv, Decided, Publishing
  <2>3. MarkerInv'
    BY <1>1 DEF IInv, MarkerInv
  <2> QED BY <1>1, <2>1, <2>2, <2>3 DEF IInv, TypeOK
<1>2. CASE Write /\ pc = "command"
  <2>1. ProgressInv' /\ FreshInv'
    BY <1>2 DEF IInv, ProgressInv, FreshInv, Publishing
  <2>2. ModeInv'
    BY DEF ModeInv, Decided, Publishing
  <2>3. MarkerInv'
    BY <1>2, WriteKeeps DEF Publishing
  <2> QED BY <1>2, <2>1, <2>2, <2>3, WriteFacts DEF IInv
<1> QED BY <1>1, <1>2

\* A command that raises is recorded as failed.
LEMMA FailCommandStep == ASSUME IInv, FailCommand PROVE IInv'
<1>0. /\ TypeOK /\ pc = "command" /\ pc' = "idle" /\ SetUnit("FAILED")
      /\ "FAILED" \in Statuses \ {"NONE"} /\ faults' = faults + 1
      /\ Write \/ UNCHANGED rows
      /\ UNCHANGED <<checkpoint, marker, resume, mode, node, range>>
  BY DEF IInv, FailCommand, attempt, position, Statuses
<1>a. /\ unit' \in [Modes -> [Nodes -> [Ranges -> Statuses]]]
      /\ \A m \in Modes, n \in Nodes, i \in Ranges :
           unit'[m][n][i] = IF Ledgered(mode[node], node) /\ m = mode[node] /\ n = node /\ i = range
                            THEN "FAILED" ELSE unit[m][n][i]
  BY <1>0, SetUnitFacts
<1>b. \A n \in Nodes : HasLegacy(n) => HasLegacy(n)'
  BY <1>0, SetUnitKeeps
<1>c. /\ ProgressInv' /\ MarkerInv' /\ ModeInv' /\ FreshInv'
      /\ rows' \in [Nodes -> [Ranges -> SUBSET Modes]]
      /\ \A n \in Nodes, i \in Ranges : rows[n][i] \subseteq rows'[n][i]
  BY <1>0, <1>b, StopKeeps
<1>1. TypeOK'
  BY <1>0, <1>a, <1>c DEF TypeOK, Pcs
<1>2. TaskInv'
  BY <1>0, <1>a, <1>c DEF IInv, TaskInv
<1> QED BY <1>1, <1>2, <1>c DEF IInv

\* An attempt that stops anywhere else leaves the ledger as it is.
LEMMA InterruptStep == ASSUME IInv, Interrupt PROVE IInv'
<1>0. /\ TypeOK /\ pc' = "idle" /\ faults' = faults + 1
      /\ (Write /\ pc = "command") \/ UNCHANGED rows
      /\ UNCHANGED <<checkpoint, marker, unit, resume, mode, node, range>>
  BY DEF IInv, Interrupt, ledger, attempt, position
<1>b. \A n \in Nodes : HasLegacy(n) => HasLegacy(n)'
  BY <1>0 DEF HasLegacy, Begun
<1>c. /\ ProgressInv' /\ MarkerInv' /\ ModeInv' /\ FreshInv'
      /\ rows' \in [Nodes -> [Ranges -> SUBSET Modes]]
      /\ \A n \in Nodes, i \in Ranges : rows[n][i] \subseteq rows'[n][i]
  BY <1>0, <1>b, StopKeeps
<1>1. TypeOK'
  BY <1>0, <1>c DEF TypeOK, Pcs
<1>2. TaskInv'
  BY <1>0, <1>c DEF IInv, TaskInv
<1> QED BY <1>1, <1>2, <1>c DEF IInv

\* Stuttering.
LEMMA StutterStep == ASSUME IInv, UNCHANGED vars PROVE IInv'
  BY DEF IInv, vars, ledger, attempt, position, TypeOK, TaskInv, ProgressInv, MarkerInv,
     HasLegacy, Begun, ModeInv, Decided, FreshInv

\* Every step keeps the invariant.
LEMMA StepInv == IInv /\ [Next]_vars => IInv'
<1> SUFFICES ASSUME IInv, [Next]_vars PROVE IInv'
  OBVIOUS
<1>1. CASE Begin               BY <1>1, BeginStep
<1>2. CASE SaveCheckpoint      BY <1>2, SaveStep
<1>3. CASE KeepMode            BY <1>3, KeepStep
<1>4. CASE MarkerRunning       BY <1>4, MarkerRunningStep
<1>5. CASE MarkerSuccess       BY <1>5, MarkerSuccessStep
<1>6. CASE SkipRange           BY <1>6, SkipStep
<1>7. CASE MarkRunning         BY <1>7, MarkRunningStep
<1>8. CASE Command             BY <1>8, CommandStep
<1>9. CASE MarkSuccess         BY <1>9, MarkSuccessStep
<1>10. CASE Complete           BY <1>10, CompleteStep
<1>11. CASE FailCommand        BY <1>11, FailCommandStep
<1>12. CASE Interrupt          BY <1>12, InterruptStep
<1>13. CASE UNCHANGED vars     BY <1>13, StutterStep
<1> QED BY <1>1, <1>2, <1>3, <1>4, <1>5, <1>6, <1>7, <1>8, <1>9, <1>10, <1>11, <1>12, <1>13
        DEF Next, Step, Published

\* The invariant holds in every reachable state.
LEMMA Invariance == Spec => []IInv
  BY InitInv, StepInv, PTL DEF Spec

-----------------------------------------------------------------------------
(* The theorems.                                                           *)

\* The publication's variables keep their types.
THEOREM PublishTypes == Spec => []TypeOK
<1>1. IInv => TypeOK
  BY DEF IInv
<1> QED BY <1>1, Invariance, PTL

\* A finished publication has the rows of every range, in each node's own mode.
THEOREM FinishedIsPublished == Spec => []DoneIsPublished
<1>1. IInv => DoneIsPublished
  BY DEF IInv, ProgressInv, DoneIsPublished
<1> QED BY <1>1, Invariance, PTL

\* The rows of a node come from one mode.
THEOREM NoNodeSwitches == Spec => []OneMode
<1>1. IInv => OneMode
  BY DEF IInv, MarkerInv, HasLegacy, OneMode
<1> QED BY <1>1, Invariance, PTL

\* A committed task is never executed again.
THEOREM CommittedNotRepeated == Spec => NoRework
<1> DEFINE Kept == \A m \in Modes, n \in Nodes, i \in Ranges :
                     unit[m][n][i] = "SUCCESS" => unit'[m][n][i] = "SUCCESS"
<1>1. ASSUME IInv, [Next]_vars PROVE [Kept]_vars
  <2>1. CASE MarkRunning
    <3>1. TypeOK /\ ~Skips /\ SetUnit("RUNNING") /\ "RUNNING" \in Statuses
      BY <1>1, <2>1 DEF IInv, MarkRunning, Statuses
    <3> QED BY <3>1, SetUnitFacts DEF Skips, IsSuccess
  <2>2. CASE MarkSuccess
    <3>1. TypeOK /\ SetUnit("SUCCESS") /\ "SUCCESS" \in Statuses
      BY <1>1, <2>2 DEF IInv, MarkSuccess, Statuses
    <3> QED BY <3>1, SetUnitFacts
  <2>3. CASE FailCommand
    <3>1. /\ TypeOK /\ SetUnit("FAILED") /\ "FAILED" \in Statuses
          /\ Ledgered(mode[node], node) => unit[mode[node]][node][range] = "RUNNING"
      BY <1>1, <2>3 DEF IInv, TaskInv, FailCommand, Statuses
    <3> QED BY <3>1, SetUnitFacts
  <2>4. CASE UNCHANGED unit
    BY <2>4
  <2> QED BY <1>1, <2>1, <2>2, <2>3, <2>4
          DEF Next, Step, Published, vars, ledger, Begin, SaveCheckpoint, KeepMode, MarkerRunning,
              MarkerSuccess, SkipRange, Command, Complete, Interrupt
<1> QED BY <1>1, Invariance, PTL DEF Spec, NoRework

=============================================================================
