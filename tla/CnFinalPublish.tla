--------------------------- MODULE CnFinalPublish ---------------------------
(***************************************************************************)
(* Final publication of one CN package: the native cutover of each publish *)
(* node and the durable ledger of its range tasks, across attempts.        *)
(*                                                                         *)
(* An attempt of _publish_m16 (app/cn/ingest_m16) builds one cutover       *)
(* client per node, which decides from a marker in the ledger whether the  *)
(* node runs natively or as rewritten legacy SQL, then publishes the nodes *)
(* range by range.  CnIngest has the phases around it; here the stage is   *)
(* intact, so the range plan is the same in every attempt.                 *)
(*                                                                         *)
(* Nodes are numbered in publication order.  The last one stands for the   *)
(* auxiliary nodes (PRIORITY, MADRID), whose client is built first and has *)
(* a rule of its own.                                                      *)
(***************************************************************************)
EXTENDS Integers

CONSTANTS
    NumNodes,         \* publish nodes
    NumRanges,        \* ranges of a node
    StageNodes,       \* nodes whose legacy form runs through the ledger
    MaxFaults         \* bound: attempts that raise or die

Nodes == 1..NumNodes
Ranges == 1..NumRanges
Aux == NumNodes

ASSUME PublishConstants ==
    /\ NumNodes \in Nat /\ NumNodes > 1
    /\ NumRanges \in Nat /\ NumRanges > 0
    /\ StageNodes \subseteq Nodes /\ 1 \in StageNodes /\ Aux \notin StageNodes
    /\ MaxFaults \in Nat

VARIABLES
    checkpoint,   \* the publish checkpoint is saved
    marker,       \* status of each node's cutover marker
    unit,         \* status of each range task: its SQL, hence its key, depends on the mode
    rows,         \* the modes that have written the rows of a range
    pc,
    resume,       \* final_publish_resume of this attempt
    mode,         \* mode of each node in this attempt
    node, range,  \* where it is
    faults

ledger == <<marker, unit>>
attempt == <<resume, mode>>
position == <<node, range>>
vars == <<checkpoint, ledger, rows, pc, attempt, position, faults>>

Modes == {"native", "legacy"}
Statuses == {"NONE", "RUNNING", "FAILED", "SUCCESS"}
Pcs == {"idle", "save", "cutover", "running", "range", "command", "landed",
        "assert", "done"}

Before(n, i, m, j) == n < m \/ (n = m /\ i < j)

\* Legacy work has a ledger row for stage nodes only.
Ledgered(m, n) == m = "native" \/ n \in StageNodes

Empty == [m \in Modes |-> [n \in Nodes |-> [i \in Ranges |-> "NONE"]]]

\* No attempt yet.
NewPublication ==
    checkpoint = FALSE /\ unit = Empty /\ rows = [n \in Nodes |-> [i \in Ranges |-> {}]]

\* A checkpoint of the release before the cutover, which stopped at range i of node
\* n: its task has status s, if it has one, and its command wrote w.
OldPublication(n, i, s, w) ==
    /\ checkpoint = TRUE
    /\ s = "NONE" /\ n \in StageNodes => w = {}
    /\ unit = [m \in Modes |-> [k \in Nodes |-> [j \in Ranges |->
                 IF m = "native" \/ k \notin StageNodes THEN "NONE"
                 ELSE IF Before(k, j, n, i) THEN "SUCCESS"
                 ELSE IF k = n /\ j = i THEN s ELSE "NONE"]]]
    /\ rows = [k \in Nodes |-> [j \in Ranges |->
                 IF Before(k, j, n, i) THEN {"legacy"}
                 ELSE IF k = n /\ j = i THEN w ELSE {}]]

Init ==
    /\ marker = [n \in Nodes |-> "NONE"]
    /\ \/ NewPublication
       \/ \E n \in Nodes, i \in Ranges, s \in Statuses \ {"SUCCESS"}, w \in SUBSET {"legacy"} :
            OldPublication(n, i, s, w)
    /\ pc = "idle" /\ resume = FALSE
    /\ mode = [n \in Nodes |-> "legacy"]
    /\ node = 1 /\ range = 1 /\ faults = 0

-----------------------------------------------------------------------------
(* The beginning of an attempt and the cutover of the nodes.               *)

\* _publish_m16 finds the checkpoint, or materializes the stages and saves one.
Begin ==
    /\ pc = "idle"
    /\ resume' = checkpoint
    /\ node' = Aux /\ range' = 1
    /\ pc' = IF checkpoint THEN "cutover" ELSE "save"
    /\ UNCHANGED <<checkpoint, ledger, rows, mode, faults>>

SaveCheckpoint ==
    /\ pc = "save"
    /\ checkpoint' = TRUE
    /\ pc' = "cutover"
    /\ UNCHANGED <<ledger, rows, attempt, position, faults>>

LedgerRows == {n \in Nodes : marker[n] # "NONE"} \cup
              {n \in Nodes : \E m \in Modes, i \in Ranges : unit[m][n][i] # "NONE"}

\* Bug: every attempt may cut a node over.
AlwaysAllowed(n) == marker[n] # "SUCCESS"

\* Bug: a marker that was begun is not looked at.
OnlyNewMarkers(n) ==
    /\ marker[n] # "SUCCESS"
    /\ IF n = Aux THEN LedgerRows = {} ELSE marker[n] = "NONE" /\ ~resume

\* The marker has to be written.  _initialize_native_aux_cutover asks for an empty
\* ledger; the other nodes for a marker that was begun, or for a new publication.
WritesMarker(n) ==
    /\ marker[n] # "SUCCESS"
    /\ IF n = Aux THEN LedgerRows = {} ELSE marker[n] # "NONE" \/ ~resume

\* To the next client, or to the first range when every client is built.
CutOver(m) ==
    /\ mode' = [mode EXCEPT ![node] = m]
    /\ IF node = Aux - 1 THEN pc' = "range" /\ node' = 1
       ELSE pc' = "cutover" /\ node' = IF node = Aux THEN 1 ELSE node + 1

\* The node keeps the mode of its marker.
KeepMode ==
    /\ pc = "cutover"
    /\ ~WritesMarker(node)
    /\ CutOver(IF marker[node] = "SUCCESS" THEN "native" ELSE "legacy")
    /\ UNCHANGED <<checkpoint, ledger, rows, resume, range, faults>>

\* _write_cutover_marker: mark_running, then mark_success.
MarkerRunning ==
    /\ pc = "cutover"
    /\ WritesMarker(node)
    /\ marker' = [marker EXCEPT ![node] = "RUNNING"]
    /\ pc' = "running"
    /\ UNCHANGED <<checkpoint, unit, rows, attempt, position, faults>>

MarkerSuccess ==
    /\ pc = "running"
    /\ marker' = [marker EXCEPT ![node] = "SUCCESS"]
    /\ CutOver("native")
    /\ UNCHANGED <<checkpoint, unit, rows, resume, range, faults>>

-----------------------------------------------------------------------------
(* Range tasks of a node.                                                  *)

\* Bug: the status of a task is not looked at.
NeverSuccess(s) == FALSE

\* is_success.
IsSuccess(s) == s = "SUCCESS"

\* The next range, the next node, or the completion check.
Advance ==
    IF range < NumRanges THEN range' = range + 1 /\ pc' = "range" /\ UNCHANGED node
    ELSE /\ range' = 1
         /\ IF node < NumNodes THEN node' = node + 1 /\ pc' = "range"
            ELSE node' = 1 /\ pc' = "assert"

Skips == Ledgered(mode[node], node) /\ IsSuccess(unit[mode[node]][node][range])

SkipRange ==
    /\ pc = "range"
    /\ Skips
    /\ Advance
    /\ UNCHANGED <<checkpoint, ledger, rows, attempt, faults>>

SetUnit(s) ==
    unit' = IF Ledgered(mode[node], node)
            THEN [unit EXCEPT ![mode[node]][node][range] = s] ELSE unit

MarkRunning ==
    /\ pc = "range"
    /\ ~Skips
    /\ SetUnit("RUNNING")
    /\ pc' = "command"
    /\ UNCHANGED <<checkpoint, marker, rows, attempt, position, faults>>

Write == rows' = [rows EXCEPT ![node][range] = @ \cup {mode[node]}]

Command ==
    /\ pc = "command"
    /\ Write
    /\ pc' = "landed"
    /\ UNCHANGED <<checkpoint, ledger, attempt, position, faults>>

MarkSuccess ==
    /\ pc = "landed"
    /\ SetUnit("SUCCESS")
    /\ Advance
    /\ UNCHANGED <<checkpoint, marker, rows, attempt, faults>>

-----------------------------------------------------------------------------
(* Completion and faults.                                                  *)

\* PublishSubtaskStore.assert_complete.
AssertComplete ==
    \A n \in Nodes :
        /\ marker[n] \notin {"RUNNING", "FAILED"}
        /\ \A m \in Modes, i \in Ranges : unit[m][n][i] \notin {"RUNNING", "FAILED"}

\* assert_stage_groups_complete: a group that has a row is all SUCCESS, and every
\* stage has a group.
StageGroupsComplete ==
    \A n \in StageNodes :
        /\ \E m \in Modes, i \in Ranges : unit[m][n][i] # "NONE"
        /\ \A m \in Modes : (\E i \in Ranges : unit[m][n][i] # "NONE") =>
                               \A i \in Ranges : unit[m][n][i] = "SUCCESS"

\* assert_final_publish_complete: a stage no legacy command was seen for must be
\* complete in the ledger.
PublishComplete ==
    /\ AssertComplete
    /\ (\E n \in StageNodes : mode[n] = "native") => StageGroupsComplete

Complete ==
    /\ pc = "assert"
    /\ pc' = IF PublishComplete THEN "done" ELSE "idle"
    /\ UNCHANGED <<checkpoint, ledger, rows, attempt, position, faults>>

\* Bug: a command that raised is recorded as done.
FailCommandCommitted ==
    /\ pc = "command"
    /\ faults < MaxFaults
    /\ faults' = faults + 1
    /\ Write \/ UNCHANGED rows
    /\ SetUnit("SUCCESS")
    /\ pc' = "idle"
    /\ UNCHANGED <<checkpoint, marker, attempt, position>>

\* The command raises, its rows written or not; mark_failed, and the attempt ends.
FailCommand ==
    /\ pc = "command"
    /\ faults < MaxFaults
    /\ faults' = faults + 1
    /\ Write \/ UNCHANGED rows
    /\ SetUnit("FAILED")
    /\ pc' = "idle"
    /\ UNCHANGED <<checkpoint, marker, attempt, position>>

\* The attempt raises elsewhere, or the process dies; a command that was sent may
\* still write its rows.
Interrupt ==
    /\ pc \notin {"idle", "done"}
    /\ faults < MaxFaults
    /\ faults' = faults + 1
    /\ \/ UNCHANGED rows
       \/ pc = "command" /\ Write
    /\ pc' = "idle"
    /\ UNCHANGED <<checkpoint, ledger, attempt, position>>

Step ==
    \/ Begin \/ SaveCheckpoint \/ KeepMode \/ MarkerRunning \/ MarkerSuccess
    \/ SkipRange \/ MarkRunning \/ Command \/ MarkSuccess \/ Complete

\* Published: nothing is left to do.
Published == pc = "done" /\ UNCHANGED vars

Next == Step \/ FailCommand \/ Interrupt \/ Published

Spec == Init /\ [][Next]_vars

\* The package is retried and an attempt that began goes on.
FairSpec == Spec /\ WF_vars(Step)

-----------------------------------------------------------------------------

\* The types of the ledger, the rows and the attempt.
TypeOK ==
    /\ checkpoint \in BOOLEAN /\ resume \in BOOLEAN
    /\ marker \in [Nodes -> Statuses]
    /\ unit \in [Modes -> [Nodes -> [Ranges -> Statuses]]]
    /\ rows \in [Nodes -> [Ranges -> SUBSET Modes]]
    /\ pc \in Pcs
    /\ mode \in [Nodes -> Modes]
    /\ node \in Nodes /\ range \in Ranges
    /\ faults \in Nat

\* A finished publication has written every range of every node in the node's own
\* mode, although most ranges may have been skipped by the attempt that finished.
DoneIsPublished ==
    pc = "done" => \A n \in Nodes, i \in Ranges : mode[n] \in rows[n][i]

\* A node is never switched mid-run: its rows come from one mode, whatever stops
\* the attempts and whichever release began the publication.
OneMode ==
    \A n \in Nodes, i, j \in Ranges :
        ~("native" \in rows[n][i] /\ "legacy" \in rows[n][j])

\* Committed range tasks are not executed again.
NoRework ==
    [][\A m \in Modes, n \in Nodes, i \in Ranges :
         unit[m][n][i] = "SUCCESS" => unit'[m][n][i] = "SUCCESS"]_vars

\* A publication that is retried finishes.
Finishes == <>(pc = "done")

\* It does unless an attempt stopped between the two writes of the auxiliary marker.
Converges == [](pc = "idle" => marker[Aux] # "RUNNING") => Finishes

=============================================================================
