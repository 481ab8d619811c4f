--------------------------- MODULE MCContactTasks ---------------------------
(* Instances of ContactTasks for TLC.                                      *)
EXTENDS ContactTasks, TLC

CONSTANTS api1, api2, t1, t2, c1, c2, p1, p2

\* The threads of one process, or one in each of two.
MCHome == [t \in Threads |-> IF t = t2 /\ api2 \in Procs THEN api2 ELSE api1]

\* Contents and paths are interchangeable.
Symmetry == Permutations(Contents) \cup Permutations(Paths)

=============================================================================
