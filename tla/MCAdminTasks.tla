---------------------------- MODULE MCAdminTasks ----------------------------
(* Model checking instances of AdminTasks: the constants come from the .cfg. *)
EXTENDS AdminTasks, TLC

\* The workers run the same program.
WorkerSymmetry == Permutations(Workers)
=============================================================================
