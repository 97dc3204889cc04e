----------------------------- MODULE MCNavTasks -----------------------------
(* Instances of NavTasks for TLC: launches are interchangeable. *)
EXTENDS NavTasks, TLC

LaunchSymmetry == Permutations(Procs)
=============================================================================
