-------------------------- MODULE MCExecutionTasks --------------------------
(* Instances of ExecutionTasks for TLC. *)
EXTENDS ExecutionTasks, TLC

Symmetry == Permutations(Tasks)
=============================================================================
