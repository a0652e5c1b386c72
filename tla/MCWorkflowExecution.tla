------------------------ MODULE MCWorkflowExecution ------------------------
(* Workflow runs and their jobs for TLC.                                     *)
EXTENDS WorkflowExecution

Symmetry == Permutations(Slots) \cup Permutations(Tasks) \cup Permutations(Jobs)
=============================================================================
