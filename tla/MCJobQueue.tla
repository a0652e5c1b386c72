----------------------------- MODULE MCJobQueue -----------------------------
(* The job queue for TLC.  Slots are not symmetric in liveness runs.         *)
EXTENDS JobQueue, TLC

Symmetry == Permutations(Slots) \cup Permutations(Tasks)
=============================================================================
