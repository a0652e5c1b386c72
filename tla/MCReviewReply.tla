---------------------------- MODULE MCReviewReply ---------------------------
(* A review and its responses for TLC.                                       *)
EXTENDS ReviewReply, TLC

Symmetry == Permutations(Executors)
=============================================================================
