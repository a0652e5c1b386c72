----------------------------- MODULE MCGbpPost -----------------------------
(* A post and its reposts for TLC.                                           *)
EXTENDS GbpPost, TLC

Symmetry == Permutations(Executors)
=============================================================================
