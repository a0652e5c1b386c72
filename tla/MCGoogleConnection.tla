------------------------- MODULE MCGoogleConnection ------------------------
(* Two tasks at a time, so every pair of operations overlaps. *)
EXTENDS GoogleConnection
=============================================================================
