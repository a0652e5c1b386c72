------------------------ MODULE MCOrganizationAccess ------------------------
(* Small instances of OrganizationAccess for TLC. *)
EXTENDS OrganizationAccess, TLC

Symmetry == Permutations(Users) \cup Permutations(Deactivations)
=============================================================================
