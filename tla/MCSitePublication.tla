------------------------- MODULE MCSitePublication -------------------------
(* Two revisions of one field, their publications and people on GitHub.  The *)
(* phases of both kinds are the same code: one push, to a site change, will  *)
(* do.                                                                       *)
EXTENDS SitePublication

OnePush == [content |-> 0, site_change |-> 1]
=============================================================================
