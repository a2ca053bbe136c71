--------------------------- MODULE MCCachedQuery ---------------------------
(***************************************************************************)
(* The metrics sync against the anchors table: one job, one request, three *)
(* anchors.                                                                *)
(***************************************************************************)
EXTENDS CachedQuery
=============================================================================
