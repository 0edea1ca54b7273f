-------------------------- MODULE MCRegmapSnapshot --------------------------
(* RegmapSnapshot for TLC: see MCRegmapSnapshot.cfg. *)
EXTENDS RegmapSnapshot
=============================================================================
