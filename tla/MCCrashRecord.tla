--------------------------- MODULE MCCrashRecord ---------------------------
(* CrashRecord for TLC: see MCCrashRecord.cfg. *)
EXTENDS CrashRecord

(* A power loss takes one covered word, or everything. *)
SomeLosses == {{"reason"}, Fields}
=============================================================================
