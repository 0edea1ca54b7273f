---------------------------- MODULE MCImageBuild ----------------------------
(***************************************************************************)
(* The build of SealedRecords for TLC: two trees, two versions, images of  *)
(* two or three bytes before the identity block, one commit after the      *)
(* first.  No exception is considered, so that the record has one state.   *)
(***************************************************************************)
EXTENDS SealedRecords
=============================================================================
