---------------------------- MODULE SealedRecords ----------------------------
(***************************************************************************)
(* The two records that a CRC seals and that a reader with nothing else    *)
(* has to judge: the retained crash record (CrashRecord), which the target *)
(* writes, and the identity block of an image (ImageBuild), which the host *)
(* writes before.  Both are written in steps that may be cut off anywhere. *)
(* They share no state: while an image is built, no target runs, and the   *)
(* record is as CrashRecord's Init has it.                                 *)
(***************************************************************************)
EXTENDS CrashRecord

CONSTANTS
  TreeContent, Version, Erased, IdentityAddress, MaxRevision, MaxBuilds,
  NoHeader                                          \* as in ImageBuild

VARIABLES
  tree, commits, objects, elf, bin, hex, pc, goal, version, builds,
  damaged                                           \* ImageBuild

build_vars == <<tree, commits, objects, elf, bin, hex, pc, goal, version, builds,
                damaged>>

Img == INSTANCE ImageBuild WITH Content <- TreeContent, committed <- commits

ASSUME ImageAssumption == Img!ImageFits

BuildInit == Init /\ Img!Init
BuildNext == Img!Next /\ UNCHANGED vars
BuildSpec == BuildInit /\ [][BuildNext]_<<vars, build_vars>>
-----------------------------------------------------------------------------
(* ELF, BIN and HEX that verify together are one image with one identity.  *)
FilesAgree == Img!FilesAgree

(* A make that nobody interrupts fails only over the layout.               *)
FailsForCause == Img!FailsForCause

(* The identity of what make built is that of this make.                   *)
IdentityCurrent == Img!IdentityCurrent

(* What verifies as clean holds the tree of the revision it names.         *)
CleanIsCommitted == Img!CleanIsCommitted

(* docs/image_identity.md:44-45: clean contents are reproducible.          *)
Reproducible == Img!Reproducible
=============================================================================
