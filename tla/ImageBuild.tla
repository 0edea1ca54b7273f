----------------------------- MODULE ImageBuild -----------------------------
(***************************************************************************)
(* The build of one firmware image (make/rules.mk) around the tool that    *)
(* stamps and verifies its identity block (tools/stamp_image_identity.py): *)
(* compile, link, stamp the ELF in place, derive BIN and HEX, verify.      *)
(* Make may be interrupted anywhere, files may be damaged between its      *)
(* runs, and the tool may be run by itself on whatever files there are.    *)
(*                                                                         *)
(* Addresses count from FLASH_ORIGIN.  The 64 bytes of the identity block  *)
(* are one cell behind the content, and its CRC is the data it covers.     *)
(***************************************************************************)
EXTENDS Integers, Sequences

CONSTANTS
  Content,          \* what a source tree may say: a byte of the image
  Version,          \* the VERSION of a make: a byte of the image too
  Erased,           \* 0xff
  IdentityAddress,  \* FLASH_LENGTH - IDENTITY_SIZE
  MaxRevision,      \* bound: commits
  MaxBuilds,        \* bound: runs of make
  NoHeader          \* the identity block as device/image_identity.c has it

Byte == Content \cup Version \cup {0, Erased}

VARIABLES
  tree,        \* content of the working tree
  committed,   \* content of the commits, the last is HEAD
  objects,     \* the compiled content and version, or << >>
  elf, bin, hex,
  pc,          \* the step of make, or how the last run of make or tool ended
  goal,        \* identity-check, or elf alone, as flash and size ask for
  version,     \* VERSION of this run
  builds,      \* runs of make so far
  damaged      \* a file has been damaged

source == <<tree, committed>>
files == <<objects, elf, bin, hex>>
make == <<goal, version, builds>>
vars == <<source, files, pc, make, damaged>>

Revision == Len(committed)
Template == [header |-> NoHeader, crc |-> << >>]
NoElf == [code |-> << >>, segments |-> << >>, identity |-> Template]
NoImage == [content |-> << >>, identity |-> Template]

Init ==
  /\ tree \in Content /\ committed = <<tree>>
  /\ objects = << >> /\ elf = NoElf /\ bin = NoImage /\ hex = NoImage
  /\ pc = "idle" /\ goal = "elf" /\ version \in Version /\ builds = 0
  /\ damaged = FALSE
-----------------------------------------------------------------------------
(* The compiler's image of a tree: code, the FW_VERSION_ macros and .data, *)
(* up to __data_load_end.  A segment is the addresses from one to another, *)
(* and the linker may place the sections in one segment or in two, leave a *)
(* hole between them or put something behind __data_load_end.              *)
Image(content, v) == IF content = 0 THEN <<content, v>> ELSE <<content, v, 0>>

(* device/mspm0c1106/linker.ld:89: an image ends before the identity       *)
(* block.  The block that is compiled in has no header.                    *)
ImageFits ==
  /\ IdentityAddress \in Nat /\ MaxBuilds \in Nat
  /\ \A content \in Content, v \in Version : Len(Image(content, v)) <= IdentityAddress
  /\ NoHeader \notin [version : Version, revision : Nat, dirty : BOOLEAN, length : Nat]

Span(segment) == segment[1] .. segment[2] - 1
Placements(n) ==
  {<< <<0, n>> >>, << <<0, 1>>, <<1, n>> >>, << <<1, n>> >>, << <<0, n>>, <<0, 1>> >>,
   << <<0, n>>, <<n, IdentityAddress>> >>}
Loaded(e) == UNION {Span(e.segments[i]) : i \in DOMAIN e.segments}
ByteAt(e, a) == IF a < Len(e.code) THEN e.code[a + 1] ELSE 0

(* make_layout: every byte of the coverage comes from exactly one segment. *)
LayoutOk(e) ==
  /\ Len(e.code) \in 1 .. IdentityAddress
  /\ \A a \in 0 .. Len(e.code) - 1 :
       \E i \in DOMAIN e.segments :
         {j \in DOMAIN e.segments : a \in Span(e.segments[j])} = {i}

(* build_identity, and decode_identity with the checks of verify_elf. *)
Sealed(header, code) == [header |-> header, crc |-> <<code, header>>]

ElfOk(e) ==
  /\ LayoutOk(e)
  /\ e.identity.header # NoHeader
  /\ e.identity.header.length = Len(e.code)
  /\ e.identity = Sealed(e.identity.header, e.code)

(* objcopy -O binary fills what lies between the segments; objcopy -O ihex *)
(* writes the segments alone.                                              *)
Mut_GapFillZero == 0
GapFill == Erased
Binary(e) ==
  [content |-> [a \in 0 .. IdentityAddress - 1 |->
                  IF a \in Loaded(e) THEN ByteAt(e, a) ELSE GapFill],
   identity |-> e.identity]
Hex(e) == [content |-> [a \in Loaded(e) |-> ByteAt(e, a)], identity |-> e.identity]

(* verify_binary and verify_hex. *)
Mut_BinaryOkNoGap(b, e) ==
  /\ DOMAIN b.content = 0 .. IdentityAddress - 1
  /\ \A a \in 0 .. Len(e.code) - 1 : b.content[a] = e.code[a + 1]
  /\ b.identity = e.identity

BinaryOk(b, e) ==
  /\ DOMAIN b.content = 0 .. IdentityAddress - 1
  /\ \A a \in DOMAIN b.content :
       b.content[a] = IF a < Len(e.code) THEN e.code[a + 1] ELSE Erased
  /\ b.identity = e.identity

HexOk(h, e) ==
  /\ h.content = [a \in 0 .. Len(e.code) - 1 |-> e.code[a + 1]]
  /\ h.identity = e.identity

AllOk == ElfOk(elf) /\ BinaryOk(bin, elf) /\ HexOk(hex, elf)
-----------------------------------------------------------------------------
Resting == pc \in {"idle", "stopped", "built", "checked", "accepted"}

(* The tree is edited, or committed. *)
Edit(content) ==
  /\ Resting /\ content # tree
  /\ tree' = content /\ pc' = "idle"
  /\ UNCHANGED <<committed, files, make, damaged>>

Commit ==
  /\ Resting /\ Revision < MaxRevision
  /\ committed' = Append(committed, tree) /\ pc' = "idle"
  /\ UNCHANGED <<tree, files, make, damaged>>

(* git status --porcelain, and the revision: SOURCE_DIRTY and SOURCE_ID.   *)
Mut_DirtyNever == FALSE
Dirty == tree # committed[Revision]
Header(n) == [version |-> version, revision |-> Revision, dirty |-> Dirty, length |-> n]

Make(g, v) ==
  /\ Resting /\ builds < MaxBuilds
  /\ pc' = "compile" /\ goal' = g /\ version' = v /\ builds' = builds + 1
  /\ UNCHANGED <<source, files, damaged>>

(* Objects are rebuilt when a source is newer than they are.  The macros   *)
(* VERSION defines on the command line are no prerequisite.                *)
Compile ==
  /\ pc = "compile" /\ pc' = "link"
  /\ \/ objects' = <<tree, version>>
     \/ objects # << >> /\ objects[1] = tree /\ UNCHANGED objects
  /\ UNCHANGED <<source, elf, bin, hex, make, damaged>>

(* The ELF is linked in every run: image-identity-force. *)
Linked == Image(objects[1], objects[2])
Mut_MustLinkIfChanged == elf.code # Linked
MustLink == TRUE

Link(segments) ==
  /\ IF MustLink
     THEN /\ elf' = [code |-> Linked, segments |-> segments, identity |-> Template]
          /\ pc' = "stamp"
     ELSE pc' = "verify" /\ UNCHANGED elf
  /\ UNCHANGED <<source, objects, bin, hex, make, damaged>>

(* stamp reads the ELF, and writes it back identity and all: the file is   *)
(* empty in between.                                                       *)
Stamp ==
  /\ pc = "stamp"
  /\ pc' = IF LayoutOk(elf) THEN "save" ELSE "stopped"
  /\ UNCHANGED <<source, files, make, damaged>>

Save ==
  /\ pc = "save" /\ pc' = "verify"
  /\ elf' = [elf EXCEPT !.identity = Sealed(Header(Len(elf.code)), elf.code)]
  /\ UNCHANGED <<source, objects, bin, hex, make, damaged>>

Verify ==
  /\ pc = "verify"
  /\ pc' = CASE ~ ElfOk(elf) -> "stopped"
             [] ElfOk(elf) /\ goal = "elf" -> "built"
             [] ElfOk(elf) /\ goal = "check" -> "binary"
  /\ UNCHANGED <<source, files, make, damaged>>

ObjcopyBinary ==
  /\ pc = "binary" /\ pc' = "hex"
  /\ bin' = Binary(elf)
  /\ UNCHANGED <<source, objects, elf, hex, make, damaged>>

ObjcopyHex ==
  /\ pc = "hex" /\ pc' = "check"
  /\ hex' = Hex(elf)
  /\ UNCHANGED <<source, objects, elf, bin, make, damaged>>

Check ==
  /\ pc = "check"
  /\ pc' = IF AllOk THEN "checked" ELSE "stopped"
  /\ UNCHANGED <<source, files, make, damaged>>

(* The tool's verify, run by hand. *)
VerifyFiles ==
  /\ Resting
  /\ pc' = IF AllOk THEN "accepted" ELSE "idle"
  /\ UNCHANGED <<source, files, make, damaged>>

(* Make is killed, with the file it is writing as it was or cut short. *)
Interrupt ==
  /\ ~ Resting /\ pc' = "idle"
  /\ elf' \in (IF pc = "save" THEN {} ELSE {elf})
                \cup (IF pc \in {"link", "save"} THEN {NoElf} ELSE {})
  /\ bin' \in {bin} \cup (IF pc = "binary" THEN {NoImage} ELSE {})
  /\ hex' \in {hex} \cup (IF pc = "hex" THEN {NoImage} ELSE {})
  /\ UNCHANGED <<source, objects, make, damaged>>

(* One byte of one file changes; a HEX file may lose it. *)
Damage ==
  /\ Resting /\ ~ damaged
  /\ damaged' = TRUE /\ pc' = "idle"
  /\ \E b \in Byte :
       \/ /\ \E i \in DOMAIN elf.code : elf' = [elf EXCEPT !.code[i] = b]
          /\ UNCHANGED <<bin, hex>>
       \/ /\ \E a \in DOMAIN bin.content : bin' = [bin EXCEPT !.content[a] = b]
          /\ UNCHANGED <<elf, hex>>
       \/ /\ \E a \in DOMAIN hex.content :
               hex' \in {[hex EXCEPT !.content[a] = b],
                         [hex EXCEPT !.content = [c \in DOMAIN @ \ {a} |-> @[c]]]}
          /\ UNCHANGED <<elf, bin>>
  /\ UNCHANGED <<source, objects, make>>

Next ==
  \/ \E c \in Content : Edit(c)
  \/ Commit
  \/ \E g \in {"elf", "check"}, v \in Version : Make(g, v)
  \/ Compile
  \/ pc = "link" /\ \E s \in Placements(Len(Linked)) : Link(s)
  \/ Stamp \/ Save \/ Verify \/ ObjcopyBinary \/ ObjcopyHex \/ Check
  \/ VerifyFiles \/ Interrupt \/ Damage

Spec == Init /\ [][Next]_vars
-----------------------------------------------------------------------------
(* The type invariant: a block with a header has a CRC. *)
TypeOK ==
  /\ tree \in Content /\ committed \in Seq(Content)
  /\ elf.code \in Seq(Byte)
  /\ \A file \in {elf, bin, hex} : file.identity.header = NoHeader <=> file.identity.crc = << >>
  /\ \A image \in {bin, hex} :
       \A a \in DOMAIN image.content : a \in 0 .. IdentityAddress - 1 /\ image.content[a] \in Byte
  /\ goal \in {"elf", "check"} /\ version \in Version
  /\ builds \in 0 .. MaxBuilds /\ damaged \in BOOLEAN

(* The flash after programming an image into erased cells, and what a      *)
(* verifier on the target can check without ELF or linker symbols.         *)
Flash(content) ==
  [a \in 0 .. IdentityAddress - 1 |-> IF a \in DOMAIN content THEN content[a] ELSE Erased]
TargetAccepts(flash, identity) ==
  /\ identity.header # NoHeader
  /\ identity = Sealed(identity.header,
                       [i \in 1 .. identity.header.length |-> flash[i - 1]])

(* Files that verify accepts together are the same image, however they     *)
(* came about: BIN and HEX fill the flash alike, ELF, BIN and HEX make the *)
(* target's own check succeed, and there is one identity.                  *)
FilesAgree ==
  /\ TypeOK
  /\ pc \in {"checked", "accepted"} =>
       /\ Flash(bin.content) = Flash(hex.content)
       /\ \A file \in {bin, hex, Hex(elf)} :
            TargetAccepts(Flash(file.content), file.identity)
       /\ elf.identity = bin.identity /\ bin.identity = hex.identity

(* A run of make that is not interrupted succeeds, whatever earlier runs   *)
(* and damage have left behind: it fails only over sections that are not   *)
(* placed one behind the other up to __data_load_end.                      *)
FailsForCause ==
  pc = "stopped" =>
    elf.segments \notin {<< <<0, Len(elf.code)>> >>,
                         << <<0, 1>>, <<1, Len(elf.code)>> >>}

(* The identity a make leaves behind is that of this make: its VERSION,    *)
(* the revision and the state of the tree cannot be those of an earlier    *)
(* run (docs/image_identity.md:42-44).                                     *)
IdentityCurrent ==
  pc \in {"built", "checked"} => elf.identity.header = Header(Len(elf.code))

(* What is accepted as clean is built from the revision it names. *)
CleanIsCommitted ==
  (pc \in {"built", "checked", "accepted"} /\ ~ elf.identity.header.dirty) =>
    elf.code[1] = committed[elf.identity.header.revision]

(* docs/image_identity.md:44-45: with the same clean sources, inputs and   *)
(* source ID the contents are reproducible.                                *)
Reproducible ==
  (pc \in {"built", "checked"} /\ ~ elf.identity.header.dirty) =>
    elf.code = Image(committed[elf.identity.header.revision], elf.identity.header.version)
=============================================================================
