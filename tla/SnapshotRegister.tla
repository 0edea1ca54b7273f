-------------------------- MODULE SnapshotRegister --------------------------
(***************************************************************************)
(* What a register-map page promises: publishing replaces the whole image  *)
(* in one step, a read transaction sees one whole image from its first     *)
(* byte to its last, and at most one superseded image is kept alive.       *)
(***************************************************************************)
EXTENDS Naturals

CONSTANTS Readers, Image, Offsets, Unmapped, NoLatch, ReaderMax, Modulus

VARIABLES
  published,   \* the current image
  latch,       \* per reader: NoLatch, or the image it holds and whether
               \* that image is still the published one
  value,       \* per reader: the byte it read last
  rejected     \* rejected publications

vars == <<published, latch, value, rejected>>

Superseded == {r \in Readers : latch[r] # NoLatch /\ ~ latch[r].current}
Current == {r \in Readers : latch[r] # NoLatch /\ latch[r].current}

Init ==
  /\ published \in Image
  /\ latch = [r \in Readers |-> NoLatch]
  /\ value = [r \in Readers |-> Unmapped]
  /\ rejected = 0

Publish(d) ==
  /\ Superseded = {}
  /\ published' = d
  /\ latch' = [r \in Readers |->
                 IF latch[r] = NoLatch THEN NoLatch
                 ELSE [latch[r] EXCEPT !.current = FALSE]]
  /\ UNCHANGED <<value, rejected>>

PublishRejected ==
  /\ Superseded # {}
  /\ rejected' = (rejected + 1) % Modulus
  /\ UNCHANGED <<published, latch, value>>

Acquire(r) ==
  /\ latch[r] = NoLatch
  /\ latch' = [latch EXCEPT ![r] = [image |-> published, current |-> TRUE]]
  /\ UNCHANGED <<published, value, rejected>>

(* A reader without a latch is told 0xFF. *)
AcquireFailed(r) ==
  /\ latch[r] = NoLatch
  /\ value' = [value EXCEPT ![r] = Unmapped]
  /\ UNCHANGED <<published, latch, rejected>>

Read(r, o) ==
  /\ latch[r] # NoLatch
  /\ value' = [value EXCEPT ![r] = latch[r].image[o]]
  /\ UNCHANGED <<published, latch, rejected>>

Release(r) ==
  /\ latch[r] # NoLatch
  /\ latch' = [latch EXCEPT ![r] = NoLatch]
  /\ UNCHANGED <<published, value, rejected>>

Next ==
  \/ \E d \in Image : Publish(d)
  \/ PublishRejected
  \/ \E r \in Readers :
       Acquire(r) \/ AcquireFailed(r) \/ Release(r) \/ \E o \in Offsets : Read(r, o)

Spec == Init /\ [][Next]_vars
=============================================================================
