--------------------------- MODULE RegmapSnapshot ---------------------------
(***************************************************************************)
(* The double-buffered page snapshot of lib/lib_regmap.c: one main-loop    *)
(* publisher, readers in interrupt handlers, and a single atomic word that *)
(* packs the active-buffer bit with a reader count per buffer.             *)
(*                                                                         *)
(* Every access to the word or to a buffer is a step of its own; a         *)
(* compare-exchange and a fetch-sub are one step each, which is what       *)
(* arch/arch_atomic_cm0.c makes of them (PRIMASK critical sections).       *)
(***************************************************************************)
EXTENDS Integers, FiniteSets

CONSTANTS
  Readers,     \* register maps that read this page (the I2C target is one)
  Length,      \* snapshot->length
  Value,       \* byte values
  Unmapped,    \* LIB_REGMAP_UNMAPPED_VALUE: no snapshot could be acquired
  NoBuffer,    \* regmap->latched_page == NULL
  ReaderMax,   \* LIB_REGMAP_SNAPSHOT_READER_MASK
  Modulus      \* number of values of the uint32_t rejection counter

ASSUME SnapshotAssumption ==
  /\ IsFiniteSet(Readers)
  /\ Length \in Nat \ {0}
  /\ ReaderMax \in Nat \ {0}
  /\ Modulus \in Nat \ {0}
  /\ NoBuffer \notin {0, 1}
  /\ NoBuffer \notin [image : [0 .. Length - 1 -> Value], current : BOOLEAN]

VARIABLES
  state,           \* snapshot->state, the packed word
  buffers,         \* snapshot->buffers
  rejected_count,  \* snapshot->publish_rejected_count
  pub_pc,          \* the publisher: idle, copy, exchange
  data,            \* publish's argument
  inactive,        \* publish's inactive_index
  pub_seen,        \* publish's local copy of the word
  index,           \* bytes already copied
  read_pc,         \* per reader: idle or exchange (inside acquire)
  seen,            \* per reader: acquire's local copy of the word
  held,            \* per reader: latched_buffer, or NoBuffer
  value            \* per reader: what the last read returned

publisher == <<pub_pc, data, inactive, pub_seen, index>>
vars == <<state, buffers, rejected_count, publisher, read_pc, seen, held, value>>

Offsets == 0 .. Length - 1
Image == [Offsets -> Value]
-----------------------------------------------------------------------------
(* The packed word: bit 0 the active buffer, then two reader counts. *)
Field == ReaderMax + 1
Active(word) == word % 2
ReaderOne(buffer) == IF buffer = 0 THEN 2 ELSE 2 * Field
ReaderCount(word, buffer) == (word \div ReaderOne(buffer)) % Field
Flip(word) == IF word % 2 = 0 THEN word + 1 ELSE word - 1
Other(buffer) == 1 - buffer

(* lib_regmap_snapshot_init: both buffers hold the initial image. *)
Init ==
  /\ state = 0
  /\ \E d \in Image : buffers = [b \in 0 .. 1 |-> d] /\ data = d
  /\ rejected_count = 0
  /\ pub_pc = "idle" /\ inactive = 1 /\ pub_seen = 0 /\ index = 0
  /\ read_pc = [r \in Readers |-> "idle"]
  /\ seen = [r \in Readers |-> 0]
  /\ held = [r \in Readers |-> NoBuffer]
  /\ value = [r \in Readers |-> Unmapped]
-----------------------------------------------------------------------------
(* lib_regmap_snapshot_publish loads the word and finds the buffer it is   *)
(* about to overwrite still held by a reader.                              *)
PublishRejected ==
  /\ pub_pc = "idle"
  /\ ReaderCount(state, Other(Active(state))) # 0
  /\ rejected_count' = (rejected_count + 1) % Modulus
  /\ UNCHANGED <<state, buffers, publisher, read_pc, seen, held, value>>

(* ... or finds it free and starts to copy. *)
Mut_PublishBeginUnchecked(d) ==
  /\ pub_pc = "idle"
  /\ pub_pc' = "copy"
  /\ data' = d
  /\ inactive' = Other(Active(state))
  /\ pub_seen' = state
  /\ index' = 0
  /\ UNCHANGED <<state, buffers, rejected_count, read_pc, seen, held, value>>

PublishBegin(d) ==
  /\ pub_pc = "idle"
  /\ ReaderCount(state, Other(Active(state))) = 0
  /\ pub_pc' = "copy"
  /\ data' = d
  /\ inactive' = Other(Active(state))
  /\ pub_seen' = state
  /\ index' = 0
  /\ UNCHANGED <<state, buffers, rejected_count, read_pc, seen, held, value>>

PublishCopy ==
  /\ pub_pc = "copy"
  /\ buffers' = [buffers EXCEPT ![inactive] = [@ EXCEPT ![index] = data[index]]]
  /\ index' = index + 1
  /\ pub_pc' = IF index + 1 = Length THEN "exchange" ELSE "copy"
  /\ UNCHANGED <<state, rejected_count, data, inactive, pub_seen, read_pc,
                 seen, held, value>>

(* The publishing compare-exchange replaces the word without comparing it. *)
Mut_PublishExchangeBlind ==
  /\ pub_pc = "exchange"
  /\ state' = Flip(pub_seen)
  /\ pub_pc' = "idle"
  /\ UNCHANGED <<buffers, rejected_count, data, inactive, pub_seen, index,
                 read_pc, seen, held, value>>

(* The compare-exchange loop: give up if another publisher flipped the     *)
(* word, else flip it, else take the observed word and try again.          *)
PublishExchange ==
  /\ pub_pc = "exchange"
  /\ IF Other(Active(pub_seen)) # inactive
       THEN /\ rejected_count' = (rejected_count + 1) % Modulus
            /\ pub_pc' = "idle"
            /\ UNCHANGED <<state, pub_seen>>
       ELSE /\ state' = IF state = pub_seen THEN Flip(pub_seen) ELSE state
            /\ pub_pc' = IF state = pub_seen THEN "idle" ELSE pub_pc
            /\ pub_seen' = state
            /\ UNCHANGED rejected_count
  /\ UNCHANGED <<buffers, data, inactive, index, read_pc, seen, held, value>>

Publisher ==
  \/ PublishRejected
  \/ \E d \in Image : PublishBegin(d)
  \/ PublishCopy
  \/ PublishExchange
-----------------------------------------------------------------------------
(* lib_regmap_read_current on a page it has not latched: acquire loads the *)
(* word.                                                                   *)
AcquireLoad(r) ==
  /\ read_pc[r] = "idle"
  /\ held[r] = NoBuffer
  /\ seen' = [seen EXCEPT ![r] = state]
  /\ read_pc' = [read_pc EXCEPT ![r] = "exchange"]
  /\ UNCHANGED <<state, buffers, rejected_count, publisher, held, value>>

Saturated(word) == ReaderCount(word, Active(word)) = ReaderMax

(* No reader can be added: the read returns 0xFF. *)
AcquireFail(r) ==
  /\ read_pc[r] = "exchange"
  /\ Saturated(seen[r])
  /\ read_pc' = [read_pc EXCEPT ![r] = "idle"]
  /\ value' = [value EXCEPT ![r] = Unmapped]
  /\ UNCHANGED <<state, buffers, rejected_count, publisher, seen, held>>

(* The reader is counted without the saturation test. *)
Mut_AcquireExchangeUnbounded(r) ==
  /\ read_pc[r] = "exchange"
  /\ IF state = seen[r]
       THEN /\ state' = state + ReaderOne(Active(seen[r]))
            /\ held' = [held EXCEPT ![r] = Active(seen[r])]
            /\ read_pc' = [read_pc EXCEPT ![r] = "idle"]
            /\ UNCHANGED seen
       ELSE /\ seen' = [seen EXCEPT ![r] = state]
            /\ UNCHANGED <<state, held, read_pc>>
  /\ UNCHANGED <<buffers, rejected_count, publisher, value>>

(* The compare-exchange that counts the reader in, or the retry. *)
AcquireExchange(r) ==
  /\ read_pc[r] = "exchange"
  /\ ~ Saturated(seen[r])
  /\ IF state = seen[r]
       THEN /\ state' = state + ReaderOne(Active(seen[r]))
            /\ held' = [held EXCEPT ![r] = Active(seen[r])]
            /\ read_pc' = [read_pc EXCEPT ![r] = "idle"]
            /\ UNCHANGED seen
       ELSE /\ seen' = [seen EXCEPT ![r] = state]
            /\ UNCHANGED <<state, held, read_pc>>
  /\ UNCHANGED <<buffers, rejected_count, publisher, value>>

(* lib_regmap_read_current's byte access through the latch. *)
ReadByte(r, o) ==
  /\ held[r] # NoBuffer
  /\ value' = [value EXCEPT ![r] = buffers[held[r]][o]]
  /\ UNCHANGED <<state, buffers, rejected_count, publisher, read_pc, seen, held>>

(* lib_regmap_end_read: the fetch-sub, then the latch is forgotten. *)
Release(r) ==
  /\ held[r] # NoBuffer
  /\ state' = state - ReaderOne(held[r])
  /\ held' = [held EXCEPT ![r] = NoBuffer]
  /\ UNCHANGED <<buffers, rejected_count, publisher, read_pc, seen, value>>

Reader(r) ==
  \/ AcquireLoad(r)
  \/ AcquireFail(r)
  \/ AcquireExchange(r)
  \/ \E o \in Offsets : ReadByte(r, o)
  \/ Release(r)

Next == Publisher \/ \E r \in Readers : Reader(r)

Spec == Init /\ [][Next]_vars
-----------------------------------------------------------------------------
Holders(buffer) == {r \in Readers : held[r] = buffer}

(* The type invariant; the word's value is constrained by CountsExact. *)
TypeOK ==
  /\ state \in Nat
  /\ buffers \in [0 .. 1 -> Image]
  /\ rejected_count \in 0 .. Modulus - 1
  /\ pub_pc \in {"idle", "copy", "exchange"}
  /\ data \in Image
  /\ inactive \in 0 .. 1
  /\ pub_seen \in Nat
  /\ index \in 0 .. Length
  /\ read_pc \in [Readers -> {"idle", "exchange"}]
  /\ seen \in [Readers -> Nat]
  /\ held \in [Readers -> {0, 1, NoBuffer}]
  /\ value \in [Readers -> Value \cup {Unmapped}]

(* Whatever interrupts whatever, the two counts packed into the word are   *)
(* the numbers of readers holding each buffer: no count is lost, borrows   *)
(* from its neighbour or carries into it.                                  *)
CountsExact ==
  /\ \A b \in 0 .. 1 : Cardinality(Holders(b)) <= ReaderMax
  /\ state = Active(state) + 2 * Cardinality(Holders(0))
                           + 2 * Field * Cardinality(Holders(1))

(* While publish copies, its target buffer is not the published one and no *)
(* reader holds it, although readers come and go after the check; and the  *)
(* give-up branch of its exchange loop is never needed with one publisher. *)
CopyUndisturbed ==
  pub_pc # "idle" =>
    /\ inactive = Other(Active(state))
    /\ inactive = Other(Active(pub_seen))
    /\ Holders(inactive) = {}
    /\ \A o \in 0 .. index - 1 : buffers[inactive][o] = data[o]

SnapshotSafe == TypeOK /\ CountsExact /\ CopyUndisturbed

(* An image held by a reader never changes under it. *)
HeldImageStable ==
  [][\A r \in Readers :
       held[r] # NoBuffer => buffers'[held[r]] = buffers[held[r]]]_vars

Snapshot == INSTANCE SnapshotRegister WITH
  published <- buffers[Active(state)],
  latch <- [r \in Readers |->
              IF held[r] = NoBuffer THEN NoBuffer
              ELSE [image |-> buffers[held[r]], current |-> held[r] = Active(state)]],
  NoLatch <- NoBuffer,
  rejected <- rejected_count

(* The page implements the snapshot register: multi-byte values read in    *)
(* one transaction are coherent, a reader latches the newest publication,  *)
(* and a publication is refused exactly while a superseded image is held.  *)
ImplementsRegister == Snapshot!Spec
=============================================================================
