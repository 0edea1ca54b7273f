------------------------------ MODULE RingBuf -------------------------------
(***************************************************************************)
(* lib/lib_ringbuf.c: a single-producer single-consumer byte ring shared   *)
(* by a thread and an interrupt handler.  Indices run freely modulo 2^32   *)
(* (here Modulus) and are reduced to a slot only when storage is touched.  *)
(*                                                                         *)
(* try_push and try_pop are split at every access to a location the other  *)
(* side also accesses, and the two sides interleave freely.  This covers   *)
(* both users in the repository: thread producer and ISR consumer          *)
(* (hal_uart.c), and any ISR producer with a thread consumer.              *)
(***************************************************************************)
EXTENDS Integers, Sequences

CONSTANTS
  Capacity,   \* ring->capacity
  Modulus,    \* number of values of a uint32_t: 2^32 on the target
  Byte,       \* the bytes a producer offers
  NoByte      \* "no byte": a slot never written, a try_pop that failed

(* lib_ringbuf_init accepts only powers of two; a uint32_t power of two is *)
(* smaller than 2^32 and divides it.  Only these consequences are needed.  *)
ASSUME CapacityAssumption ==
  /\ Capacity \in Nat \ {0}
  /\ Modulus \in Nat
  /\ Capacity < Modulus
  /\ Modulus % Capacity = 0

ASSUME ByteAssumption == NoByte \notin Byte

VARIABLES
  storage,        \* ring->storage
  write_index,    \* ring->write_index, written by the producer only
  read_index,     \* ring->read_index, written by the consumer only
  dropped_count,  \* ring->dropped_count, written by the producer only
  push_pc,        \* where the producer is inside try_push
  push_byte,      \* try_push's argument
  push_result,    \* what the last finished try_push returned
  pop_pc,         \* where the consumer is inside try_pop
  pop_byte,       \* try_pop's *byte, already copied but not yet consumed
  pop_result      \* byte delivered by the last finished try_pop, or NoByte

producerVars == <<push_pc, push_byte, push_result>>
consumerVars == <<pop_pc, pop_byte, pop_result>>
vars == <<storage, write_index, read_index, dropped_count,
          producerVars, consumerVars>>

Indices == 0 .. Modulus - 1
Slots == 0 .. Capacity - 1
-----------------------------------------------------------------------------
(* index & ring->mask, with mask = capacity - 1 and capacity a power of 2. *)
Mut_SlotShort(index) == index % (IF Capacity > 1 THEN Capacity - 1 ELSE 1)
Slot(index) == index % Capacity

(* uint32_t arithmetic. *)
Increment(index) == (index + 1) % Modulus
Distance(from, to) == (to - from) % Modulus

(* Number of published, unconsumed bytes. *)
Used == Distance(read_index, write_index)

IsFull == Used = Capacity
IsEmpty == read_index = write_index
-----------------------------------------------------------------------------
(* lib_ringbuf_init.  Storage contents are whatever the caller provides;   *)
(* nothing published refers to them.                                       *)
Init ==
  /\ storage = [s \in Slots |-> NoByte]
  /\ write_index = 0
  /\ read_index = 0
  /\ dropped_count = 0
  /\ push_pc = "idle" /\ push_byte = NoByte /\ push_result = FALSE
  /\ pop_pc = "idle" /\ pop_byte = NoByte /\ pop_result = NoByte

(* try_push on a full ring: count the drop and return false. *)
PushRejected ==
  /\ push_pc = "idle"
  /\ IsFull
  /\ dropped_count' = Increment(dropped_count)
  /\ push_result' = FALSE
  /\ UNCHANGED <<storage, write_index, read_index, push_pc, push_byte,
                 consumerVars>>

(* try_push reads read_index once and finds a free slot. *)
PushTest(b) ==
  /\ push_pc = "idle"
  /\ ~ IsFull
  /\ push_pc' = "store"
  /\ push_byte' = b
  /\ UNCHANGED <<storage, write_index, read_index, dropped_count,
                 push_result, consumerVars>>

(* The byte is stored, and the fence keeps the store before the publish. *)
PushStore ==
  /\ push_pc = "store"
  /\ storage' = [storage EXCEPT ![Slot(write_index)] = push_byte]
  /\ push_pc' = "publish"
  /\ UNCHANGED <<write_index, read_index, dropped_count, push_byte,
                 push_result, consumerVars>>

(* The new write_index makes the byte visible; try_push returns true. *)
PushPublish ==
  /\ push_pc = "publish"
  /\ write_index' = Increment(write_index)
  /\ push_result' = TRUE
  /\ push_pc' = "idle"
  /\ push_byte' = NoByte
  /\ UNCHANGED <<storage, read_index, dropped_count, consumerVars>>

(* try_pop of an empty ring returns false. *)
PopEmpty ==
  /\ pop_pc = "idle"
  /\ IsEmpty
  /\ pop_result' = NoByte
  /\ UNCHANGED <<storage, write_index, read_index, dropped_count, pop_pc,
                 pop_byte, producerVars>>

(* try_pop reads write_index once and finds a byte. *)
PopTest ==
  /\ pop_pc = "idle"
  /\ ~ IsEmpty
  /\ pop_pc' = "copy"
  /\ UNCHANGED <<storage, write_index, read_index, dropped_count, pop_byte,
                 pop_result, producerVars>>

(* The slot is given back before it has been read. *)
Mut_PopCopyLate ==
  /\ pop_pc = "copy"
  /\ read_index' = Increment(read_index)
  /\ pop_byte' = storage[Slot(read_index)]
  /\ pop_pc' = "advance"
  /\ UNCHANGED <<storage, write_index, dropped_count, pop_result,
                 producerVars>>

PopCopy ==
  /\ pop_pc = "copy"
  /\ pop_byte' = storage[Slot(read_index)]
  /\ pop_pc' = "advance"
  /\ UNCHANGED <<storage, write_index, read_index, dropped_count, pop_result,
                 producerVars>>

(* The new read_index gives the slot back; try_pop returns true. *)
PopAdvance ==
  /\ pop_pc = "advance"
  /\ read_index' = Increment(read_index)
  /\ pop_result' = pop_byte
  /\ pop_pc' = "idle"
  /\ pop_byte' = NoByte
  /\ UNCHANGED <<storage, write_index, dropped_count, producerVars>>

Producer == PushRejected \/ (\E b \in Byte : PushTest(b)) \/ PushStore \/ PushPublish
Consumer == PopEmpty \/ PopTest \/ PopCopy \/ PopAdvance
Next == Producer \/ Consumer

Spec == Init /\ [][Next]_vars
-----------------------------------------------------------------------------
(* Every variable stays in the range its C type and the code's control     *)
(* flow give it: indices are uint32_t values, slots are inside storage.    *)
TypeOK ==
  /\ storage \in [Slots -> Byte \cup {NoByte}]
  /\ write_index \in Indices
  /\ read_index \in Indices
  /\ dropped_count \in Indices
  /\ push_pc \in {"idle", "store", "publish"}
  /\ push_byte \in Byte \cup {NoByte}
  /\ push_result \in BOOLEAN
  /\ pop_pc \in {"idle", "copy", "advance"}
  /\ pop_byte \in Byte \cup {NoByte}
  /\ pop_result \in Byte \cup {NoByte}

(* The slot holding the k-th unconsumed byte, k counted from zero. *)
UnreadSlot(k) == Slot((read_index + k) % Modulus)

(* The content of the ring as its users see it. *)
Contents == [k \in 1 .. Used |-> storage[UnreadSlot(k - 1)]]

(* The used count never exceeds the capacity, although each side decides   *)
(* on a copy of the other side's index that may already be out of date,    *)
(* and a push past its full test still has a slot of its own.              *)
NeverOverfull ==
  /\ Used <= Capacity
  /\ push_pc # "idle" => Used < Capacity
  /\ pop_pc # "idle" => Used > 0

(* try_push never writes a slot whose byte has not been consumed, so in    *)
(* particular never the slot try_pop is copying.                           *)
NoOverwrite ==
  push_pc = "store" =>
    \A k \in 0 .. Used - 1 : UnreadSlot(k) # Slot(write_index)

(* The byte in flight on either side is the byte of its slot: an           *)
(* interrupted try_push finds its own byte still stored when it publishes, *)
(* and an interrupted try_pop has copied the oldest unconsumed byte.       *)
InFlightBytes ==
  /\ push_pc # "idle" => push_byte \in Byte
  /\ push_pc = "publish" => storage[Slot(write_index)] = push_byte
  /\ pop_pc = "advance" => pop_byte = storage[Slot(read_index)]
  /\ \A k \in 0 .. Used - 1 : storage[UnreadSlot(k)] \in Byte

(* All of these together, in every interleaving and across the wrap of the *)
(* indices.                                                                *)
RingSafe == TypeOK /\ NeverOverfull /\ NoOverwrite /\ InFlightBytes

Fifo == INSTANCE RingFifo WITH
  queue <- Contents, dropped <- dropped_count

(* The ring implements the bounded queue: bytes come out once each, in     *)
(* order and unaltered, a push is refused exactly when Capacity bytes are  *)
(* waiting, and every refusal is counted.                                  *)
ImplementsFifo == Fifo!Spec
=============================================================================
