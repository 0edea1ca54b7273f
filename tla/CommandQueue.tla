---------------------------- MODULE CommandQueue ----------------------------
(***************************************************************************)
(* The command queue of lib/lib_regmap.c: the I2C interrupt handler        *)
(* enqueues address/value pairs, the main loop pops them.  The handler     *)
(* preempts the main loop between any two of its accesses, never the       *)
(* reverse, so an enqueue is one step of the main loop's view.             *)
(***************************************************************************)
EXTENDS Integers, Sequences

CONSTANTS
  Capacity,    \* queue->capacity, a power of two
  Modulus,     \* number of values of a uint32_t
  Address,     \* the addresses and
  Value,       \* the values a command may carry
  NoCommand    \* a slot never written; try_pop returned false

Command == [address : Address, value : Value]

SizesFit ==
  /\ Capacity \in Nat \ {0} /\ Modulus \in Nat
  /\ Capacity < Modulus /\ Modulus % Capacity = 0
  /\ NoCommand \notin Command

VARIABLES
  storage, write_index, read_index, dropped_count,
  pop_pc,      \* where the main loop is inside try_pop
  command,     \* *command while it is being copied
  enqueued,    \* what the last enqueue returned
  popped       \* what the last try_pop delivered

vars == <<storage, write_index, read_index, dropped_count, pop_pc, command,
          enqueued, popped>>

Index == 0 .. Modulus - 1
Slot(index) == index % Capacity
Increment(index) == (index + 1) % Modulus
Used == (write_index - read_index) % Modulus

(* lib_regmap_command_queue_init *)
Init ==
  /\ storage = [s \in 0 .. Capacity - 1 |-> NoCommand]
  /\ write_index = 0 /\ read_index = 0 /\ dropped_count = 0
  /\ pop_pc = "idle" /\ command = NoCommand
  /\ enqueued = FALSE /\ popped = NoCommand
-----------------------------------------------------------------------------
(* lib_regmap_command_queue_enqueue *)
Mut_FullAfter == Used > Capacity
Full == Used >= Capacity

Enqueue(c) ==
  /\ enqueued' = ~ Full
  /\ IF Full
     THEN /\ dropped_count' = Increment(dropped_count)
          /\ UNCHANGED <<storage, write_index>>
     ELSE /\ storage' = [storage EXCEPT ![Slot(write_index)] = c]
          /\ write_index' = Increment(write_index)
          /\ UNCHANGED dropped_count
  /\ UNCHANGED <<read_index, pop_pc, command, popped>>

(* lib_regmap_command_queue_try_pop: compare the indices, ... *)
PopTest ==
  /\ pop_pc = "idle"
  /\ IF read_index = write_index THEN popped' = NoCommand /\ UNCHANGED pop_pc
                                 ELSE pop_pc' = "address" /\ UNCHANGED popped
  /\ UNCHANGED <<storage, write_index, read_index, dropped_count, command, enqueued>>

(* ... copy the two fields of the slot, ... *)
PopCopy ==
  /\ pop_pc \in {"address", "value"}
  /\ pop_pc' = IF pop_pc = "address" THEN "value" ELSE "advance"
  /\ command' = IF pop_pc = "address" THEN storage[Slot(read_index)]
                ELSE [command EXCEPT !.value = storage[Slot(read_index)].value]
  /\ UNCHANGED <<storage, write_index, read_index, dropped_count, enqueued, popped>>

(* ... and give it back.  Nothing but the compiler's choice keeps the copy *)
(* before this store: lib_ringbuf has a release fence here, this has none. *)
PopAdvance ==
  /\ pop_pc = "advance"
  /\ pop_pc' = "idle"
  /\ read_index' = Increment(read_index)
  /\ popped' = command /\ command' = NoCommand
  /\ UNCHANGED <<storage, write_index, dropped_count, enqueued>>

Next == (\E c \in Command : Enqueue(c)) \/ PopTest \/ PopCopy \/ PopAdvance

Spec == Init /\ [][Next]_vars
-----------------------------------------------------------------------------
(* The type invariant. *)
TypeOK ==
  /\ storage \in [0 .. Capacity - 1 -> Command \cup {NoCommand}]
  /\ write_index \in Index /\ read_index \in Index /\ dropped_count \in Index
  /\ pop_pc \in {"idle", "address", "value", "advance"}
  /\ command \in Command \cup {NoCommand}
  /\ enqueued \in BOOLEAN
  /\ popped \in Command \cup {NoCommand}

Fifo == INSTANCE RingFifo WITH
  Byte <- Command, NoByte <- NoCommand,
  queue <- [k \in 1 .. Used |-> storage[Slot((read_index + k - 1) % Modulus)]],
  dropped <- dropped_count, push_result <- enqueued, pop_result <- popped

(* The queue is the bounded one that the target's model (I2cTarget) takes  *)
(* it for: commands come out whole, once each and in the order the wire    *)
(* carried them; one is refused exactly when Capacity of them wait, and    *)
(* counted, whatever the main loop was interrupted at.                     *)
ImplementsFifo == []TypeOK /\ Fifo!Spec
=============================================================================
