---------------------------- MODULE MCPrimitives ----------------------------
(***************************************************************************)
(* The primitives below the drivers, for TLC: the byte ring, the command   *)
(* queue and the atomic helpers, which threads and handlers share, and the *)
(* memory functions.  They have no state in common; a behaviour exercises  *)
(* one of them, which Init chooses, so that each is explored by itself.    *)
(***************************************************************************)
EXTENDS RingBuf, AtomicOps, MemoryOps

CONSTANTS
  QueueCapacity, Address, Value, NoCommand   \* as in CommandQueue

VARIABLES
  exercised,
  cq_storage, cq_write_index, cq_read_index, cq_dropped_count, cq_pop_pc,
  command, enqueued, popped    \* CommandQueue

Commands == INSTANCE CommandQueue WITH
  Capacity <- QueueCapacity,
  storage <- cq_storage, write_index <- cq_write_index,
  read_index <- cq_read_index, dropped_count <- cq_dropped_count,
  pop_pc <- cq_pop_pc

ASSUME QueueAssumption == Commands!SizesFit

queue_vars == <<cq_storage, cq_write_index, cq_read_index, cq_dropped_count,
                cq_pop_pc, command, enqueued, popped>>

MCInit ==
  /\ exercised \in {"ring", "queue", "atomics", "memory"}
  /\ Init /\ Commands!Init /\ AtomicInit /\ MemoryInit
  /\ exercised # "memory" => memory = [a \in MemoryAddress |-> 0]

MCNext ==
  /\ UNCHANGED exercised
  /\ \/ /\ exercised = "ring" /\ Next
        /\ UNCHANGED <<queue_vars, atomic_vars, memory_vars>>
     \/ /\ exercised = "queue" /\ Commands!Next
        /\ UNCHANGED <<vars, atomic_vars, memory_vars>>
     \/ /\ exercised = "atomics" /\ AtomicNext
        /\ UNCHANGED <<vars, queue_vars, memory_vars>>
     \/ /\ exercised = "memory" /\ MemoryNext
        /\ UNCHANGED <<vars, queue_vars, atomic_vars>>

MCSpec ==
  MCInit /\ [][MCNext]_<<exercised, vars, queue_vars, atomic_vars, memory_vars>>
-----------------------------------------------------------------------------
(* lib_regmap's command queue is the bounded one, whatever main was        *)
(* interrupted at.                                                         *)
ImplementsQueue == Commands!ImplementsFifo
=============================================================================
