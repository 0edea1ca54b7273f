------------------------------ MODULE RingFifo ------------------------------
(***************************************************************************)
(* What lib_ringbuf (and every queue built like it) promises its two       *)
(* users: a bounded first-in first-out queue whose four outcomes are each  *)
(* one indivisible step.                                                   *)
(***************************************************************************)
EXTENDS Naturals, Sequences

CONSTANTS
  Capacity,     \* how many elements the queue holds
  Modulus,      \* number of values of the uint32_t drop counter
  Byte,         \* the elements
  NoByte        \* "try_pop returned false"

VARIABLES
  queue,        \* accepted and not yet delivered, oldest first
  dropped,      \* the drop counter
  push_result,  \* what the last finished try_push returned
  pop_result    \* what the last finished try_pop delivered, or NoByte

vars == <<queue, dropped, push_result, pop_result>>

Init ==
  /\ queue = << >>
  /\ dropped = 0
  /\ push_result = FALSE
  /\ pop_result = NoByte

(* try_push of b into a queue with a free slot. *)
Push(b) ==
  /\ Len(queue) < Capacity
  /\ queue' = Append(queue, b)
  /\ push_result' = TRUE
  /\ UNCHANGED <<dropped, pop_result>>

(* try_push into a full queue: counted, and nothing else changes. *)
PushRejected ==
  /\ Len(queue) = Capacity
  /\ dropped' = (dropped + 1) % Modulus
  /\ push_result' = FALSE
  /\ UNCHANGED <<queue, pop_result>>

(* try_pop delivers the oldest element. *)
Pop ==
  /\ Len(queue) > 0
  /\ pop_result' = Head(queue)
  /\ queue' = Tail(queue)
  /\ UNCHANGED <<dropped, push_result>>

(* try_pop of an empty queue. *)
PopEmpty ==
  /\ Len(queue) = 0
  /\ pop_result' = NoByte
  /\ UNCHANGED <<queue, dropped, push_result>>

Next == (\E b \in Byte : Push(b)) \/ PushRejected \/ Pop \/ PopEmpty

Spec == Init /\ [][Next]_vars
=============================================================================
