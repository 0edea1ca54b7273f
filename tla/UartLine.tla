------------------------------ MODULE UartLine ------------------------------
(***************************************************************************)
(* What hal_uart0_tx_write promises its caller: an accepted byte is put on *)
(* the line, once, in the order of acceptance, and sooner or later.        *)
(***************************************************************************)
EXTENDS Naturals, Sequences

CONSTANTS
  Byte,     \* what may be written
  NoByte,   \* nothing sent yet
  Bound     \* most bytes that can be accepted and not yet sent

VARIABLES
  pending,  \* accepted and not yet on the line, oldest first
  line      \* the byte sent last

vars == <<pending, line>>

Init == pending = << >> /\ line = NoByte

Accept(b) ==
  /\ Len(pending) < Bound
  /\ pending' = Append(pending, b)
  /\ UNCHANGED line

Send ==
  /\ pending # << >>
  /\ line' = Head(pending)
  /\ pending' = Tail(pending)

Next == (\E b \in Byte : Accept(b)) \/ Send

(* What is sent, and in which order.  Spec adds that it is sent at all. *)
InOrder == Init /\ [][Next]_vars

Spec == InOrder /\ WF_vars(Send)
=============================================================================
