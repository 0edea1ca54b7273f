------------------------------- MODULE UartTx -------------------------------
(***************************************************************************)
(* hal/hal_uart.c: interrupt-driven UART0 transmission.  The thread pushes *)
(* into a lib_ringbuf (module RingBuf) and arms the interrupt; the ISR     *)
(* moves bytes from the ring to the hardware FIFO and disarms itself when  *)
(* the ring is empty.  The ISR preempts the thread between any two of its  *)
(* accesses, never the reverse; the UART shifts bytes out at any time.     *)
(***************************************************************************)
EXTENDS Integers, Sequences

CONSTANTS
  Capacity, Modulus, Byte, NoByte,  \* as in RingBuf
  FifoDepth,   \* depth of the UART's transmit FIFO
  FifoLevel,   \* TXIFLSEL_LVL_1_2: the level at which TXINT is raised
  MaxWrite     \* bound: longest hal_uart0_tx_write considered

ASSUME UartAssumption ==
  /\ Capacity \in Nat \ {0} /\ Modulus \in Nat
  /\ Capacity < Modulus /\ Modulus % Capacity = 0
  /\ NoByte \notin Byte
  /\ FifoDepth \in Nat /\ FifoLevel \in Nat /\ FifoLevel < FifoDepth
  /\ MaxWrite \in Nat

VARIABLES
  storage, write_index, read_index, dropped_count, push_pc, push_byte,
  push_result, pop_pc, pop_byte, pop_result,   \* g_uart0_tx_queue
  main_pc,     \* the thread: idle, in the push loop, about to arm TXINT
  remaining,   \* length - accepted of the running write
  accepted,    \* whether the running write has accepted a byte
  isr_pc,      \* the ISR: off, test TXFF, pop, put, disable
  txfifo,      \* the UART's transmit FIFO, oldest byte first
  imask,       \* CPU_INT.IMASK.TXINT
  ris,         \* CPU_INT.RIS.TXINT
  nvic,        \* the NVIC's pending bit of UART0_INT_IRQn
  line         \* the byte last shifted out

ring == <<storage, write_index, read_index, dropped_count, push_pc, push_byte,
          push_result, pop_pc, pop_byte, pop_result>>
thread == <<main_pc, remaining, accepted>>
irq == <<imask, ris, nvic>>
vars == <<ring, thread, isr_pc, txfifo, irq, line>>

Ring == INSTANCE RingBuf
-----------------------------------------------------------------------------
(* The interrupt line of the UART is level sensitive and the NVIC latches  *)
(* it: once raised, the ISR is entered even if the level has gone again.   *)
Signal(mask, raw) ==
  /\ imask' = mask
  /\ ris' = raw
  /\ nvic' = (nvic \/ (mask /\ raw))

(* hal_uart0_tx_enable_interrupt, under PRIMASK: unmask TXINT and raise it *)
(* by software.                                                            *)
Mut_EnableInterruptNoKick == Signal(TRUE, ris)
EnableInterrupt == Signal(TRUE, TRUE)

(* hal_uart0_tx_disable_interrupt *)
Mut_DisableInterruptNever == UNCHANGED irq
DisableInterrupt == Signal(FALSE, ris)

(* hal_uart0_tx_init: ICLR and IMASK = 0, FIFO empty, nothing pending. *)
Init ==
  /\ Ring!Init
  /\ main_pc = "idle" /\ remaining = 0 /\ accepted = FALSE
  /\ isr_pc = "off"
  /\ txfifo = << >>
  /\ imask = FALSE /\ ris = FALSE /\ nvic = FALSE
  /\ line = NoByte
-----------------------------------------------------------------------------
(* The thread runs only while no ISR does. *)
WriteBegin(n) ==
  /\ isr_pc = "off"
  /\ main_pc = "idle"
  /\ main_pc' = "push"
  /\ remaining' = n
  /\ accepted' = FALSE
  /\ UNCHANGED <<ring, isr_pc, txfifo, irq, line>>

(* One step of lib_ringbuf_try_push(data[accepted]). *)
WritePush ==
  /\ isr_pc = "off"
  /\ main_pc = "push"
  /\ remaining > 0
  /\ \/ /\ \/ \E b \in Byte : Ring!PushTest(b)
           \/ Ring!PushStore
        /\ UNCHANGED thread
     \/ /\ Ring!PushPublish
        /\ remaining' = remaining - 1
        /\ accepted' = TRUE
        /\ UNCHANGED main_pc
  /\ UNCHANGED <<isr_pc, txfifo, irq, line>>

(* The first push that fails ends the loop; all bytes pushed ends it too. *)
Mut_WriteRejectedReturns ==
  /\ isr_pc = "off"
  /\ main_pc = "push"
  /\ remaining > 0
  /\ Ring!PushRejected
  /\ remaining' = 0
  /\ accepted' = FALSE
  /\ UNCHANGED <<main_pc, isr_pc, txfifo, irq, line>>

WriteRejected ==
  /\ isr_pc = "off"
  /\ main_pc = "push"
  /\ remaining > 0
  /\ Ring!PushRejected
  /\ remaining' = 0
  /\ UNCHANGED <<main_pc, accepted, isr_pc, txfifo, irq, line>>

(* hal_uart0_tx_write enables the interrupt when it accepted a byte. *)
WriteEnd ==
  /\ isr_pc = "off"
  /\ main_pc = "push"
  /\ remaining = 0
  /\ main_pc' = "idle"
  /\ IF accepted THEN EnableInterrupt ELSE UNCHANGED irq
  /\ UNCHANGED <<ring, remaining, accepted, isr_pc, txfifo, line>>

Thread == WritePush \/ WriteRejected \/ WriteEnd
-----------------------------------------------------------------------------
(* UART0_IRQHandler: reading IIDX names TXINT and clears it, or finds that *)
(* nothing enabled is raised any more and does nothing.                    *)
IsrEnter ==
  /\ isr_pc = "off"
  /\ nvic
  /\ nvic' = FALSE
  /\ IF imask /\ ris THEN ris' = FALSE /\ isr_pc' = "test"
                     ELSE UNCHANGED <<ris, isr_pc>>
  /\ UNCHANGED <<ring, thread, txfifo, imask, line>>

(* hal_uart0_tx_service's loop condition: stop when the FIFO is full. *)
IsrTest ==
  /\ isr_pc = "test"
  /\ isr_pc' = IF Len(txfifo) = FifoDepth THEN "off" ELSE "pop"
  /\ UNCHANGED <<ring, thread, txfifo, irq, line>>

(* lib_ringbuf_try_pop, one access at a time. *)
IsrPop ==
  /\ isr_pc = "pop"
  /\ \/ Ring!PopTest /\ UNCHANGED isr_pc
     \/ Ring!PopCopy /\ UNCHANGED isr_pc
     \/ Ring!PopAdvance /\ isr_pc' = "put"
     \/ Ring!PopEmpty /\ isr_pc' = "disable"
  /\ UNCHANGED <<thread, txfifo, irq, line>>

(* UART0->TXDATA = byte. *)
Mut_IsrPutNoTest ==
  /\ isr_pc = "put"
  /\ txfifo' = Append(txfifo, pop_result)
  /\ isr_pc' = "pop"
  /\ UNCHANGED <<ring, thread, irq, line>>

IsrPut ==
  /\ isr_pc = "put"
  /\ txfifo' = Append(txfifo, pop_result)
  /\ isr_pc' = "test"
  /\ UNCHANGED <<ring, thread, irq, line>>

(* The ring was found empty. *)
IsrDisable ==
  /\ isr_pc = "disable"
  /\ DisableInterrupt
  /\ isr_pc' = "off"
  /\ UNCHANGED <<ring, thread, txfifo, line>>

Isr == IsrEnter \/ IsrTest \/ IsrPop \/ IsrPut \/ IsrDisable
-----------------------------------------------------------------------------
(* The UART shifts the oldest byte out.  It raises TXINT when the level    *)
(* falls to FifoLevel; at lower levels it may or may not raise it again.   *)
Transmit ==
  /\ txfifo # << >>
  /\ line' = Head(txfifo)
  /\ txfifo' = Tail(txfifo)
  /\ \/ Len(txfifo) - 1 <= FifoLevel /\ Signal(imask, TRUE)
     \/ Len(txfifo) - 1 # FifoLevel /\ UNCHANGED irq
  /\ UNCHANGED <<ring, thread, isr_pc>>

Next ==
  \/ \E n \in 0 .. MaxWrite : WriteBegin(n)
  \/ Thread
  \/ Isr
  \/ Transmit

(* The CPU runs (the ISR when it is pending, the thread otherwise) and the *)
(* UART shifts; nothing makes the application start another write.         *)
Fairness == WF_vars(Thread) /\ WF_vars(Isr) /\ WF_vars(Transmit)

Spec == Init /\ [][Next]_vars /\ Fairness
-----------------------------------------------------------------------------
(* The type invariant. *)
TypeOK ==
  /\ Ring!TypeOK
  /\ main_pc \in {"idle", "push"}
  /\ remaining \in 0 .. MaxWrite
  /\ accepted \in BOOLEAN
  /\ isr_pc \in {"off", "test", "pop", "put", "disable"}
  /\ txfifo \in Seq(Byte) /\ Len(txfifo) <= FifoDepth
  /\ imask \in BOOLEAN /\ ris \in BOOLEAN /\ nvic \in BOOLEAN
  /\ line \in Byte \cup {NoByte}

(* The ISR never writes TXDATA of a full FIFO (the byte would be lost): it *)
(* tests FULL before every write, and only the transmitter, which drains   *)
(* the FIFO, acts between the test and the write.                          *)
NoFifoOverrun ==
  /\ TypeOK
  /\ isr_pc = "put" => Len(txfifo) < FifoDepth

(* No lost wakeup: when the thread has returned from its write and bytes   *)
(* are still in the ring, TXINT is unmasked, and it is raised, or still    *)
(* has a FIFO level to fall through.                                       *)
NoLostWakeup ==
  (main_pc = "idle" /\ isr_pc = "off" /\ Ring!Used > 0) =>
    imask /\ (nvic \/ ris \/ Len(txfifo) > FifoLevel)

(* The byte the ISR has popped and not yet written to TXDATA. *)
InHand == IF isr_pc = "put" THEN <<pop_result>> ELSE << >>

Line == INSTANCE UartLine WITH
  pending <- txfifo \o InHand \o Ring!Contents,
  Bound <- Capacity + FifoDepth

(* The driver implements the ordered lossless line: every byte             *)
(* hal_uart0_tx_write accepted is eventually shifted out, exactly once and *)
(* in order.                                                               *)
ImplementsLine == Line!Spec

(* Once the application stops writing, the interrupt ends up masked with   *)
(* everything sent: an idle UART does not keep interrupting.               *)
GoesQuiet ==
  <>[](main_pc = "idle") =>
    <>[](~ imask /\ isr_pc = "off" /\ txfifo = << >> /\ Ring!Used = 0)
=============================================================================
