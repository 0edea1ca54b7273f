----------------------------- MODULE UartTxTest -----------------------------
(***************************************************************************)
(* app/uart_tx_test/main.c over Ticker and the UART transmitter: five      *)
(* writes with a wait for the line to drain between them, two of them a    *)
(* test of what the transmit ring accepts.  The driver (module UartTx) is  *)
(* here the number of bytes in its ring and in the FIFO.                   *)
(***************************************************************************)
EXTENDS Ticker, Sequences

CONSTANTS
  Capacity,      \* BOARD_UART_TX_QUEUE_CAPACITY
  FifoDepth,     \* depth of the UART's transmit FIFO
  DrainWait,     \* UART_TX_TEST_DRAIN_WAIT_MS
  CountModulus,  \* number of values of dropped_count
  Script         \* the writes: records [length, expect]

Verdict == {"none", "lossless", "overload"}

(* A drain wait outlasts everything the driver can hold, at the one byte   *)
(* per millisecond the line sends at least; the bursts fit and do not fit. *)
ScriptFits ==
  /\ Capacity \in Nat /\ FifoDepth \in Nat \ {0}
  /\ DrainWait \in Nat /\ DrainWait < Modulus \div 2 - 2 * MaxBusy
  /\ Capacity + FifoDepth < DrainWait
  /\ CountModulus \in Nat \ {0, 1}
  /\ Script \in Seq([length : Nat \ {0}, expect : Verdict]) \ {<< >>}
  /\ \A s \in 1 .. Len(Script) :
       /\ Script[s].expect = "lossless" => Script[s].length <= Capacity
       /\ Script[s].expect = "overload" => Script[s].length > Capacity

VARIABLES
  ring, fifo,     \* bytes in g_uart0_tx_queue and in the UART's FIFO
  armed,          \* TXINT is enabled
  shifted,        \* a byte has left the FIFO since the last tick
  dropped_count,
  pc, step,       \* where main is, and at which write of the script
  accepted,
  before,         \* drop_count_before
  deadline

uart == <<ring, fifo, armed, shifted, dropped_count>>
main == <<pc, step, accepted, before, deadline>>
vars == <<ticker, uart, main>>

Init ==
  /\ TickerInit
  /\ ring = 0 /\ fifo = 0 /\ armed = FALSE /\ shifted = FALSE /\ dropped_count = 0
  /\ pc = "init" /\ step = 1 /\ accepted = 0 /\ before = 0 /\ deadline = 0
-----------------------------------------------------------------------------
(* The UART (external): a byte leaves; room in the FIFO raises TXINT, which *)
(* wakes the thread, moves bytes and is masked when the ring is empty.     *)
Shift ==
  /\ fifo > 0
  /\ fifo' = fifo - 1 /\ shifted' = TRUE
  /\ UNCHANGED <<ticker, ring, armed, dropped_count, main>>

Service ==
  /\ armed /\ (fifo < FifoDepth \/ ring = 0)
  /\ IF ring = 0 THEN armed' = FALSE /\ UNCHANGED <<ring, fifo>>
     ELSE ring' = ring - 1 /\ fifo' = fifo + 1 /\ UNCHANGED armed
  /\ asleep' = FALSE
  /\ UNCHANGED <<g_now_ms, ticking, busy, wdt, unfed, shifted, dropped_count, main>>

(* A millisecond is longer than a byte, and than an interrupt takes. *)
Tick ==
  /\ SysTick
  /\ shifted \/ (fifo = 0 /\ ~ armed)
  /\ shifted' = FALSE
  /\ UNCHANGED <<ring, fifo, armed, dropped_count, main>>
-----------------------------------------------------------------------------
Step(from, to) == ~ asleep /\ pc = from /\ pc' = to

(* board_init, hal_timer_init_1ms and hal_wdt_init, or uart_tx_test_fail.  *)
Start(ok) ==
  /\ Step("init", IF ok THEN "write" ELSE "failed")
  /\ ticking' = ok /\ wdt' = ok
  /\ UNCHANGED <<g_now_ms, asleep, busy, unfed, uart, step, accepted, before, deadline>>

(* hal_uart0_tx_write: push until the ring is full, which counts a drop,   *)
(* or all bytes are in.                                                    *)
Push ==
  /\ Step("write", "write")
  /\ accepted < Script[step].length /\ ring < Capacity
  /\ ring' = ring + 1 /\ accepted' = accepted + 1
  /\ UNCHANGED <<ticker, fifo, armed, shifted, dropped_count, step, before, deadline>>

(* ... which then arms the interrupt. *)
Mut_ArmedAfterNot == armed
ArmedAfter == armed \/ accepted > 0

WriteEnd ==
  /\ Step("write", "verdict")
  /\ \/ accepted = Script[step].length /\ UNCHANGED dropped_count
     \/ accepted < Script[step].length /\ ring = Capacity
        /\ dropped_count' = (dropped_count + 1) % CountModulus
  /\ armed' = ArmedAfter
  /\ UNCHANGED <<ticker, ring, fifo, shifted, step, accepted, before, deadline>>

AsExpected ==
  CASE Script[step].expect = "lossless" ->
         accepted = Script[step].length /\ dropped_count = before
    [] Script[step].expect = "overload" ->
         accepted < Script[step].length /\ dropped_count # before
    [] OTHER -> TRUE

(* Then uart_tx_test_wait_ms, or uart_tx_test_fail, or the final blinking; *)
(* the last two kick and sleep for ever as Blink does and are left out.    *)
Judge ==
  /\ Step("verdict", IF ~ AsExpected THEN "failed"
                     ELSE IF step = Len(Script) THEN "blink" ELSE "wait")
  /\ deadline' = Deadline(DrainWait)
  /\ UNCHANGED <<ticker, uart, step, accepted, before>>

Wake ==
  /\ Step("wait", IF DeadlineReached(deadline) THEN "write" ELSE "kick")
  /\ IF DeadlineReached(deadline)
     THEN step' = step + 1 /\ accepted' = 0 /\ before' = dropped_count
     ELSE UNCHANGED <<step, accepted, before>>
  /\ UNCHANGED <<ticker, uart, deadline>>

Feed == Step("kick", "sleep") /\ Kick /\ UNCHANGED <<uart, step, accepted, before, deadline>>
Sleep == Step("sleep", "wait") /\ Wait /\ UNCHANGED <<uart, step, accepted, before, deadline>>

Main ==
  \/ \E ok \in BOOLEAN : Start(ok)
  \/ Push \/ WriteEnd \/ Judge \/ Wake \/ Feed \/ Sleep

Next == Main \/ Shift \/ Service \/ Tick

Spec ==
  Init /\ [][Next]_vars
  /\ WF_vars(Main) /\ WF_vars(Shift) /\ WF_vars(Service) /\ WF_vars(Tick)
-----------------------------------------------------------------------------
(* The type invariant. *)
TypeOK ==
  /\ TickerTypeOK
  /\ ring \in 0 .. Capacity /\ fifo \in 0 .. FifoDepth
  /\ armed \in BOOLEAN /\ shifted \in BOOLEAN
  /\ dropped_count \in 0 .. CountModulus - 1 /\ before \in 0 .. CountModulus - 1
  /\ pc \in {"init", "write", "verdict", "wait", "kick", "sleep", "blink", "failed"}
  /\ step \in 1 .. Len(Script)
  /\ accepted \in 0 .. Script[step].length
  /\ deadline \in 0 .. Modulus - 1

(* Every burst meets an idle transmitter: the wait before it has outlasted *)
(* all that was queued, wherever the ticks fell.                           *)
DrainedBeforeBurst ==
  (pc = "write" /\ accepted = 0) => ring = 0 /\ fifo = 0 /\ ~ armed

(* The waits keep the watchdog from expiring. *)
WatchdogFed == unfed < WdtPeriod

(* On hardware that comes up, the test reaches its final blinking: neither *)
(* verdict is a matter of timing.                                          *)
NoSpuriousFailure ==
  /\ [](TypeOK /\ DrainedBeforeBurst /\ WatchdogFed)
  /\ (pc = "write") ~> (pc = "blink")
=============================================================================
