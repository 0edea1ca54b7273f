---------------------------- MODULE Applications ----------------------------
(***************************************************************************)
(* The images of the repository that need no model of a bus: Blink,        *)
(* UartTxTest and FaultRecordTest over the one Ticker, the bring-up they   *)
(* begin with (BoardInit) and the main loop of the register-map demo       *)
(* (StatusPublisher).  One image is flashed, and nothing but it runs: the  *)
(* others' variables keep the values their Init gives them.                *)
(***************************************************************************)
EXTENDS Blink, Sequences

CONSTANTS
  Capacity, FifoDepth, DrainWait, CountModulus, Script,          \* UartTxTest
  RetainedPeriod, MaxResets,                                     \* FaultRecordTest
  MaxHz, SafeHz, Baud, StatusPolls, Requests, NoResult,          \* BoardInit
  Readers, Unmapped, NoLatch, ReaderMax, Base, MaxEvents         \* StatusPublisher

VARIABLES
  image,      \* which one is flashed
  ring, fifo, armed, shifted, dropped_count, test_pc, step, accepted, before,
  deadline,
  record, pending, fault_pc, fault_toggle_ms, fault_led, raised, resets,
  requested_hz, valid, osc, osc_config, selected, board_pc, attempts, g_mclk_hz,
  powered, board_led, divisor, g_writer, result, g_i2c1_claimed, opened,
  personality,
  published, latch, value, rejected, errors, unexpected, main_pc, read, last,
  status_published

blink_vars == <<pc, blink_period_ms, next_toggle_ms, led, waited>>
test_vars == <<ring, fifo, armed, shifted, dropped_count, test_pc, step, accepted,
               before, deadline>>
fault_vars == <<record, pending, fault_pc, fault_toggle_ms, fault_led, raised,
                resets>>
board_vars == <<requested_hz, valid, osc, osc_config, selected, board_pc, attempts,
                g_mclk_hz, powered, board_led, divisor, g_writer, result,
                g_i2c1_claimed, opened, personality>>
status_vars == <<published, latch, value, rejected, errors, unexpected, main_pc,
                 read, last, status_published>>
image_vars == <<image, ticker, blink_vars, test_vars, fault_vars, board_vars,
                status_vars>>

Test == INSTANCE UartTxTest WITH pc <- test_pc
Fault == INSTANCE FaultRecordTest WITH
  Period <- RetainedPeriod, pc <- fault_pc, next_toggle_ms <- fault_toggle_ms,
  led <- fault_led
Board == INSTANCE BoardInit WITH pc <- board_pc, led <- board_led
Status == INSTANCE StatusPublisher

ASSUME ImagesAssumption ==
  Test!ScriptFits /\ Fault!PeriodFits /\ Board!ClocksFit /\ Status!BytesFit

FlashedInit ==
  /\ image \in {"blink", "test", "fault", "board", "status"}
  /\ Init /\ Test!Init /\ Fault!Init /\ Board!Init /\ Status!Init
  /\ image # "board" =>
       requested_hz = MaxHz /\ valid = {} /\ osc = SafeHz /\ ~ selected
-----------------------------------------------------------------------------
Runs(name) ==
  /\ image = name /\ UNCHANGED image
  /\ name # "blink" => UNCHANGED blink_vars
  /\ name # "test" => UNCHANGED test_vars
  /\ name # "fault" => UNCHANGED fault_vars
  /\ name # "board" => UNCHANGED board_vars
  /\ name # "status" => UNCHANGED status_vars
  /\ name \in {"board", "status"} => UNCHANGED ticker

Thread ==
  \/ Runs("blink") /\ Main
  \/ Runs("test") /\ Test!Main
  \/ Runs("fault") /\ Fault!Main
  \/ Runs("board") /\ Board!Bringup
  \/ Runs("status") /\ Status!Main

Milliseconds ==
  \/ Runs("blink") /\ Tick
  \/ Runs("test") /\ Test!Tick
  \/ Runs("fault") /\ Fault!Tick

Transmitter == Runs("test") /\ Test!Shift
TransmitInterrupt == Runs("test") /\ Test!Service
Oscillator == Runs("board") /\ Board!OscSettles
EndOfRead(r) == Runs("status") /\ Status!Unlatch(r)

(* What happens when it happens: a reset, an application that opens I2C1,  *)
(* an error, a read.                                                       *)
Outside ==
  \/ Runs("fault") /\ Fault!Disturbance
  \/ \E driver \in {"target", "controller"}, config_is_valid \in BOOLEAN :
       Runs("board") /\ Board!OpenI2c1(driver, config_is_valid)
  \/ Runs("status") /\ (Status!CountError \/ Status!CountUnexpected)
  \/ \E r \in Readers : Runs("status") /\ Status!Latch(r)

FlashedNext ==
  \/ Thread \/ Milliseconds
  \/ Transmitter \/ TransmitInterrupt \/ Oscillator
  \/ \E r \in Readers : EndOfRead(r)
  \/ Outside

(* The fairness of the images: the processor runs, time passes, the UART   *)
(* shifts and interrupts, the oscillator settles, a read comes to its end. *)
FlashedSpec ==
  /\ FlashedInit /\ [][FlashedNext]_image_vars
  /\ WF_image_vars(Thread) /\ WF_image_vars(Milliseconds)
  /\ WF_image_vars(Transmitter) /\ WF_image_vars(TransmitInterrupt)
  /\ WF_image_vars(Oscillator)
  /\ \A r \in Readers : WF_image_vars(EndOfRead(r))
-----------------------------------------------------------------------------
(* What an LED shows is the truth, in both images that blink one: it is    *)
(* lit for good when bring-up has failed and blinks for ever otherwise,    *)
(* and the fault test does not end in a loop of resets.                    *)
LedsTell ==
  /\ image = "blink" => LedTells
  /\ image = "fault" => Fault!ComesToRest

(* The transmit test meets a drained transmitter at each burst, keeps the  *)
(* watchdog fed and reaches its final blinking.                            *)
TestIsSound == Test!NoSpuriousFailure

(* The fault test raises its fault once, and blinks only with a fault to   *)
(* be read.                                                                *)
FaultReported == Fault!FaultReported

(* The UART's divisor fits the clock that runs, and I2C1 belongs to the    *)
(* one driver that is open.                                                *)
BoardConsistent == Board!BoardConsistent

(* The clock that bring-up reports is the one that ends up running.        *)
ClockIsReported == image = "board" => Board!ClockIsReported

(* The status page converges to the counters.                              *)
StatusConverges == Status!StatusConverges
=============================================================================
