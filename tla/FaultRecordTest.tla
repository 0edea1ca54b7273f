--------------------------- MODULE FaultRecordTest ---------------------------
(***************************************************************************)
(* app/fault_record_test/main.c over Ticker, from reset to reset: without  *)
(* a retained fault it raises one, which the HardFault handler records     *)
(* before it resets the chip; with one it blinks and stays up.             *)
(*                                                                         *)
(* The record is what CrashRecord shows of it: not valid, valid without or *)
(* with a fault, and not valid from the first store of a capture, or of a  *)
(* rewrite at boot, to the last one.                                       *)
(***************************************************************************)
EXTENDS Ticker

CONSTANTS
  Period,       \* FAULT_RECORD_TEST_RETAINED_BLINK_PERIOD_MS
  MaxResets     \* bound: resets and power losses from outside

PeriodFits ==
  MaxResets \in Nat /\ Period \in Nat /\ Period + 2 * MaxBusy < Modulus \div 2

VARIABLES
  record,           \* g_crash_record: "invalid", "boot" or "fault"
  pending,          \* what the routine that is writing it will leave there
  pc,
  next_toggle_ms,
  led,
  raised,           \* udf was executed, and nothing but the program itself
                    \* has touched the record since
  resets            \* from outside, so far

vars == <<ticker, record, pending, pc, next_toggle_ms, led, raised, resets>>
app == <<next_toggle_ms, led>>

(* Reset_Handler and lib_crash_note_boot: what is valid is rewritten as it *)
(* is, anything else as a record of a boot.                                *)
Boot(r) == IF r = "fault" THEN "fault" ELSE "boot"

Init ==
  /\ TickerInit
  /\ record = "invalid" /\ pending = "boot"
  /\ pc = "start" /\ next_toggle_ms = 0 /\ led = FALSE
  /\ raised = FALSE /\ resets = 0

Step(from, to) == ~ asleep /\ pc = from /\ pc' = to

(* Everything but the record starts anew. *)
Restart(r) ==
  /\ g_now_ms' = 0 /\ ticking' = FALSE /\ asleep' = FALSE /\ busy' = 0
  /\ wdt' = FALSE /\ unfed' = 0
  /\ pc' = "start" /\ pending' = Boot(r) /\ record' = r
  /\ next_toggle_ms' = 0 /\ led' = FALSE
-----------------------------------------------------------------------------
(* A routine makes its first store to the record, and its last one. *)
Begin ==
  /\ pc \in {"start", "capture"} /\ record' = "invalid"
  /\ pc' = IF pc = "start" THEN "starting" ELSE "capturing"
  /\ UNCHANGED <<ticker, pending, app, raised, resets>>

BootNoted ==
  /\ Step("starting", "board") /\ record' = pending
  /\ UNCHANGED <<ticker, pending, app, raised, resets>>

(* crash_capture_from_values resets the chip when the record is committed. *)
Mut_CapturedBoot == "boot"
Captured == "fault"

CaptureDone == pc = "capturing" /\ Restart(Captured) /\ UNCHANGED <<raised, resets>>

(* board_init, hal_timer_init_1ms and hal_wdt_init; failure lights the LED *)
(* for good.                                                               *)
FailUnless(ok, from, to) ==
  /\ Step(from, IF ok THEN to ELSE "failed")
  /\ led' = ~ ok
  /\ UNCHANGED <<record, pending, next_toggle_ms, raised, resets>>

BoardInit(ok) == FailUnless(ok, "board", "timer") /\ UNCHANGED ticker
InitTimer(ok) == FailUnless(ok, "timer", "wdt") /\ TimerInit(ok)
InitWdt(ok) == FailUnless(ok, "wdt", "decide") /\ WdtInit(ok)

(* board_crash_has_fault: lib_crash_has_fault of the record. *)
Mut_HasFaultIfValid == record # "invalid"
HasFault == record = "fault"

Decide ==
  /\ Step("decide", IF HasFault THEN "reload" ELSE "udf")
  /\ UNCHANGED <<ticker, record, pending, app, raised, resets>>

(* udf #0, and the HardFault handler up to its first store. *)
RaiseFault ==
  /\ Step("udf", "capture") /\ raised' = TRUE /\ pending' = "fault"
  /\ UNCHANGED <<ticker, record, app, resets>>

(* fault_record_test_indicate_retained_fault *)
Reload ==
  /\ Step("reload", "kick") /\ next_toggle_ms' = Deadline(Period)
  /\ UNCHANGED <<ticker, record, pending, led, raised, resets>>

Check ==
  /\ Step("check", IF DeadlineReached(next_toggle_ms) THEN "toggle" ELSE "kick")
  /\ UNCHANGED <<ticker, record, pending, app, raised, resets>>

Toggle ==
  /\ Step("toggle", "reload") /\ led' = ~ led
  /\ UNCHANGED <<ticker, record, pending, next_toggle_ms, raised, resets>>

KickWdt ==
  /\ Step("kick", "wait") /\ Kick
  /\ UNCHANGED <<record, pending, app, raised, resets>>

WaitForTick ==
  /\ Step("wait", "check") \/ Step("failed", "failed")
  /\ Wait
  /\ UNCHANGED <<record, pending, app, raised, resets>>
-----------------------------------------------------------------------------
(* External: a pin or watchdog reset leaves the record as it is, which is  *)
(* not valid in the middle of a rewrite; a power loss ruins it or does not. *)
Reset == Restart(record) /\ raised' = (raised /\ record = "fault")

Disturbance ==
  /\ resets < MaxResets /\ resets' = resets + 1
  /\ Reset \/ (Restart("invalid") /\ raised' = FALSE)

Tick ==
  /\ pc \notin {"capture", "capturing", "start", "starting"} /\ SysTick
  /\ UNCHANGED <<record, pending, pc, app, raised, resets>>

Main ==
  \/ Begin \/ BootNoted \/ CaptureDone
  \/ \E ok \in BOOLEAN : BoardInit(ok) \/ InitTimer(ok) \/ InitWdt(ok)
  \/ Decide \/ RaiseFault \/ Reload \/ Check \/ Toggle \/ KickWdt \/ WaitForTick

Next == Main \/ Tick \/ Disturbance

(* The processor runs and SysTick counts. *)
Spec == Init /\ [][Next]_vars /\ WF_vars(Main) /\ WF_vars(Tick)
-----------------------------------------------------------------------------
(* The type invariant. *)
TypeOK ==
  /\ TickerTypeOK
  /\ record \in {"invalid", "boot", "fault"} /\ pending \in {"boot", "fault"}
  /\ pc \in {"start", "starting", "board", "timer", "wdt", "decide", "udf", "capture",
             "capturing", "reload", "check", "toggle", "kick", "wait", "failed"}
  /\ next_toggle_ms \in 0 .. Modulus - 1 /\ led \in BOOLEAN /\ raised \in BOOLEAN
  /\ resets \in 0 .. MaxResets

(* The test raises its fault once: not again until something outside has   *)
(* ruined the record (docs/bringup_lp_mspm0c1106.md:103-106, 110-111).     *)
FaultsOnce == pc = "udf" => ~ raised

(* Blinking means that there is a fault to be read, and it stays: the      *)
(* watchdog does not end the loop.                                         *)
BlinkShowsRecord ==
  pc \in {"reload", "check", "toggle", "kick", "wait"} =>
    record = "fault" /\ wdt /\ unfed < WdtPeriod

FaultReported == TypeOK /\ FaultsOnce /\ BlinkShowsRecord

(* After the last disturbance the test ends in the blinking that reports   *)
(* the fault, or in a steady LED: there is no loop of resets.              *)
ComesToRest == <>[](pc = "failed" /\ led) \/ ([]<>led /\ []<>~ led)
=============================================================================
