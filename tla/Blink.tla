------------------------------- MODULE Blink -------------------------------
(***************************************************************************)
(* app/blink/main.c over Ticker: bring-up with a steady LED as the sign of *)
(* failure, then a loop that toggles the LED at a deadline, kicks the      *)
(* watchdog and sleeps until the next tick.                                *)
(***************************************************************************)
EXTENDS Ticker

CONSTANTS
  Period,           \* BOARD_BLINK_PERIOD_MS
  FallbackPeriod    \* BOARD_BLINK_FALLBACK_PERIOD_MS

(* A pass may be interrupted on both sides of the sleep; what is late by   *)
(* less than half the range is told from what is early.                    *)
Slack == 2 * MaxBusy

ASSUME BlinkAssumption ==
  /\ {Period, FallbackPeriod} \subseteq Nat \ {0}
  /\ \A p \in {Period, FallbackPeriod} : p + Slack < Modulus \div 2
  /\ Slack + 1 < WdtPeriod

VARIABLES
  pc,               \* where main is
  blink_period_ms,
  next_toggle_ms,
  led,
  waited            \* milliseconds since next_toggle_ms was computed

vars == <<ticker, pc, blink_period_ms, next_toggle_ms, led, waited>>

Init ==
  /\ TickerInit
  /\ pc = "board" /\ blink_period_ms = Period
  /\ next_toggle_ms = 0 /\ led = FALSE /\ waited = 0

(* A step of main, which runs while it is not asleep. *)
Step(from, to) == ~ asleep /\ pc = from /\ pc' = to

(* board_led_red_set(true) and a wait for interrupts without end. *)
FailUnless(ok, from, to) ==
  /\ Step(from, IF ok THEN to ELSE "failed")
  /\ led' = ~ ok

(* board_init by its result. *)
BoardInit(result) ==
  /\ FailUnless(result \in {"OK", "CLOCK_FALLBACK"}, "board", "timer")
  /\ blink_period_ms' = IF result = "CLOCK_FALLBACK" THEN FallbackPeriod ELSE Period
  /\ UNCHANGED <<ticker, next_toggle_ms, waited>>

InitTimer(ok) ==
  /\ FailUnless(ok, "timer", "wdt") /\ TimerInit(ok)
  /\ UNCHANGED <<blink_period_ms, next_toggle_ms, waited>>

InitWdt(ok) ==
  /\ FailUnless(ok, "wdt", "reload") /\ WdtInit(ok)
  /\ UNCHANGED <<blink_period_ms, next_toggle_ms, waited>>

(* next_toggle_ms = hal_timer_now_ms() + blink_period_ms: a new reading of *)
(* the time, which a tick may separate from the one that was compared.     *)
Reload ==
  /\ Step("reload", "kick")
  /\ next_toggle_ms' = Deadline(blink_period_ms) /\ waited' = 0
  /\ UNCHANGED <<ticker, blink_period_ms, led>>

Check ==
  /\ Step("check", IF DeadlineReached(next_toggle_ms) THEN "toggle" ELSE "kick")
  /\ UNCHANGED <<ticker, blink_period_ms, next_toggle_ms, led, waited>>

Toggle ==
  /\ Step("toggle", "reload") /\ led' = ~ led
  /\ UNCHANGED <<ticker, blink_period_ms, next_toggle_ms, waited>>

KickWdt ==
  /\ Step("kick", "wait") /\ Kick
  /\ UNCHANGED <<blink_period_ms, next_toggle_ms, led, waited>>

WaitForTick ==
  /\ Step("wait", "check") \/ Step("failed", "failed")
  /\ Wait
  /\ UNCHANGED <<blink_period_ms, next_toggle_ms, led, waited>>

Main ==
  \/ \E r \in {"OK", "CLOCK_FALLBACK", "GPIO_FAILURE", "UART_FAILURE"} : BoardInit(r)
  \/ \E ok \in BOOLEAN : InitTimer(ok) \/ InitWdt(ok)
  \/ Reload \/ Check \/ Toggle \/ KickWdt \/ WaitForTick

Tick ==
  /\ SysTick
  /\ waited' = IF pc \in {"board", "timer", "wdt", "failed"} THEN 0 ELSE waited + 1
  /\ UNCHANGED <<pc, blink_period_ms, next_toggle_ms, led>>

Next == Main \/ Tick

(* The processor runs and SysTick counts. *)
Spec == Init /\ [][Next]_vars /\ WF_vars(Main) /\ WF_vars(Tick)
-----------------------------------------------------------------------------
(* The type invariant. *)
TypeOK ==
  /\ TickerTypeOK
  /\ pc \in {"board", "timer", "wdt", "reload", "check", "toggle", "kick", "wait",
             "failed"}
  /\ blink_period_ms \in {Period, FallbackPeriod}
  /\ next_toggle_ms \in 0 .. Modulus - 1
  /\ led \in BOOLEAN
  /\ waited \in Nat

(* The LED toggles no earlier than a period after the last time, and after *)
(* bring-up nothing but its deadline toggles it, also when the millisecond *)
(* counter wraps between the two.                                          *)
NeverEarly ==
  [][(pc \notin {"board", "timer", "wdt"} /\ led' # led) =>
       waited >= blink_period_ms]_vars

(* ... and no later than a period and the ticks that two passes of the     *)
(* loop and the sleep between them may take.                               *)
NeverLate == waited <= blink_period_ms + Slack

(* The watchdog does not expire in the loop. *)
WatchdogFed == unfed < WdtPeriod

(* The loop keeps its times, wherever the ticks fall into it. *)
OnSchedule == TypeOK /\ NeverLate /\ WatchdogFed

(* What the LED shows is the truth: in the end it is steadily lit, and     *)
(* bring-up has failed, or it blinks for ever.                             *)
LedTells == <>[](pc = "failed" /\ led) \/ ([]<>led /\ []<>~ led)
=============================================================================
