------------------------------- MODULE Ticker -------------------------------
(***************************************************************************)
(* Time as an application sees it: the millisecond tick of hal/hal_timer.c *)
(* with its wrapping deadlines, the watchdog of hal/hal_wdt.c, and the     *)
(* wait for an interrupt (arch/arch_wait.h) between two passes of a loop.  *)
(*                                                                         *)
(* Other interrupts only wake the loop early; the model leaves them out.   *)
(***************************************************************************)
EXTENDS Integers

CONSTANTS
  Modulus,     \* number of values of g_now_ms, 2^32 in the code
  WdtPeriod,   \* milliseconds after which an unfed watchdog resets the chip
  MaxBusy      \* bound: ticks that fall into one pass of a loop

ASSUME TickerAssumption ==
  /\ Modulus \in Nat \ {0} /\ Modulus % 2 = 0
  /\ WdtPeriod \in Nat \ {0}
  /\ MaxBusy \in Nat

VARIABLES
  g_now_ms,    \* written by SysTick_Handler alone once it runs
  ticking,     \* SysTick is configured
  asleep,      \* the thread is in WFI
  busy,        \* ticks since it was woken
  wdt,         \* the watchdog runs
  unfed        \* milliseconds since it was started or kicked

ticker == <<g_now_ms, ticking, asleep, busy, wdt, unfed>>

TickerInit ==
  /\ g_now_ms = 0 /\ ticking = FALSE
  /\ asleep = FALSE /\ busy = 0
  /\ wdt = FALSE /\ unfed = 0

(* SysTick_Handler, at any moment of the thread, and every millisecond.    *)
(* It ends a WFI; a tick that comes just before a WFI does not.            *)
Increment == (g_now_ms + 1) % Modulus

SysTick ==
  /\ ticking
  /\ asleep \/ busy < MaxBusy
  /\ g_now_ms' = Increment
  /\ asleep' = FALSE
  /\ busy' = IF asleep THEN 0 ELSE busy + 1
  /\ unfed' = IF wdt /\ unfed < WdtPeriod THEN unfed + 1 ELSE unfed
  /\ UNCHANGED <<ticking, wdt>>

(* hal_timer_init_1ms and hal_wdt_init, whose outcome is ok. *)
TimerInit(ok) ==
  ticking' = ok /\ g_now_ms' = 0 /\ UNCHANGED <<asleep, busy, wdt, unfed>>

WdtInit(ok) ==
  wdt' = ok /\ unfed' = 0 /\ UNCHANGED <<g_now_ms, ticking, asleep, busy>>

(* hal_wdt_kick and arch_wait_for_interrupt. *)
Mut_KickNot == UNCHANGED ticker
Kick == unfed' = 0 /\ UNCHANGED <<g_now_ms, ticking, asleep, busy, wdt>>
Wait == asleep' = TRUE /\ busy' = 0 /\ UNCHANGED <<g_now_ms, ticking, wdt, unfed>>

(* hal_timer_now_ms() + ms, and hal_timer_deadline_reached: the unsigned   *)
(* difference is below 2^31.                                               *)
Mut_DeadlineReachedPlain(deadline) == g_now_ms >= deadline
Deadline(ms) == (g_now_ms + ms) % Modulus
DeadlineReached(deadline) == (g_now_ms - deadline) % Modulus < Modulus \div 2

TickerTypeOK ==
  /\ g_now_ms \in 0 .. Modulus - 1
  /\ ticking \in BOOLEAN /\ asleep \in BOOLEAN /\ wdt \in BOOLEAN
  /\ busy \in 0 .. MaxBusy
  /\ unfed \in 0 .. WdtPeriod
=============================================================================
