----------------------------- MODULE BoardInit -----------------------------
(***************************************************************************)
(* Bring-up of the board: hal_clock_init of hal/hal_clock.c, board_init of *)
(* board/lp_mspm0c1106/board_init.c with the port, LED and UART set-up it  *)
(* calls, and then the two I2C1 drivers, which an application may try to   *)
(* open in any order and any number of times over the one claim.           *)
(***************************************************************************)
EXTENDS Integers

CONSTANTS
  MaxHz,        \* HAL_CLOCK_MSPM0C1106_MAX_HZ, the SYSOSC base frequency
  SafeHz,       \* HAL_CLOCK_SAFE_HZ
  Baud,         \* BOARD_UART_BACKCHANNEL_BAUD
  StatusPolls,  \* HAL_CLOCK_STATUS_POLLS
  Requests,     \* the clocks a board may request
  NoResult      \* board_init has not returned

(* The divisor has 6 fractional bits and 22 bits in all. *)
FractionScale == 64
MaxDivisor == 4194303

(* hal_uart_baud_divisor: 16x oversampling, rounded to the nearest. *)
Divisor(clock_hz) == ((clock_hz * 8) \div Baud + 1) \div 2
DivisorValid(clock_hz) == Divisor(clock_hz) \in FractionScale .. MaxDivisor

ClocksFit ==
  /\ {MaxHz, SafeHz} \subseteq Nat \ {0} /\ MaxHz # SafeHz
  /\ Baud \in Nat \ {0} /\ StatusPolls \in Nat \ {0}

Ports == {"GPIOA", "GPIOB", "UART0"}

VARIABLES
  requested_hz,     \* BOARD_MCLK_HZ, the board's choice
  valid,            \* which of its tables are well-formed: LED, ring, UART
  osc,              \* the frequency SYSOSC runs at, 0 while it is not stable
  osc_config,       \* the frequency SYSOSCCFG asks for
  selected,         \* SYSOSC drives MCLK
  pc, attempts,     \* where bring-up is, the status polls so far
  g_mclk_hz,
  powered,          \* the peripherals reset and powered
  led,              \* the LED pin is a driven output
  divisor,          \* UART0 IBRD and FBRD, 0 before hal_uart0_tx_init
  g_writer,         \* the debug writer is set
  result,           \* what board_init returned
  g_i2c1_claimed,
  opened,           \* the I2C1 drivers whose g_initialized is set
  personality       \* what I2C1 was last set up as

clock == <<osc, osc_config, selected, attempts, g_mclk_hz>>
board == <<powered, led, divisor, g_writer, result>>
i2c1 == <<g_i2c1_claimed, opened, personality>>
vars == <<requested_hz, valid, pc, clock, board, i2c1>>

Init ==
  /\ requested_hz \in Requests
  /\ valid \in SUBSET {"led", "ring", "uart"}
  /\ osc \in {0, MaxHz, SafeHz} /\ osc_config = MaxHz /\ selected \in BOOLEAN
  /\ pc = "select" /\ attempts = 0 /\ g_mclk_hz = SafeHz
  /\ powered = {} /\ led = FALSE /\ divisor = 0 /\ g_writer = FALSE
  /\ result = NoResult
  /\ g_i2c1_claimed = FALSE /\ opened = {} /\ personality = "none"
-----------------------------------------------------------------------------
(* The oscillator (external) settles on the frequency requested last, and  *)
(* the MCLK multiplexer follows its configuration.                         *)
OscSettles ==
  /\ pc # "select"
  /\ <<osc, selected>> # <<osc_config, TRUE>>
  /\ osc' = osc_config
  /\ selected' = TRUE
  /\ UNCHANGED <<requested_hz, valid, pc, osc_config, attempts, g_mclk_hz, board, i2c1>>

(* hal_clock_set_sysosc_frequency: request, then poll CLKSTATUS. *)
Mut_SetFrequencyBase(hz) == osc_config' = MaxHz /\ attempts' = 0
SetFrequency(hz) == osc_config' = hz /\ attempts' = 0

(* hal_clock_select_sysosc_div1, then the base frequency unless the        *)
(* request is not the one this device can run at.                          *)
SelectSysosc ==
  /\ pc = "select"
  /\ IF requested_hz = MaxHz THEN pc' = "base" /\ SetFrequency(MaxHz)
                             ELSE pc' = "safe" /\ SetFrequency(SafeHz)
  /\ UNCHANGED <<requested_hz, valid, osc, selected, g_mclk_hz, board, i2c1>>

Ready == osc = osc_config /\ selected

(* The polls of the base frequency: the requested clock, or the fallback.  *)
PollBase ==
  /\ pc = "base"
  /\ \/ /\ Ready
        /\ pc' = "led" /\ g_mclk_hz' = MaxHz /\ attempts' = 0
        /\ UNCHANGED osc_config
     \/ /\ ~ Ready /\ attempts + 1 < StatusPolls
        /\ attempts' = attempts + 1
        /\ UNCHANGED <<pc, g_mclk_hz, osc_config>>
     \/ /\ ~ Ready /\ attempts + 1 = StatusPolls
        /\ pc' = "safe" /\ SetFrequency(SafeHz)
        /\ UNCHANGED g_mclk_hz
  /\ UNCHANGED <<requested_hz, valid, osc, selected, board, i2c1>>

(* The polls of the fallback, whose outcome is ignored. *)
PollSafe ==
  /\ pc = "safe"
  /\ \/ /\ Ready \/ attempts + 1 = StatusPolls
        /\ pc' = "led" /\ g_mclk_hz' = SafeHz /\ attempts' = 0
     \/ /\ ~ Ready /\ attempts + 1 < StatusPolls
        /\ attempts' = attempts + 1
        /\ UNCHANGED <<pc, g_mclk_hz>>
  /\ UNCHANGED <<requested_hz, valid, osc, osc_config, selected, board, i2c1>>
-----------------------------------------------------------------------------
Return(r) == pc' = "app" /\ result' = r

(* hal_gpio_port_reset_enable of the LED's port and hal_gpio_output_init.  *)
LedInit ==
  /\ pc = "led"
  /\ powered' = powered \cup {"GPIOA"}
  /\ led' = ("led" \in valid)
  /\ IF led' THEN pc' = "uart" /\ UNCHANGED result ELSE Return("GPIO_FAILURE")
  /\ UNCHANGED <<requested_hz, valid, clock, divisor, g_writer, i2c1>>

(* The clock the UART is configured for: hal_clock_mclk_hz(), not the one  *)
(* the board's table asks for.                                             *)
Mut_UartClockRequested == requested_hz
UartClock == g_mclk_hz

(* GPIOB, the ring, hal_uart0_tx_init and the debug writer. *)
UartInit ==
  /\ pc = "uart"
  /\ LET ok == {"ring", "uart"} \subseteq valid /\ DivisorValid(UartClock) IN
     /\ powered' = powered \cup {"GPIOB"} \cup (IF ok THEN {"UART0"} ELSE {})
     /\ divisor' = IF ok THEN Divisor(UartClock) ELSE 0
     /\ g_writer' = ok
     /\ Return(IF ~ ok THEN "UART_FAILURE"
               ELSE IF g_mclk_hz = MaxHz THEN "OK" ELSE "CLOCK_FALLBACK")
  /\ UNCHANGED <<requested_hz, valid, clock, led, i2c1>>
-----------------------------------------------------------------------------
(* board_i2c1_target_init and board_i2c1_controller_init: claim, and give  *)
(* the claim back if the driver refuses, which it does before it touches   *)
(* the peripheral: for an invalid configuration or when it is open.        *)
Claim == ~ g_i2c1_claimed
ClaimAfter(ok) == ok

OpenI2c1(driver, config_is_valid) ==
  LET ok == config_is_valid /\ driver \notin opened IN
  /\ pc = "app" /\ result \in {"OK", "CLOCK_FALLBACK"}
  /\ Claim
  /\ g_i2c1_claimed' = ClaimAfter(ok)
  /\ opened' = IF ok THEN opened \cup {driver} ELSE opened
  /\ personality' = IF ok THEN driver ELSE personality
  /\ UNCHANGED <<requested_hz, valid, pc, clock, board>>

Bringup == SelectSysosc \/ PollBase \/ PollSafe \/ LedInit \/ UartInit

Next ==
  \/ OscSettles
  \/ Bringup
  \/ \E driver \in {"target", "controller"}, config_is_valid \in BOOLEAN :
       OpenI2c1(driver, config_is_valid)

(* The oscillator does settle, if later than the polls wait, and the       *)
(* processor runs.                                                         *)
Spec == Init /\ [][Next]_vars /\ WF_vars(OscSettles) /\ WF_vars(Bringup)
-----------------------------------------------------------------------------
(* The type invariant. *)
TypeOK ==
  /\ requested_hz \in Requests /\ valid \subseteq {"led", "ring", "uart"}
  /\ osc \in {0, MaxHz, SafeHz} /\ osc_config \in {MaxHz, SafeHz}
  /\ selected \in BOOLEAN
  /\ pc \in {"select", "base", "safe", "led", "uart", "app"}
  /\ attempts \in 0 .. StatusPolls - 1
  /\ g_mclk_hz \in {MaxHz, SafeHz}
  /\ powered \subseteq Ports /\ led \in BOOLEAN
  /\ divisor \in 0 .. MaxDivisor /\ g_writer \in BOOLEAN
  /\ result \in {"OK", "CLOCK_FALLBACK", "GPIO_FAILURE", "UART_FAILURE", NoResult}
  /\ g_i2c1_claimed \in BOOLEAN
  /\ opened \subseteq {"target", "controller"}
  /\ personality \in {"none", "target", "controller"}

Distance(a, b) == IF a < b THEN b - a ELSE a - b

(* Whatever the polls saw, the oscillator ends up at the frequency that    *)
(* hal_clock_mclk_hz reports and that timer, UART and I2C are computed     *)
(* from.                                                                   *)
ClockIsReported == <>[](osc = g_mclk_hz /\ selected)

(* Once the oscillator is where it was asked to be, the UART's bit rate is *)
(* within one percent of the back channel's, also on the fallback clock.   *)
BaudMatchesClock ==
  (divisor # 0 /\ Ready) =>
    Distance(4 * osc, divisor * Baud) <= (4 * osc) \div 100

(* A refused driver leaves I2C1 free for the other one, or for a retry;    *)
(* the claim is held by exactly the driver that is open, and I2C1 is never *)
(* set up a second time under it.                                          *)
ClaimMatchesDriver ==
  /\ g_i2c1_claimed = (opened # {})
  /\ opened \subseteq {personality}

BoardConsistent == TypeOK /\ BaudMatchesClock /\ ClaimMatchesDriver
=============================================================================
