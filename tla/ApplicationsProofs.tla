-------------------------- MODULE ApplicationsProofs -------------------------
(***************************************************************************)
(* Proofs about Applications, one image after the other: the times of      *)
(* Blink for every width of the millisecond counter and every period below *)
(* half its range, the fault test's report, the clock, bit rate and I2C1   *)
(* claim of the board for every clock a board may ask for, the drained     *)
(* transmitter of the transmit test and the status page of the demo.       *)
(***************************************************************************)
EXTENDS Applications, SequenceTheorems, TLAPS

(* A remainder lies below its divisor. *)
LEMMA ModRange ==
  ASSUME NEW x \in Int, NEW n \in Nat \ {0}
  PROVE  x % n \in 0 .. n - 1
  OBVIOUS

(* Division with remainder. *)
LEMMA ModQuotient ==
  ASSUME NEW x \in Int, NEW n \in Nat \ {0}
  PROVE  x = n * (x \div n) + (x % n) /\ (x \div n) \in Int
  OBVIOUS

(* The only multiple of n strictly between -n and n is zero. *)
LEMMA MulBound ==
  ASSUME NEW q \in Int, NEW n \in Nat \ {0}, n * q < n, n * q > -n
  PROVE  q = 0
  <1>1. CASE q >= 1
    BY <1>1, n * q >= n
  <1>2. CASE q <= -1
    BY <1>2, n * q <= -n
  <1> QED BY <1>1, <1>2

(* A remainder is determined by any decomposition x = n*q + r. *)
LEMMA ModUnique ==
  ASSUME NEW n \in Nat \ {0}, NEW q \in Int, NEW r \in 0 .. n - 1
  PROVE  (n * q + r) % n = r
  <1> DEFINE x == n * q + r
  <1>0. x \in Int OBVIOUS
  <1>1. x = n * (x \div n) + (x % n) /\ (x \div n) \in Int
    BY <1>0, ModQuotient
  <1>2. x % n \in 0 .. n - 1
    BY <1>0, ModRange
  <1>3. n * (q - (x \div n)) = (x % n) - r
    BY <1>1, <1>2
  <1>4. q - (x \div n) = 0
    BY <1>1, <1>2, <1>3, MulBound
  <1> QED BY <1>1, <1>2, <1>3, <1>4

(* Remainders may be taken before or after adding and subtracting, as      *)
(* wrapping counters do.                                                   *)
LEMMA ModAdd ==
  ASSUME NEW n \in Nat \ {0}, NEW x \in Int, NEW y \in Int
  PROVE  ((x % n) + y) % n = (x + y) % n
  <1> DEFINE q == x \div n
             z == (x % n) + y
  <1>1. x = n * q + (x % n) /\ q \in Int /\ x % n \in Int
    BY ModQuotient, ModRange
  <1>2. z \in Int
    BY <1>1
  <1>3. z = n * (z \div n) + (z % n) /\ z \div n \in Int /\ z % n \in 0 .. n - 1
    BY <1>2, ModQuotient, ModRange
  <1>4. PICK r \in 0 .. n - 1 : r = z % n
    BY <1>3
  <1>5. PICK k \in Int : k = q + (z \div n)
    BY <1>1, <1>3
  <1>6. x + y = n * k + r
    BY <1>1, <1>3, <1>4, <1>5
  <1>7. (n * k + r) % n = r
    BY ModUnique
  <1> QED BY <1>4, <1>6, <1>7

LEMMA ModSub ==
  ASSUME NEW n \in Nat \ {0}, NEW x \in Int, NEW y \in Int
  PROVE  (x - (y % n)) % n = (x - y) % n
  <1> DEFINE q == y \div n
             z == x - (y % n)
  <1>1. y = n * q + (y % n) /\ q \in Int /\ y % n \in Int
    BY ModQuotient, ModRange
  <1>2. z \in Int
    BY <1>1
  <1>3. z = n * (z \div n) + (z % n) /\ z \div n \in Int /\ z % n \in 0 .. n - 1
    BY <1>2, ModQuotient, ModRange
  <1>4. PICK r \in 0 .. n - 1 : r = z % n
    BY <1>3
  <1>5. PICK k \in Int : k = (z \div n) - q
    <2> HIDE DEF q, z
    <2> QED BY <1>1, <1>3
  <1>6. x - y = n * k + r
    BY <1>1, <1>3, <1>4, <1>5
  <1>7. (n * k + r) % n = r
    BY ModUnique
  <1> QED BY <1>4, <1>6, <1>7

(* A wrapped difference below half the range tells late from early.        *)
LEMMA WrappedDistance ==
  ASSUME NEW n \in Nat \ {0}, n % 2 = 0, NEW d \in Int, -(n \div 2) < d, d < n \div 2
  PROVE  (d % n < n \div 2) <=> d >= 0
  <1>1. n = 2 * (n \div 2) /\ n \div 2 \in Int
    BY SMT
  <1>2. CASE d >= 0
    <2>1. d \in 0 .. n - 1
      BY <1>1, <1>2
    <2>2. (n * 0 + d) % n = d
      BY <2>1, ModUnique
    <2> QED BY <1>2, <2>2
  <1>3. CASE d < 0
    <2>1. d + n \in 0 .. n - 1
      BY <1>1, <1>3
    <2>2. (n * (-1) + (d + n)) % n = d + n
      BY <2>1, ModUnique
    <2> QED BY <1>1, <1>3, <2>2
  <1> QED BY <1>2, <1>3
-----------------------------------------------------------------------------
Bringup == {"board", "timer", "wdt", "failed"}
P == blink_period_ms

(* The thread sleeps only where WaitForTick puts it, and the watchdog runs *)
(* only after bring-up.                                                    *)
Sleep ==
  /\ asleep => pc \in {"check", "failed"} /\ busy = 0
  /\ pc \in Bringup => waited = 0 /\ unfed = 0 /\ ~ wdt

(* The deadline is where the counter will be a period after it was set. *)
DeadlineInv ==
  pc \in {"check", "toggle", "kick", "wait"} =>
    next_toggle_ms = (g_now_ms + (P - waited)) % Modulus

(* How far time may have got at each place of the loop. *)
OnTime ==
  /\ pc \in {"kick", "wait"} => waited <= P - 1 + busy
  /\ (pc = "check" /\ asleep) => waited <= P - 1 + MaxBusy
  /\ (pc \in {"check", "toggle", "reload"} /\ ~ asleep) => waited <= P + MaxBusy + busy
  /\ pc = "toggle" => waited >= P

Fed ==
  /\ pc = "wait" => unfed <= busy
  /\ (pc = "check" /\ asleep) => unfed <= MaxBusy
  /\ (pc \in {"check", "toggle", "reload", "kick"} /\ ~ asleep) =>
       unfed <= MaxBusy + 1 + busy

BlinkInv == TypeOK /\ Sleep /\ DeadlineInv /\ OnTime /\ Fed

(* The constants, and the types of the numbers. *)
LEMMA Numbers ==
  /\ Modulus \in Nat \ {0} /\ Modulus % 2 = 0 /\ MaxBusy \in Nat /\ WdtPeriod \in Nat
  /\ {Period, FallbackPeriod} \subseteq Nat \ {0}
  /\ \A p \in {Period, FallbackPeriod} : p + 2 * MaxBusy < Modulus \div 2
  /\ 2 * MaxBusy + 1 < WdtPeriod
  BY TickerAssumption, BlinkAssumption DEF Slack

LEMMA BlinkInvInit == Init => BlinkInv
  <1> SUFFICES ASSUME Init PROVE BlinkInv
    OBVIOUS
  <1>0. 0 \in 0 .. Modulus - 1 /\ 0 \in 0 .. MaxBusy /\ 0 \in 0 .. WdtPeriod
    BY Numbers
  <1>1. TickerTypeOK
    BY <1>0 DEF Init, TickerInit, TickerTypeOK
  <1>2. TypeOK
    BY <1>0, <1>1 DEF Init, TypeOK
  <1>3. Sleep /\ DeadlineInv /\ OnTime /\ Fed
    BY DEF Init, TickerInit, Sleep, DeadlineInv, OnTime, Fed, Bringup
  <1> QED BY <1>2, <1>3 DEF BlinkInv

(* hal_timer_deadline_reached is exact while nothing is late by more than  *)
(* a pass on either side of the sleep.                                     *)
LEMMA DeadlineExact ==
  ASSUME BlinkInv, pc = "check", ~ asleep
  PROVE  DeadlineReached(next_toggle_ms) <=> waited >= P
  <1>1. PICK n \in Nat \ {0}, p \in Nat \ {0}, w \in Nat, g \in Nat :
          n = Modulus /\ p = P /\ w = waited /\ g = g_now_ms
    BY Numbers DEF BlinkInv, TypeOK, TickerTypeOK, P
  <1>2. w <= p + 2 * MaxBusy
    BY <1>1, Numbers DEF BlinkInv, OnTime, TypeOK, TickerTypeOK
  <1>3. p + 2 * MaxBusy < n \div 2 /\ n % 2 = 0
    BY <1>1, Numbers DEF BlinkInv, TypeOK, P
  <1>4. next_toggle_ms = (g + (p - w)) % n
    BY <1>1 DEF BlinkInv, DeadlineInv
  <1>5. (g - next_toggle_ms) % n = (g - (g + (p - w))) % n
    <2>1. g \in Int /\ g + (p - w) \in Int
      OBVIOUS
    <2>2. (g - ((g + (p - w)) % n)) % n = (g - (g + (p - w))) % n
      BY <2>1, ModSub
    <2> QED BY <1>4, <2>2
  <1>6. g - (g + (p - w)) = w - p
    OBVIOUS
  <1>7. w - p < n \div 2 /\ -(n \div 2) < w - p /\ w - p \in Int
    BY <1>2, <1>3, Numbers
  <1>8. ((w - p) % n < n \div 2) <=> w - p >= 0
    BY <1>3, <1>7, WrappedDistance
  <1> QED BY <1>1, <1>5, <1>6, <1>8 DEF DeadlineReached

(* Bring-up, on whichever path. *)
LEMMA BringupStep ==
  ASSUME BlinkInv,
         \/ \E r \in {"OK", "CLOCK_FALLBACK", "GPIO_FAILURE", "UART_FAILURE"} : BoardInit(r)
         \/ \E ok \in BOOLEAN : InitTimer(ok) \/ InitWdt(ok)
  PROVE  BlinkInv'
  <1> USE Numbers DEF BlinkInv, TypeOK, TickerTypeOK, Sleep, DeadlineInv, OnTime, Fed, Bringup,
                      FailUnless, Step, ticker, P
  <1>1. ASSUME NEW r \in {"OK", "CLOCK_FALLBACK", "GPIO_FAILURE", "UART_FAILURE"}, BoardInit(r)
        PROVE  BlinkInv'
    BY <1>1 DEF BoardInit
  <1>2. ASSUME NEW ok \in BOOLEAN, InitTimer(ok) PROVE BlinkInv'
    BY <1>2 DEF InitTimer, TimerInit
  <1>3. ASSUME NEW ok \in BOOLEAN, InitWdt(ok) PROVE BlinkInv'
    BY <1>3 DEF InitWdt, WdtInit
  <1> QED BY <1>1, <1>2, <1>3

(* The loop. *)
LEMMA LoopStep ==
  ASSUME BlinkInv, Reload \/ Check \/ Toggle \/ KickWdt \/ WaitForTick
  PROVE  BlinkInv'
  <1> USE DEF Step, ticker, P
  <1>1. CASE Reload
    <2>1. next_toggle_ms' = (g_now_ms + (P - 0)) % Modulus /\ P \in Nat \ {0}
      BY <1>1, Numbers DEF Reload, Deadline, BlinkInv, TypeOK
    <2>2. g_now_ms + P \in Int
      BY <2>1 DEF BlinkInv, TypeOK, TickerTypeOK
    <2>3. next_toggle_ms' \in 0 .. Modulus - 1
      <3>1. (g_now_ms + P) % Modulus \in 0 .. Modulus - 1
        BY <2>2, ModRange, Numbers
      <3> QED BY <3>1, <1>1 DEF Reload, Deadline
    <2> QED
      BY <1>1, <2>1, <2>3, Numbers
      DEF Reload, BlinkInv, TypeOK, TickerTypeOK, Sleep, DeadlineInv, OnTime, Fed, Bringup
  <1>2. CASE Check
    <2>1. DeadlineReached(next_toggle_ms) <=> waited >= P
      BY <1>2, DeadlineExact DEF Check
    <2> QED
      BY <1>2, <2>1, Numbers
      DEF Check, BlinkInv, TypeOK, TickerTypeOK, Sleep, DeadlineInv, OnTime, Fed, Bringup
  <1>3. CASE Toggle
    BY <1>3, Numbers
    DEF Toggle, BlinkInv, TypeOK, TickerTypeOK, Sleep, DeadlineInv, OnTime, Fed, Bringup
  <1>4. CASE KickWdt
    BY <1>4, Numbers
    DEF KickWdt, Kick, BlinkInv, TypeOK, TickerTypeOK, Sleep, DeadlineInv, OnTime, Fed, Bringup
  <1>5. CASE WaitForTick
    BY <1>5, Numbers
    DEF WaitForTick, Wait, BlinkInv, TypeOK, TickerTypeOK, Sleep, DeadlineInv, OnTime, Fed, Bringup
  <1> QED BY <1>1, <1>2, <1>3, <1>4, <1>5

(* SysTick, which moves the counter and what it is measured by together. *)
LEMMA TickStep ==
  ASSUME BlinkInv, Tick
  PROVE  BlinkInv'
  <1>1. PICK n \in Nat \ {0}, p \in Nat \ {0}, w \in Nat, g \in Nat :
          n = Modulus /\ p = P /\ w = waited /\ g = g_now_ms
    BY Numbers DEF BlinkInv, TypeOK, TickerTypeOK, P
  <1>2. g_now_ms' = (g + 1) % n /\ P' = p
    BY <1>1 DEF Tick, SysTick, Increment, P
  <1>3. g_now_ms' \in 0 .. Modulus - 1
    BY <1>1, <1>2, ModRange
  <1>4. (((g + 1) % n) + (p - (w + 1))) % n = (g + (p - w)) % n
    <2>1. g + 1 \in Int /\ p - (w + 1) \in Int
      OBVIOUS
    <2>2. (((g + 1) % n) + (p - (w + 1))) % n = ((g + 1) + (p - (w + 1))) % n
      BY <2>1, ModAdd
    <2>3. (g + 1) + (p - (w + 1)) = g + (p - w)
      OBVIOUS
    <2> QED BY <2>2, <2>3
  <1>5. DeadlineInv'
    <2>1. SUFFICES ASSUME pc \in {"check", "toggle", "kick", "wait"}
                   PROVE  next_toggle_ms' = (g_now_ms' + (P' - waited')) % Modulus
      BY DEF DeadlineInv, Tick
    <2>2. next_toggle_ms' = (g + (p - w)) % n /\ waited' = w + 1
      BY <1>1, <2>1 DEF BlinkInv, DeadlineInv, Tick
    <2> QED BY <1>1, <1>2, <1>4, <2>2
  <1>6. TypeOK'
    <2>1. busy' \in 0 .. MaxBusy
      BY Numbers DEF BlinkInv, TypeOK, TickerTypeOK, Tick, SysTick
    <2>2. unfed' \in 0 .. WdtPeriod
      BY Numbers DEF BlinkInv, TypeOK, TickerTypeOK, Tick, SysTick
    <2>3. waited' \in Nat
      BY DEF BlinkInv, TypeOK, Tick
    <2>4. ticking' \in BOOLEAN /\ asleep' \in BOOLEAN /\ wdt' \in BOOLEAN
      BY DEF BlinkInv, TypeOK, TickerTypeOK, Tick, SysTick
    <2>5. TickerTypeOK'
      BY <1>3, <2>1, <2>2, <2>4 DEF TickerTypeOK
    <2> QED BY <2>3, <2>5 DEF BlinkInv, TypeOK, Tick
  <1>7. Sleep'
    <2>1. ~ asleep'
      BY DEF Tick, SysTick
    <2>2. pc \in Bringup => waited' = 0 /\ unfed' = 0 /\ ~ wdt'
      BY DEF BlinkInv, Sleep, Bringup, Tick, SysTick
    <2> QED BY <2>1, <2>2 DEF Sleep, Tick, Bringup
  <1> QED
    BY <1>5, <1>6, <1>7, Numbers
    DEF BlinkInv, TypeOK, TickerTypeOK, Sleep, OnTime, Fed, Tick, SysTick, Bringup, P

LEMMA BlinkInvStep == BlinkInv /\ [Next]_vars => BlinkInv'
  <1> SUFFICES ASSUME BlinkInv, [Next]_vars PROVE BlinkInv'
    OBVIOUS
  <1>1. CASE UNCHANGED vars
    BY <1>1 DEF BlinkInv, TypeOK, TickerTypeOK, Sleep, DeadlineInv, OnTime, Fed, vars, ticker, P
  <1> QED BY <1>1, BringupStep, LoopStep, TickStep DEF Next, Main

(* app/blink/main.c: the LED is never late and the watchdog never expires. *)
LEMMA BlinkInvFacts == BlinkInv => OnSchedule
  <1>1. BlinkInv => TypeOK /\ NeverLate /\ WatchdogFed
    BY Numbers DEF BlinkInv, TypeOK, TickerTypeOK, Sleep, OnTime, Fed, Bringup, P, NeverLate,
       WatchdogFed, Slack
  <1> QED BY <1>1 DEF OnSchedule
-----------------------------------------------------------------------------
(* Numbers of the board and of the back channel. *)
LEMMA BoardNumbers ==
  /\ MaxHz \in Nat \ {0} /\ SafeHz \in Nat \ {0} /\ MaxHz # SafeHz
  /\ Baud \in Nat \ {0} /\ StatusPolls \in Nat \ {0}
  /\ Board!MaxDivisor \in Nat
  <1>1. Board!MaxDivisor \in Nat
    BY SMT DEF Board!MaxDivisor
  <1> QED BY <1>1, ImagesAssumption DEF Board!ClocksFit

(* What bring-up has asked the oscillator for is what it goes on to        *)
(* report, and the divisor is computed from that.                          *)
ClockInv ==
  /\ board_pc = "base" => osc_config = MaxHz
  /\ board_pc = "safe" => osc_config = SafeHz
  /\ board_pc \in {"led", "uart", "app"} => osc_config = g_mclk_hz
  /\ divisor # 0 =>
       /\ board_pc = "app" /\ divisor = Board!Divisor(g_mclk_hz)
       /\ Board!DivisorValid(g_mclk_hz)

BoardInv == Board!TypeOK /\ ClockInv /\ Board!ClaimMatchesDriver

LEMMA BoardInvInit == Board!Init => BoardInv
  <1> SUFFICES ASSUME Board!Init PROVE BoardInv
    OBVIOUS
  <1>1. 0 \in 0 .. StatusPolls - 1 /\ 0 \in 0 .. Board!MaxDivisor
    BY BoardNumbers
  <1>2. Board!TypeOK
    BY <1>1 DEF Board!Init, Board!TypeOK
  <1> QED BY <1>2 DEF Board!Init, BoardInv, ClockInv, Board!ClaimMatchesDriver

LEMMA BoardInvStep ==
  ASSUME BoardInv, Board!Next \/ UNCHANGED board_vars
  PROVE  BoardInv'
  <1> USE BoardNumbers DEF BoardInv, ClockInv, Board!ClaimMatchesDriver, Board!TypeOK,
          Board!clock, Board!board, Board!i2c1, Board!SetFrequency
  <1>1. CASE Board!OscSettles
    BY <1>1 DEF Board!OscSettles
  <1>2. CASE Board!SelectSysosc
    BY <1>2 DEF Board!SelectSysosc
  <1>3. CASE Board!PollBase
    BY <1>3 DEF Board!PollBase
  <1>4. CASE Board!PollSafe
    BY <1>4 DEF Board!PollSafe
  <1>5. CASE Board!LedInit
    BY <1>5 DEF Board!LedInit, Board!Return, Board!Ports
  <1>6. CASE Board!UartInit
    BY <1>6 DEF Board!UartInit, Board!Return, Board!Ports, Board!UartClock,
       Board!DivisorValid, Board!FractionScale
  <1>7. ASSUME NEW driver \in {"target", "controller"}, NEW config_is_valid \in BOOLEAN,
               Board!OpenI2c1(driver, config_is_valid)
        PROVE  BoardInv'
    BY <1>7 DEF Board!OpenI2c1, Board!Claim, Board!ClaimAfter
  <1>8. CASE UNCHANGED board_vars
    BY <1>8 DEF board_vars
  <1> QED
    BY <1>1, <1>2, <1>3, <1>4, <1>5, <1>6, <1>7, <1>8 DEF Board!Next, Board!Bringup

(* Rounding to the nearest divisor leaves an error of at most half a bit   *)
(* time per byte of 16 samples, which is below one percent since a valid   *)
(* divisor is at least FractionScale.                                      *)
LEMMA DivisorError ==
  ASSUME NEW h \in Nat \ {0}, NEW d \in Nat, d = Board!Divisor(h), d >= 64
  PROVE  Board!Distance(4 * h, d * Baud) <= (4 * h) \div 100
  <1>1. PICK b \in Nat \ {0} : b = Baud
    BY BoardNumbers
  <1>2. PICK q \in Int : q = (h * 8) \div b /\ h * 8 = b * q + ((h * 8) % b)
    <2>1. h * 8 \in Int
      OBVIOUS
    <2> QED BY <2>1, ModQuotient
  <1>3. (h * 8) % b \in 0 .. b - 1
    <2>1. h * 8 \in Int
      OBVIOUS
    <2> QED BY <2>1, ModRange
  <1>4. d = (q + 1) \div 2
    BY <1>1, <1>2 DEF Board!Divisor
  <1>5. q = 2 * d \/ q = 2 * d - 1
    BY <1>4
  <1>6. PICK x \in Int, y \in Int : x = b * q /\ y = d * b
    OBVIOUS
  <1>7. x = 2 * y \/ x = 2 * y - b
    <2>1. b * (2 * d) = 2 * (d * b) /\ b * (2 * d - 1) = 2 * (d * b) - b
      OBVIOUS
    <2> QED BY <1>5, <1>6, <2>1
  <1>8. y >= 64 * b
    <2>1. PICK e \in Nat : d = 64 + e
      BY d - 64 \in Nat
    <2>2. d * b = 64 * b + e * b /\ e * b >= 0
      BY <2>1
    <2> QED BY <1>6, <2>2
  <1>9. x <= h * 8 /\ h * 8 < x + b
    BY <1>2, <1>3, <1>6
  <1>10. y - 4 * h <= b /\ 4 * h - y <= b /\ 2 * (y - 4 * h) <= b /\ 2 * (4 * h - y) <= b
    BY <1>7, <1>9
  <1>11. 100 * (y - 4 * h) <= 4 * h /\ 100 * (4 * h - y) <= 4 * h
    BY <1>8, <1>10
  <1>12. \A m \in Int : 100 * m <= 4 * h => m <= (4 * h) \div 100
    OBVIOUS
  <1> QED BY <1>1, <1>6, <1>11, <1>12 DEF Board!Distance

(* Of the board's variables only its own steps touch any. *)
LEMMA BoardOnly == [FlashedNext]_image_vars => Board!Next \/ UNCHANGED board_vars
  BY DEF FlashedNext, Thread, Milliseconds, Transmitter, TransmitInterrupt, Oscillator,
     EndOfRead, Outside, Runs, image_vars, Board!Next

(* board/lp_mspm0c1106/board_init.c: for every clock a board may request,
   every baud rate and number of polls, the bit rate is right once the
   oscillator is where it was asked to be, on the fallback clock as well, and
   I2C1 belongs to the one driver that is open. *)
THEOREM BoardIsConsistent == FlashedSpec => []BoardConsistent
  <1>1. FlashedInit => BoardInv
    BY BoardInvInit DEF FlashedInit
  <1>2. BoardInv /\ [FlashedNext]_image_vars => BoardInv'
    BY BoardOnly, BoardInvStep
  <1>3. BoardInv => Board!BaudMatchesClock
    <2> SUFFICES ASSUME BoardInv, divisor # 0, Board!Ready
                 PROVE  Board!Distance(4 * osc, divisor * Baud) <= (4 * osc) \div 100
      BY DEF Board!BaudMatchesClock
    <2>1. osc = g_mclk_hz /\ osc \in Nat \ {0}
      BY BoardNumbers DEF BoardInv, ClockInv, Board!TypeOK, Board!Ready
    <2>2. divisor = Board!Divisor(osc) /\ divisor \in Nat /\ divisor >= 64
      BY <2>1 DEF BoardInv, ClockInv, Board!TypeOK, Board!DivisorValid,
         Board!FractionScale
    <2> QED BY <2>1, <2>2, DivisorError
  <1>4. BoardInv => BoardConsistent
    BY <1>3 DEF BoardInv, BoardConsistent, Board!BoardConsistent
  <1> QED BY <1>1, <1>2, <1>4, PTL DEF FlashedSpec
-----------------------------------------------------------------------------
(* The transmit test keeps the watchdog fed: a write and its wait are one  *)
(* pass of the loop, and the transmit interrupt ends a sleep early.        *)
TestFed ==
  /\ asleep => test_pc = "wait" /\ busy = 0 /\ unfed <= MaxBusy
  /\ ~ asleep => unfed <= MaxBusy + 1 + busy
  /\ test_pc = "sleep" => unfed <= busy

(* What the fault test knows of the record.                                *)
Loop == {"reload", "check", "toggle", "kick", "wait"}

RecordInv ==
  /\ fault_pc = "start" => pending = Fault!Boot(record)
  /\ raised => \/ record = "fault" \/ fault_pc \in {"capture", "capturing"}
               \/ fault_pc = "starting" /\ pending = "fault"
  /\ fault_pc = "starting" => record = "invalid"
  /\ fault_pc = "udf" => record # "fault"
  /\ fault_pc \in Loop => record = "fault"

(* ... and how it feeds the watchdog, which runs from `decide' on.         *)
FaultFed ==
  /\ asleep => fault_pc \in {"check", "failed"} /\ busy = 0
  /\ fault_pc \in {"start", "starting", "board", "timer", "wdt", "failed"} =>
       ~ wdt /\ unfed = 0
  /\ fault_pc \in Loop \cup {"decide"} => wdt
  /\ fault_pc = "wait" => unfed <= busy
  /\ asleep => unfed <= MaxBusy
  /\ ~ asleep => unfed <= MaxBusy + 1 + busy

FaultTypeOK ==
  /\ record \in {"invalid", "boot", "fault"} /\ pending \in {"boot", "fault"}
  /\ fault_pc \in {"start", "starting", "board", "timer", "wdt", "decide", "udf",
                   "capture", "capturing", "failed"} \cup Loop
  /\ fault_toggle_ms \in 0 .. Modulus - 1 /\ fault_led \in BOOLEAN
  /\ raised \in BOOLEAN /\ resets \in 0 .. MaxResets

(* The image that runs drives the ticker; the others are as they began.    *)
Idle ==
  /\ image # "blink" => pc = "board" /\ waited = 0 /\ blink_period_ms = Period
                        /\ next_toggle_ms = 0 /\ led = FALSE
  /\ image # "fault" => record = "invalid" /\ pending = "boot" /\ fault_pc = "start"
                        /\ ~ raised
  /\ image \in {"board", "status"} => unfed = 0

Images == {"blink", "test", "fault", "board", "status"}

FlashedInv ==
  /\ image \in Images
  /\ TickerTypeOK /\ FaultTypeOK /\ RecordInv /\ Idle
  /\ image = "blink" => BlinkInv
  /\ image = "test" => TestFed
  /\ image = "fault" => FaultFed

LEMMA FlashedInvInit == FlashedInit => FlashedInv
  <1> SUFFICES ASSUME FlashedInit PROVE FlashedInv
    OBVIOUS
  <1>1. BlinkInv
    BY BlinkInvInit DEF FlashedInit
  <1>2. 0 \in 0 .. Modulus - 1 /\ 0 \in 0 .. MaxResets /\ 0 <= MaxBusy
    BY Numbers, ImagesAssumption DEF Fault!PeriodFits
  <1>3. Test!Init /\ Fault!Init /\ Init
    BY DEF FlashedInit
  <1>4. FaultTypeOK /\ RecordInv
    BY <1>2, <1>3 DEF Fault!Init, FaultTypeOK, RecordInv, Fault!Boot, Loop
  <1>5. TickerTypeOK /\ unfed = 0 /\ busy = 0 /\ ~ asleep /\ ~ wdt
    BY <1>1, <1>3 DEF BlinkInv, TypeOK, Init, TickerInit
  <1>6. TestFed /\ FaultFed
    BY <1>2, <1>3, <1>5, Numbers DEF TestFed, FaultFed, Test!Init, Fault!Init, Loop
  <1>7. Idle
    BY <1>3, <1>5 DEF Idle, Init, Fault!Init
  <1>8. image \in Images
    BY DEF FlashedInit, Images
  <1> QED BY <1>1, <1>4, <1>5, <1>6, <1>7, <1>8 DEF FlashedInv

(* What a flashed image leaves alone. *)
LEMMA OthersIdle ==
  ASSUME FlashedInv, UNCHANGED image
  PROVE  /\ UNCHANGED blink_vars /\ image # "blink" =>
              /\ image' # "blink"
              /\ pc' = "board" /\ waited' = 0 /\ blink_period_ms' = Period
              /\ next_toggle_ms' = 0 /\ led' = FALSE
         /\ UNCHANGED fault_vars => FaultTypeOK' /\ RecordInv'
         /\ UNCHANGED fault_vars /\ image # "fault" =>
              record' = "invalid" /\ pending' = "boot" /\ fault_pc' = "start" /\ ~ raised'
  BY DEF FlashedInv, Idle, blink_vars, fault_vars, FaultTypeOK, RecordInv

LEMMA BlinkImageStep ==
  ASSUME FlashedInv, Runs("blink"), Main \/ Tick
  PROVE  FlashedInv'
  <1>1. image = "blink" /\ image' = "blink" /\ UNCHANGED fault_vars /\ UNCHANGED image
    BY DEF Runs
  <1>2. BlinkInv'
    BY <1>1, BlinkInvStep DEF FlashedInv, Next
  <1>3. TickerTypeOK'
    BY <1>2 DEF BlinkInv, TypeOK
  <1> QED BY <1>1, <1>2, <1>3, OthersIdle DEF FlashedInv, Idle

(* The ticker's own steps, under the name they have in an instance. *)
LEMMA TickerStep ==
  ASSUME TickerTypeOK,
         \/ Test!SysTick \/ Test!Kick \/ Test!Wait
         \/ Fault!SysTick \/ Fault!Kick \/ Fault!Wait
         \/ \E ok \in BOOLEAN : Fault!TimerInit(ok) \/ Fault!WdtInit(ok)
         \/ UNCHANGED ticker
  PROVE  TickerTypeOK'
  <1>0. Modulus \in Nat \ {0} /\ MaxBusy \in Nat /\ WdtPeriod \in Nat
    BY Numbers
  <1> USE <1>0 DEF TickerTypeOK
  <1>1. (g_now_ms + 1) % Modulus \in 0 .. Modulus - 1
    <2>1. g_now_ms + 1 \in Int
      OBVIOUS
    <2> QED BY <2>1, ModRange
  <1>2. CASE Test!SysTick \/ Fault!SysTick
    <2>1. g_now_ms' = (g_now_ms + 1) % Modulus
      BY <1>2 DEF Test!SysTick, Fault!SysTick, Test!Increment, Fault!Increment
    <2>2. busy' \in 0 .. MaxBusy /\ unfed' \in 0 .. WdtPeriod
      BY <1>2 DEF Test!SysTick, Fault!SysTick
    <2> QED BY <1>1, <1>2, <2>1, <2>2 DEF Test!SysTick, Fault!SysTick
  <1>3. CASE Test!Kick \/ Fault!Kick
    BY <1>3 DEF Test!Kick, Fault!Kick
  <1>4. CASE Test!Wait \/ Fault!Wait
    <2>1. asleep' = TRUE /\ busy' = 0 /\ UNCHANGED <<g_now_ms, ticking, wdt, unfed>>
      BY <1>4 DEF Test!Wait, Fault!Wait
    <2>2. busy' \in 0 .. MaxBusy
      BY <2>1
    <2> QED BY <2>1, <2>2
  <1>5. CASE \E ok \in BOOLEAN : Fault!TimerInit(ok) \/ Fault!WdtInit(ok)
    BY <1>5 DEF Fault!TimerInit, Fault!WdtInit
  <1>6. CASE UNCHANGED ticker
    BY <1>6 DEF ticker
  <1> QED BY <1>2, <1>3, <1>4, <1>5, <1>6

LEMMA TestFedStep ==
  ASSUME TickerTypeOK, TestFed, Test!Next
  PROVE  TickerTypeOK' /\ TestFed'
  <1>0. MaxBusy \in Nat /\ WdtPeriod \in Nat /\ busy \in Nat /\ unfed \in Nat
    BY Numbers DEF TickerTypeOK
  <1> USE <1>0 DEF TestFed
  <1>1. CASE Test!Tick
    <2>1. TickerTypeOK'
      BY <1>1, TickerStep DEF Test!Tick
    <2>2. /\ ~ asleep' /\ test_pc' = test_pc /\ unfed' \in {unfed, unfed + 1}
          /\ busy' = (IF asleep THEN 0 ELSE busy + 1)
      BY <1>1 DEF Test!Tick, Test!SysTick, Test!main
    <2> QED BY <2>1, <2>2
  <1>2. CASE Test!Service
    <2>1. ~ asleep' /\ busy' = busy /\ unfed' = unfed /\ test_pc' = test_pc
      BY <1>2 DEF Test!Service, Test!main
    <2>2. TickerTypeOK'
      BY <1>2 DEF Test!Service, TickerTypeOK
    <2> QED BY <2>1, <2>2
  <1>3. CASE Test!Shift
    BY <1>3, TickerStep DEF Test!Shift, Test!ticker, ticker, Test!main
  <1>4. ASSUME NEW ok \in BOOLEAN, Test!Start(ok) PROVE TickerTypeOK' /\ TestFed'
    BY <1>4 DEF Test!Start, Test!Step, TickerTypeOK
  <1>5. CASE Test!Push \/ Test!WriteEnd \/ Test!Judge \/ Test!Wake
    <2>1. UNCHANGED ticker /\ ~ asleep /\ test_pc' # "sleep"
      BY <1>5 DEF Test!Push, Test!WriteEnd, Test!Judge, Test!Wake, Test!Step, Test!ticker, ticker
    <2> QED BY <2>1, TickerStep DEF ticker
  <1>6. CASE Test!Feed
    BY <1>6 DEF Test!Feed, Test!Kick, Test!Step, TickerTypeOK
  <1>7. CASE Test!Sleep
    BY <1>7 DEF Test!Sleep, Test!Wait, Test!Step, TickerTypeOK
  <1> QED BY <1>1, <1>2, <1>3, <1>4, <1>5, <1>6, <1>7 DEF Test!Next, Test!Main

LEMMA TestImageStep ==
  ASSUME FlashedInv, Runs("test"), Test!Next
  PROVE  FlashedInv'
  <1>1. /\ image = "test" /\ image' = "test" /\ UNCHANGED fault_vars /\ UNCHANGED image
        /\ UNCHANGED blink_vars
    BY DEF Runs
  <1>2. TickerTypeOK' /\ TestFed'
    BY <1>1, TestFedStep DEF FlashedInv
  <1> QED BY <1>1, <1>2, OthersIdle DEF FlashedInv, Idle

LEMMA StillImageStep ==
  ASSUME FlashedInv, Runs("board") \/ Runs("status")
  PROVE  FlashedInv'
  <1>1. /\ image \in {"board", "status"} /\ image' = image /\ UNCHANGED image
        /\ UNCHANGED fault_vars /\ UNCHANGED blink_vars /\ UNCHANGED ticker
    BY DEF Runs
  <1>2. TickerTypeOK' /\ unfed' = 0
    BY <1>1, TickerStep DEF FlashedInv, Idle, ticker
  <1> QED BY <1>1, <1>2, OthersIdle DEF FlashedInv, Idle

FaultInv == TickerTypeOK /\ FaultTypeOK /\ RecordInv /\ FaultFed

(* A reset leaves nothing but the record. *)
LEMMA RestartFacts ==
  ASSUME FaultInv, NEW r \in {"invalid", "boot", "fault"}, Fault!Restart(r),
         raised' \in BOOLEAN, raised' => r = "fault", resets' \in 0 .. MaxResets
  PROVE  FaultInv'
  <1>0. /\ 0 \in 0 .. Modulus - 1 /\ 0 \in 0 .. MaxBusy /\ 0 \in 0 .. WdtPeriod
        /\ MaxBusy \in Nat
    BY Numbers
  <1>1. TickerTypeOK'
    BY <1>0 DEF Fault!Restart, TickerTypeOK
  <1>2. FaultTypeOK'
    BY <1>0 DEF Fault!Restart, Fault!Boot, FaultTypeOK
  <1>3. RecordInv'
    BY DEF Fault!Restart, Fault!Boot, RecordInv, Loop
  <1>4. FaultFed'
    BY <1>0 DEF Fault!Restart, FaultFed, Loop
  <1> QED BY <1>1, <1>2, <1>3, <1>4 DEF FaultInv

LEMMA FaultStep == ASSUME FaultInv, Fault!Next PROVE FaultInv'
  <1>0. /\ Modulus \in Nat \ {0} /\ MaxBusy \in Nat /\ WdtPeriod \in Nat
        /\ busy \in 0 .. MaxBusy /\ unfed \in Nat /\ RetainedPeriod \in Nat
        /\ g_now_ms \in Int /\ resets \in 0 .. MaxResets /\ MaxResets \in Nat
    BY Numbers, ImagesAssumption DEF FaultInv, FaultTypeOK, TickerTypeOK, Fault!PeriodFits
  <1> USE <1>0 DEF FaultInv, Fault!Step
  <1>1. CASE Fault!Begin
    BY <1>1, TickerStep
    DEF Fault!Begin, Fault!app, Fault!ticker, ticker, FaultTypeOK, RecordInv, FaultFed, Loop,
        Fault!Boot
  <1>2. CASE Fault!BootNoted
    <2>1. /\ fault_pc = "starting" /\ fault_pc' = "board" /\ record' = pending
          /\ UNCHANGED ticker /\ UNCHANGED <<pending, fault_toggle_ms, fault_led, raised, resets>>
      BY <1>2 DEF Fault!BootNoted, Fault!app, Fault!ticker, ticker
    <2>2. FaultTypeOK' /\ RecordInv'
      BY <2>1 DEF FaultTypeOK, RecordInv, Loop
    <2>3. FaultFed'
      BY <2>1 DEF ticker, FaultFed, Loop
    <2> QED BY <2>1, <2>2, <2>3, TickerStep
  <1>3. CASE Fault!CaptureDone
    BY <1>3, RestartFacts DEF Fault!CaptureDone, Fault!Captured, FaultTypeOK
  <1>4. ASSUME NEW ok \in BOOLEAN, Fault!BoardInit(ok) PROVE FaultInv'
    BY <1>4, TickerStep
    DEF Fault!BoardInit, Fault!FailUnless, Fault!ticker, ticker, FaultTypeOK, RecordInv,
        FaultFed, Loop
  <1>5. ASSUME NEW ok \in BOOLEAN, Fault!InitTimer(ok) PROVE FaultInv'
    BY <1>5, TickerStep
    DEF Fault!InitTimer, Fault!FailUnless, Fault!TimerInit, FaultTypeOK, RecordInv, FaultFed,
        Loop
  <1>6. ASSUME NEW ok \in BOOLEAN, Fault!InitWdt(ok) PROVE FaultInv'
    BY <1>6, TickerStep
    DEF Fault!InitWdt, Fault!FailUnless, Fault!WdtInit, FaultTypeOK, RecordInv, FaultFed, Loop
  <1>7. CASE Fault!Decide
    BY <1>7, TickerStep
    DEF Fault!Decide, Fault!HasFault, Fault!app, Fault!ticker, ticker, FaultTypeOK, RecordInv,
        FaultFed, Loop
  <1>8. CASE Fault!RaiseFault
    BY <1>8, TickerStep
    DEF Fault!RaiseFault, Fault!app, Fault!ticker, ticker, FaultTypeOK, RecordInv, FaultFed,
        Loop
  <1>9. CASE Fault!Reload
    <2>1. fault_toggle_ms' \in 0 .. Modulus - 1
      <3>1. g_now_ms + RetainedPeriod \in Int
        OBVIOUS
      <3>2. (g_now_ms + RetainedPeriod) % Modulus \in 0 .. Modulus - 1
        BY <3>1, ModRange
      <3> QED BY <1>9, <3>2 DEF Fault!Reload, Fault!Deadline
    <2> QED
      BY <1>9, <2>1, TickerStep
      DEF Fault!Reload, Fault!ticker, ticker, FaultTypeOK, RecordInv, FaultFed, Loop
  <1>10. CASE Fault!Check
    BY <1>10, TickerStep
    DEF Fault!Check, Fault!app, Fault!ticker, ticker, FaultTypeOK, RecordInv, FaultFed, Loop
  <1>11. CASE Fault!Toggle
    BY <1>11, TickerStep
    DEF Fault!Toggle, Fault!ticker, ticker, FaultTypeOK, RecordInv, FaultFed, Loop
  <1>12. CASE Fault!KickWdt
    BY <1>12, TickerStep
    DEF Fault!KickWdt, Fault!Kick, Fault!app, FaultTypeOK, RecordInv, FaultFed, Loop
  <1>13. CASE Fault!WaitForTick
    BY <1>13, TickerStep
    DEF Fault!WaitForTick, Fault!Wait, Fault!app, FaultTypeOK, RecordInv, FaultFed, Loop
  <1>14. CASE Fault!Tick
    <2>1. TickerTypeOK'
      BY <1>14, TickerStep DEF Fault!Tick
    <2>2. /\ ~ asleep' /\ wdt' = wdt /\ unfed' \in {unfed, unfed + 1}
          /\ (~ wdt => unfed' = unfed)
          /\ busy' = (IF asleep THEN 0 ELSE busy + 1)
      BY <1>14 DEF Fault!Tick, Fault!SysTick
    <2>3. UNCHANGED fault_vars
      BY <1>14 DEF Fault!Tick, Fault!app, fault_vars
    <2>4. FaultTypeOK' /\ RecordInv'
      BY <2>3 DEF fault_vars, FaultTypeOK, RecordInv
    <2>5. FaultFed'
      BY <2>2, <2>3 DEF fault_vars, FaultFed, Loop
    <2> QED BY <2>1, <2>4, <2>5
  <1>15. CASE Fault!Disturbance
    <2>1. resets' \in 0 .. MaxResets
      BY <1>15 DEF Fault!Disturbance
    <2>2. CASE Fault!Reset
      BY <2>1, <2>2, RestartFacts DEF Fault!Reset, FaultTypeOK
    <2>3. CASE Fault!Restart("invalid") /\ raised' = FALSE
      BY <2>1, <2>3, RestartFacts
    <2> QED BY <1>15, <2>2, <2>3 DEF Fault!Disturbance
  <1> QED
    BY <1>1, <1>2, <1>3, <1>4, <1>5, <1>6, <1>7, <1>8, <1>9, <1>10, <1>11, <1>12, <1>13,
       <1>14, <1>15
    DEF Fault!Next, Fault!Main

LEMMA FaultImageStep ==
  ASSUME FlashedInv, Runs("fault"), Fault!Next
  PROVE  FlashedInv'
  <1>1. /\ image = "fault" /\ image' = "fault" /\ UNCHANGED image /\ UNCHANGED blink_vars
    BY DEF Runs
  <1>2. FaultInv'
    BY <1>1, FaultStep DEF FlashedInv, FaultInv
  <1> QED BY <1>1, <1>2, OthersIdle DEF FlashedInv, FaultInv, Idle

LEMMA FlashedInvStep == FlashedInv /\ [FlashedNext]_image_vars => FlashedInv'
  <1> SUFFICES ASSUME FlashedInv, [FlashedNext]_image_vars PROVE FlashedInv'
    OBVIOUS
  <1>1. CASE UNCHANGED image_vars
    <2>1. UNCHANGED blink_vars /\ UNCHANGED fault_vars /\ UNCHANGED image
          /\ UNCHANGED ticker /\ UNCHANGED test_vars
      BY <1>1 DEF image_vars
    <2>2. TickerTypeOK' /\ FaultTypeOK' /\ RecordInv' /\ Idle'
      BY <2>1, TickerStep, OthersIdle DEF FlashedInv, Idle, ticker
    <2>3. BlinkInv => BlinkInv'
      BY <2>1, BlinkInvStep DEF vars, blink_vars
    <2>4. (TestFed => TestFed') /\ (FaultFed => FaultFed')
      BY <2>1 DEF TestFed, FaultFed, ticker, test_vars, fault_vars
    <2> QED BY <2>1, <2>2, <2>3, <2>4 DEF FlashedInv
  <1>2. CASE FlashedNext
    <2>1. \/ Runs("blink") /\ (Main \/ Tick)
          \/ Runs("test") /\ Test!Next
          \/ Runs("fault") /\ Fault!Next
          \/ Runs("board") \/ Runs("status")
      BY <1>2 DEF FlashedNext, Thread, Milliseconds, Transmitter, TransmitInterrupt,
         Oscillator, EndOfRead, Outside, Test!Next, Fault!Next
    <2> QED
      BY <2>1, BlinkImageStep, TestImageStep, FaultImageStep, StillImageStep
  <1> QED BY <1>1, <1>2

(* Two passes of any loop are shorter than the watchdog's period. *)
LEMMA FedInAll == FlashedInv => unfed < WdtPeriod
  <1> SUFFICES ASSUME FlashedInv PROVE unfed < WdtPeriod
    OBVIOUS
  <1>1. CASE image = "blink"
    BY <1>1, BlinkInvFacts DEF FlashedInv, OnSchedule, WatchdogFed
  <1>2. CASE image # "blink"
    BY <1>2, Numbers DEF FlashedInv, Images, Idle, TestFed, FaultFed, TickerTypeOK
  <1> QED BY <1>1, <1>2

(* Every image that blinks or tests keeps its times: Blink's LED is never
   late, and the watchdog expires in none of them. *)
THEOREM ImagesKeepTime == FlashedSpec => []OnSchedule
  <1>1. FlashedInv => OnSchedule
    <2> SUFFICES ASSUME FlashedInv PROVE OnSchedule
      OBVIOUS
    <2>1. CASE image = "blink"
      BY <2>1, BlinkInvFacts DEF FlashedInv
    <2>2. CASE image # "blink"
      <3>0. /\ Period \in Nat /\ MaxBusy \in Nat /\ WdtPeriod \in Nat
            /\ 2 * MaxBusy + 1 < WdtPeriod /\ 0 \in 0 .. Modulus - 1
            /\ busy \in 0 .. MaxBusy /\ image \in Images
        BY Numbers DEF FlashedInv, TickerTypeOK
      <3>1. /\ pc = "board" /\ waited = 0 /\ blink_period_ms = Period
            /\ next_toggle_ms = 0 /\ led = FALSE /\ TickerTypeOK
        BY <2>2 DEF FlashedInv, Idle
      <3>2. TypeOK /\ NeverLate
        <4>1. next_toggle_ms \in 0 .. Modulus - 1 /\ led \in BOOLEAN /\ waited \in Nat
          BY <3>0, <3>1
        <4>2. TypeOK
          BY <3>1, <4>1 DEF TypeOK
        <4>3. NeverLate
          BY <3>0, <3>1 DEF NeverLate, Slack
        <4> QED BY <4>2, <4>3
      <3>3. WatchdogFed
        BY FedInAll DEF WatchdogFed
      <3> QED BY <3>2, <3>3 DEF OnSchedule
    <2> QED BY <2>1, <2>2
  <1> QED BY <1>1, FlashedInvInit, FlashedInvStep, PTL DEF FlashedSpec

(* ... nor is the LED early: hal_timer_deadline_reached is not fooled by
   the wrap of g_now_ms. *)
THEOREM BlinkNeverEarly == FlashedSpec => NeverEarly
  <1>1. FlashedInv /\ [FlashedNext]_image_vars =>
          [(pc \notin {"board", "timer", "wdt"} /\ led' # led) =>
              waited >= blink_period_ms]_vars
    <2> SUFFICES ASSUME FlashedInv, FlashedNext, pc \notin {"board", "timer", "wdt"},
                        led' # led
                 PROVE  waited >= blink_period_ms
      BY DEF image_vars, blink_vars
    <2>1. Runs("blink") /\ (Main \/ Tick)
      BY DEF FlashedNext, Thread, Milliseconds, Transmitter, TransmitInterrupt, Oscillator,
         EndOfRead, Outside, Runs, blink_vars
    <2>2. Toggle /\ BlinkInv
      BY <2>1 DEF Runs, FlashedInv, Main, BoardInit, InitTimer, InitWdt, FailUnless, Step,
         Reload, Check, KickWdt, WaitForTick, Tick
    <2> QED BY <2>2 DEF Toggle, Step, BlinkInv, OnTime, P
  <1> QED BY <1>1, FlashedInvInit, FlashedInvStep, PTL DEF FlashedSpec, NeverEarly

(* app/fault_record_test/main.c: after any resets and power losses the test
   raises its fault once per record, and while it blinks there is a fault to
   be read and the watchdog is fed. *)
THEOREM FaultIsReported == FlashedSpec => []FaultReported
  <1>1. FlashedInv => FaultReported
    <2> SUFFICES ASSUME FlashedInv PROVE FaultReported
      OBVIOUS
    <2>1. Fault!TypeOK
      BY DEF FlashedInv, FaultTypeOK, Loop, TickerTypeOK, Fault!TypeOK, Fault!TickerTypeOK
    <2>2. Fault!FaultsOnce
      BY DEF FlashedInv, RecordInv, Fault!FaultsOnce
    <2>3. Fault!BlinkShowsRecord
      <3> SUFFICES ASSUME fault_pc \in Loop
                   PROVE  record = "fault" /\ wdt /\ unfed < WdtPeriod
        BY DEF Fault!BlinkShowsRecord, Loop
      <3>1. image = "fault" /\ record = "fault" /\ wdt
        BY DEF FlashedInv, Idle, RecordInv, FaultFed, Loop
      <3>2. unfed < WdtPeriod
        BY <3>1, Numbers DEF FlashedInv, FaultFed, TickerTypeOK
      <3> QED BY <3>1, <3>2
    <2> QED BY <2>1, <2>2, <2>3 DEF FaultReported, Fault!FaultReported
  <1> QED BY <1>1, FlashedInvInit, FlashedInvStep, PTL DEF FlashedSpec
-----------------------------------------------------------------------------
(* The transmit test waits: e milliseconds of DrainWait are over.          *)
Waiting == test_pc \in {"wait", "kick", "sleep"}
WaitedFor(e) == deadline = (g_now_ms + (DrainWait - e)) % Modulus

(* A byte has left in each of e milliseconds but perhaps the first, or all *)
(* have.                                                                   *)
Draining(e) ==
  \/ ring = 0 /\ fifo = 0 /\ ~ armed
  \/ ring + fifo + e <= Capacity + (IF shifted THEN 0 ELSE 1)

TestTypes ==
  /\ ring \in 0 .. Capacity /\ fifo \in 0 .. FifoDepth /\ ring + fifo <= Capacity
  /\ armed \in BOOLEAN /\ shifted \in BOOLEAN
  /\ dropped_count \in 0 .. CountModulus - 1 /\ before \in 0 .. CountModulus - 1
  /\ test_pc \in {"init", "write", "verdict", "wait", "kick", "sleep", "blink", "failed"}
  /\ step \in 1 .. Len(Script) /\ accepted \in 0 .. Script[step].length
  /\ deadline \in 0 .. Modulus - 1

(* A write finds the transmitter drained and fills the ring alone; later   *)
(* the interrupt is armed as long as there is a byte for it.               *)
Bursts ==
  /\ image # "test" => test_pc = "init"
  /\ test_pc \in {"init", "write"} => fifo = 0 /\ ~ armed /\ ring = accepted
  /\ ring > 0 => armed \/ test_pc = "write"
  /\ Waiting => step < Len(Script)

DrainInv ==
  TestTypes /\ Bursts /\ (Waiting => \E e \in Nat : WaitedFor(e) /\ Draining(e))

LEMMA TestNumbers ==
  /\ Capacity \in Nat /\ FifoDepth \in Nat \ {0} /\ DrainWait \in Nat
  /\ DrainWait < Modulus \div 2 /\ DrainWait > Capacity + 1
  /\ CountModulus \in Nat \ {0} /\ Modulus \in Nat \ {0} /\ Modulus % 2 = 0
  /\ Len(Script) \in Nat \ {0}
  /\ \A s \in 1 .. Len(Script) : Script[s].length \in Nat \ {0}
  <1>1. /\ Capacity \in Nat /\ FifoDepth \in Nat \ {0} /\ DrainWait \in Nat
        /\ DrainWait < Modulus \div 2 - 2 * MaxBusy /\ Capacity + FifoDepth < DrainWait
        /\ CountModulus \in Nat \ {0}
    BY ImagesAssumption DEF Test!ScriptFits
  <1>2. Modulus \in Nat \ {0} /\ Modulus % 2 = 0 /\ MaxBusy \in Nat
    BY Numbers
  <1>3. Script \in Seq([length : Nat \ {0}, expect : Test!Verdict]) /\ Script # << >>
    BY ImagesAssumption DEF Test!ScriptFits
  <1>4. Len(Script) \in Nat \ {0}
    BY <1>3, EmptySeq, LenProperties
  <1>5. ASSUME NEW s \in 1 .. Len(Script) PROVE Script[s].length \in Nat \ {0}
    <2>1. Script[s] \in [length : Nat \ {0}, expect : Test!Verdict]
      BY <1>3, ElementOfSeq
    <2> QED BY <2>1
  <1> QED BY <1>1, <1>2, <1>4, <1>5

LEMMA DrainInit == FlashedInit => DrainInv
  <1> SUFFICES ASSUME FlashedInit PROVE DrainInv
    OBVIOUS
  <1>1. Test!Init
    BY DEF FlashedInit
  <1>2. /\ 0 \in 0 .. Script[1].length /\ 1 \in 1 .. Len(Script)
        /\ 0 \in 0 .. CountModulus - 1 /\ 0 \in 0 .. Modulus - 1
        /\ 0 \in 0 .. Capacity /\ 0 \in 0 .. FifoDepth /\ 0 + 0 <= Capacity
    BY TestNumbers
  <1>3. TestTypes
    BY <1>1, <1>2, TestNumbers DEF Test!Init, TestTypes
  <1> QED BY <1>1, <1>3 DEF Test!Init, DrainInv, Bursts, Waiting

(* A millisecond of the wait, in which a byte has left or none was there.  *)
LEMMA DrainTick ==
  ASSUME DrainInv, TickerTypeOK, Test!Tick, UNCHANGED image
  PROVE  DrainInv'
  <1>1. /\ g_now_ms' = (g_now_ms + 1) % Modulus /\ UNCHANGED <<ring, fifo, armed>>
        /\ shifted' = FALSE /\ (shifted \/ (fifo = 0 /\ ~ armed))
        /\ UNCHANGED <<dropped_count, test_pc, step, accepted, before, deadline>>
    BY DEF Test!Tick, Test!SysTick, Test!Increment, Test!main
  <1>2. TestTypes' /\ Bursts'
    BY <1>1 DEF DrainInv, TestTypes, Bursts, Waiting
  <1>3. ASSUME NEW e \in Nat, WaitedFor(e), Draining(e), Waiting
        PROVE  WaitedFor(e + 1)' /\ Draining(e + 1)'
    <2>1. Draining(e + 1)'
      BY <1>1, <1>3, TestNumbers DEF DrainInv, TestTypes, Bursts, Waiting, Draining
    <2>2. g_now_ms \in Int /\ DrainWait - (e + 1) \in Int /\ g_now_ms + 1 \in Int
      BY TestNumbers DEF TickerTypeOK
    <2>3. (((g_now_ms + 1) % Modulus) + (DrainWait - (e + 1))) % Modulus
            = ((g_now_ms + 1) + (DrainWait - (e + 1))) % Modulus
      BY <2>2, ModAdd, TestNumbers
    <2>4. (g_now_ms + 1) + (DrainWait - (e + 1)) = g_now_ms + (DrainWait - e)
      BY <2>2, TestNumbers
    <2> QED BY <1>1, <1>3, <2>1, <2>3, <2>4 DEF WaitedFor
  <1>4. Waiting' => \E e \in Nat : WaitedFor(e)' /\ Draining(e)'
    <2> SUFFICES ASSUME Waiting PROVE \E e \in Nat : WaitedFor(e)' /\ Draining(e)'
      BY <1>1 DEF Waiting
    <2>1. PICK e \in Nat : WaitedFor(e) /\ Draining(e)
      BY DEF DrainInv
    <2>2. e + 1 \in Nat
      OBVIOUS
    <2> QED BY <1>3, <2>1, <2>2
  <1> QED BY <1>2, <1>4 DEF DrainInv

(* The wait ends late enough. *)
LEMMA Outwaited ==
  ASSUME TickerTypeOK, NEW e \in Nat, WaitedFor(e), Test!DeadlineReached(deadline)
  PROVE  e >= DrainWait
  <1> SUFFICES ASSUME e < DrainWait PROVE FALSE
    BY TestNumbers
  <1>1. g_now_ms \in Int /\ DrainWait - e \in Int /\ g_now_ms + (DrainWait - e) \in Int
    BY TestNumbers DEF TickerTypeOK
  <1>2. (g_now_ms - deadline) % Modulus = (g_now_ms - (g_now_ms + (DrainWait - e))) % Modulus
    BY <1>1, ModSub, TestNumbers DEF WaitedFor
  <1>3. g_now_ms - (g_now_ms + (DrainWait - e)) = e - DrainWait
    BY <1>1, TestNumbers
  <1>4. (e - DrainWait) % Modulus < Modulus \div 2
    BY <1>2, <1>3 DEF Test!DeadlineReached
  <1>5. /\ e - DrainWait \in Int /\ -(Modulus \div 2) < e - DrainWait
        /\ e - DrainWait < Modulus \div 2
    BY TestNumbers
  <1>6. e - DrainWait >= 0
    BY <1>4, <1>5, WrappedDistance, TestNumbers
  <1> QED BY <1>6, TestNumbers

LEMMA DrainStep ==
  ASSUME DrainInv, TickerTypeOK, Test!Next, image = "test", UNCHANGED image
  PROVE  DrainInv'
  <1>0. /\ ring \in Nat /\ fifo \in Nat /\ accepted \in Nat /\ step \in Nat
        /\ Script[step].length \in Nat \ {0} /\ g_now_ms \in Int
        /\ Capacity \in Nat /\ FifoDepth \in Nat
    BY TestNumbers DEF DrainInv, TestTypes, TickerTypeOK
  <1> USE <1>0
  <1>1. CASE Test!Tick
    BY <1>1, DrainTick
  <1>2. CASE Test!Service \/ Test!Shift
    <2>1. /\ UNCHANGED <<g_now_ms, dropped_count, test_pc, step, accepted, before, deadline>>
          /\ \/ armed /\ ring = 0 /\ armed' = FALSE /\ UNCHANGED <<ring, fifo, shifted>>
             \/ /\ armed /\ ring > 0 /\ fifo < FifoDepth /\ UNCHANGED armed
                /\ ring' = ring - 1 /\ fifo' = fifo + 1 /\ UNCHANGED shifted
             \/ fifo > 0 /\ fifo' = fifo - 1 /\ shifted' = TRUE /\ UNCHANGED <<ring, armed>>
      BY <1>2 DEF Test!Service, Test!Shift, Test!main, Test!ticker, DrainInv, TestTypes
    <2>2. test_pc \notin {"init", "write"}
      BY <2>1 DEF DrainInv, Bursts
    <2>3. /\ ring' \in 0 .. Capacity /\ fifo' \in 0 .. FifoDepth /\ ring' + fifo' <= Capacity
          /\ armed' \in BOOLEAN /\ shifted' \in BOOLEAN /\ (ring' > 0 => armed')
      <3>1. /\ ring \in 0 .. Capacity /\ fifo \in 0 .. FifoDepth /\ ring + fifo <= Capacity
            /\ armed \in BOOLEAN /\ shifted \in BOOLEAN /\ (ring > 0 => armed)
        BY <2>2 DEF DrainInv, TestTypes, Bursts
      <3>2. CASE armed' = FALSE /\ UNCHANGED <<ring, fifo, shifted>> /\ ring = 0
        <4>1. armed' \in BOOLEAN
          BY <3>2, Zenon
        <4>2. ~ (ring' > 0)
          BY <3>2
        <4> QED BY <3>1, <3>2, <4>1, <4>2
      <3>3. CASE /\ ring > 0 /\ fifo < FifoDepth /\ UNCHANGED <<armed, shifted>>
                 /\ ring' = ring - 1 /\ fifo' = fifo + 1 /\ armed
        BY <3>1, <3>3
      <3>4. CASE fifo > 0 /\ fifo' = fifo - 1 /\ shifted' = TRUE /\ UNCHANGED <<ring, armed>>
        BY <3>1, <3>4
      <3> QED BY <2>1, <3>2, <3>3, <3>4
    <2>4. TestTypes' /\ Bursts'
      BY <2>1, <2>2, <2>3 DEF DrainInv, TestTypes, Bursts, Waiting
    <2>5. \A e \in Nat : WaitedFor(e) /\ Draining(e) => WaitedFor(e)' /\ Draining(e)'
      BY <2>1 DEF WaitedFor, Draining, DrainInv, TestTypes
    <2> QED BY <2>1, <2>4, <2>5 DEF DrainInv, Waiting
  <1>3. ASSUME NEW ok \in BOOLEAN, Test!Start(ok) PROVE DrainInv'
    BY <1>3 DEF Test!Start, Test!Step, Test!uart, DrainInv, TestTypes, Bursts, Waiting
  <1>4. CASE Test!Push
    BY <1>4 DEF Test!Push, Test!Step, DrainInv, TestTypes, Bursts, Waiting
  <1>5. CASE Test!WriteEnd
    <2>1. dropped_count' \in 0 .. CountModulus - 1
      <3>0. dropped_count + 1 \in Int
        BY TestNumbers DEF DrainInv, TestTypes
      <3>1. (dropped_count + 1) % CountModulus \in 0 .. CountModulus - 1
        BY <3>0, ModRange, TestNumbers
      <3> QED BY <1>5, <3>1 DEF Test!WriteEnd, DrainInv, TestTypes
    <2> QED
      BY <1>5, <2>1
      DEF Test!WriteEnd, Test!ArmedAfter, Test!Step, DrainInv, TestTypes, Bursts, Waiting
  <1>6. CASE Test!Judge
    <2>1. /\ test_pc = "verdict" /\ deadline' = (g_now_ms + DrainWait) % Modulus
          /\ \/ test_pc' \in {"failed", "blink"}
             \/ test_pc' = "wait" /\ step # Len(Script)
          /\ UNCHANGED <<g_now_ms, ring, fifo, armed, shifted, dropped_count, step, accepted,
                         before>>
      BY <1>6 DEF Test!Judge, Test!Step, Test!Deadline, Test!uart, Test!ticker
    <2>2. deadline' \in 0 .. Modulus - 1
      <3>1. g_now_ms + DrainWait \in Int
        BY TestNumbers
      <3>2. (g_now_ms + DrainWait) % Modulus \in 0 .. Modulus - 1
        BY <3>1, ModRange, TestNumbers
      <3> QED BY <2>1, <3>2
    <2>3. TestTypes' /\ Bursts'
      BY <2>1, <2>2 DEF DrainInv, TestTypes, Bursts, Waiting
    <2>4. DrainWait - 0 = DrainWait
      BY TestNumbers
    <2>5. WaitedFor(0)' /\ Draining(0)'
      BY <2>1, <2>4 DEF WaitedFor, Draining, DrainInv, TestTypes
    <2> QED BY <2>3, <2>5 DEF DrainInv
  <1>7. CASE Test!Wake
    <2>0. /\ Waiting /\ UNCHANGED <<g_now_ms, ring, fifo, armed, shifted, dropped_count, deadline>>
      BY <1>7 DEF Test!Wake, Test!Step, Test!uart, Test!ticker, Waiting
    <2>1. PICK e \in Nat : WaitedFor(e) /\ Draining(e)
      BY <2>0 DEF DrainInv
    <2>2. CASE Test!DeadlineReached(deadline)
      <3>1. e >= DrainWait
        BY <2>1, <2>2, Outwaited
      <3>2. ring = 0 /\ fifo = 0 /\ ~ armed
        BY <2>1, <3>1, TestNumbers DEF Draining
      <3>3. /\ test_pc' = "write" /\ step' = step + 1 /\ accepted' = 0
            /\ before' = dropped_count
        BY <1>7, <2>2 DEF Test!Wake, Test!Step
      <3>4. step' \in 1 .. Len(Script) /\ accepted' \in 0 .. Script[step'].length
        BY <2>0, <3>3, TestNumbers DEF DrainInv, TestTypes, Bursts
      <3> QED BY <2>0, <3>2, <3>3, <3>4 DEF DrainInv, TestTypes, Bursts, Waiting
    <2>3. CASE ~ Test!DeadlineReached(deadline)
      <3>1. test_pc' = "kick" /\ UNCHANGED <<step, accepted, before>>
        BY <1>7, <2>3 DEF Test!Wake, Test!Step
      <3>2. WaitedFor(e)' /\ Draining(e)'
        BY <2>0, <2>1 DEF WaitedFor, Draining
      <3> QED BY <2>0, <3>1, <3>2 DEF DrainInv, TestTypes, Bursts, Waiting
    <2> QED BY <2>2, <2>3
  <1>8. CASE Test!Feed \/ Test!Sleep
    <2>1. /\ Waiting /\ Waiting' /\ test_pc' \in {"sleep", "wait"}
          /\ UNCHANGED <<g_now_ms, ring, fifo, armed, shifted, dropped_count, step, accepted,
                         before, deadline>>
      BY <1>8 DEF Test!Feed, Test!Sleep, Test!Kick, Test!Wait, Test!Step, Test!uart, Waiting
    <2>2. TestTypes' /\ Bursts'
      BY <2>1 DEF DrainInv, TestTypes, Bursts, Waiting
    <2>3. \A e \in Nat : WaitedFor(e) /\ Draining(e) => WaitedFor(e)' /\ Draining(e)'
      BY <2>1 DEF WaitedFor, Draining
    <2> QED BY <2>1, <2>2, <2>3 DEF DrainInv
  <1> QED
    BY <1>1, <1>2, <1>3, <1>4, <1>5, <1>6, <1>7, <1>8 DEF Test!Next, Test!Main

(* app/uart_tx_test/main.c: each burst of the test meets a transmitter that
   has sent everything before it, so that neither verdict depends on when
   ticks and interrupts fell, and the waits keep the watchdog fed.  This is
   what the liveness of TestIsSound rests on. *)
THEOREM BurstsMeetDrained ==
  FlashedSpec => [](Test!TypeOK /\ Test!DrainedBeforeBurst /\ Test!WatchdogFed)
  <1>1. FlashedInv /\ DrainInv /\ [FlashedNext]_image_vars => DrainInv'
    <2> SUFFICES ASSUME FlashedInv, DrainInv, [FlashedNext]_image_vars PROVE DrainInv'
      OBVIOUS
    <2>1. \/ Test!Next /\ image = "test" /\ UNCHANGED image
          \/ UNCHANGED test_vars /\ UNCHANGED image /\ image # "test"
          \/ UNCHANGED image_vars
      BY DEF FlashedNext, Thread, Milliseconds, Transmitter, TransmitInterrupt, Oscillator,
         EndOfRead, Outside, Runs, Test!Next
    <2>2. CASE UNCHANGED test_vars /\ UNCHANGED image /\ image # "test"
      BY <2>2 DEF test_vars, DrainInv, TestTypes, Bursts, Waiting
    <2>3. CASE UNCHANGED image_vars
      <3>1. UNCHANGED <<image, g_now_ms>> /\ UNCHANGED test_vars
        BY <2>3 DEF image_vars, ticker
      <3>2. TestTypes' /\ Bursts'
        BY <3>1 DEF test_vars, DrainInv, TestTypes, Bursts, Waiting
      <3>3. \A e \in Nat : WaitedFor(e) /\ Draining(e) => WaitedFor(e)' /\ Draining(e)'
        BY <3>1 DEF test_vars, WaitedFor, Draining
      <3> QED BY <3>1, <3>2, <3>3 DEF DrainInv, test_vars, Waiting
    <2> QED BY <2>1, <2>2, <2>3, DrainStep DEF FlashedInv
  <1>2. FlashedInv /\ DrainInv =>
          Test!TypeOK /\ Test!DrainedBeforeBurst /\ Test!WatchdogFed
    <2> SUFFICES ASSUME FlashedInv, DrainInv
                 PROVE  Test!TypeOK /\ Test!DrainedBeforeBurst /\ unfed < WdtPeriod
      BY DEF Test!WatchdogFed
    <2>1. Test!TypeOK
      BY DEF FlashedInv, DrainInv, TestTypes, Test!TypeOK, TickerTypeOK, Test!TickerTypeOK
    <2>2. Test!DrainedBeforeBurst
      BY DEF DrainInv, Bursts, Test!DrainedBeforeBurst
    <2> QED BY <2>1, <2>2, FedInAll
  <1> QED BY <1>1, <1>2, FlashedInvInit, FlashedInvStep, DrainInit, PTL DEF FlashedSpec
-----------------------------------------------------------------------------
(* A status image is six bytes, and a counter has two of them.             *)
StatusImage == [Status!Offsets -> 0 .. Base - 1]
Tallies == [Status!Counters -> Status!Count]

LEMMA StatusNumbers ==
  /\ Base \in Nat \ {0} /\ Status!CounterModulus \in Nat \ {0}
  /\ Status!CounterModulus = Base * Base /\ 0 \in Status!Count
  /\ \A n \in Int : (n + 1) % Status!CounterModulus \in Status!Count
  <1>1. Base \in Nat \ {0}
    BY ImagesAssumption DEF Status!BytesFit
  <1>2. Base * Base \in Nat \ {0}
    BY <1>1
  <1>3. ASSUME NEW n \in Int PROVE (n + 1) % Status!CounterModulus \in Status!Count
    <2>1. n + 1 \in Int
      OBVIOUS
    <2> QED BY <1>2, <2>1, ModRange DEF Status!CounterModulus, Status!Count
  <1> QED BY <1>1, <1>2, <1>3 DEF Status!CounterModulus, Status!Count

(* Both bytes of a counter are bytes, and make it up again.                *)
LEMMA TwoBytes ==
  ASSUME NEW n \in Status!Count
  PROVE  /\ n \div Base \in 0 .. Base - 1 /\ n % Base \in 0 .. Base - 1
         /\ (n \div Base) * Base + (n % Base) = n
  <1>1. PICK b \in Nat \ {0} : b = Base
    BY StatusNumbers
  <1>2. n \in Nat /\ n < b * b
    BY <1>1, StatusNumbers DEF Status!Count
  <1>3. n = b * (n \div b) + (n % b) /\ n \div b \in Int /\ n % b \in 0 .. b - 1
    BY <1>2, ModQuotient, ModRange
  <1>4. PICK q \in Int, r \in 0 .. b - 1 : q = n \div b /\ r = n % b
    BY <1>3
  <1>5. n = b * q + r
    BY <1>3, <1>4
  <1>6. q >= 0
    <2> SUFFICES ASSUME q <= -1 PROVE FALSE
      OBVIOUS
    <2>1. b * q <= -b
      OBVIOUS
    <2> QED BY <1>2, <1>5, <2>1
  <1>7. q < b
    <2> SUFFICES ASSUME q >= b PROVE FALSE
      OBVIOUS
    <2>1. PICK d \in Nat : q = b + d
      BY q - b \in Nat
    <2>2. b * q = b * b + b * d /\ b * d >= 0
      BY <2>1
    <2> QED BY <1>2, <1>5, <2>2
  <1>8. b * q = q * b
    OBVIOUS
  <1>9. n \div Base = q /\ n % Base = r
    BY <1>1, <1>4
  <1>10. q \in 0 .. b - 1 /\ q * b + r = n
    BY <1>5, <1>6, <1>7, <1>8
  <1> QED BY <1>1, <1>9, <1>10

(* The three offsets do not overlap: what is written is what is read.      *)
LEMMA DecodeEncode ==
  ASSUME NEW c \in Tallies
  PROVE  Status!Encode(c) \in StatusImage /\ Status!Decode(Status!Encode(c)) = c
  <1> DEFINE At(o) == CHOOSE n \in Status!Counters :
                        o \in Status!Position[n] .. Status!Position[n] + 1
             Coded(o) == IF o = Status!Position[At(o)] THEN c[At(o)] \div Base
                         ELSE c[At(o)] % Base
  <1>1. Status!Encode(c) = [o \in Status!Offsets |-> Coded(o)]
    BY DEF Status!Encode
  <1>2. /\ At(0) = "errors" /\ At(1) = "errors" /\ At(2) = "rejected"
        /\ At(3) = "rejected" /\ At(4) = "unexpected" /\ At(5) = "unexpected"
    BY DEF Status!Position, Status!Counters
  <1>3. \A o \in Status!Offsets : At(o) \in Status!Counters
    BY <1>2 DEF Status!Offsets, Status!Counters
  <1> HIDE DEF At
  <1>4. \A o \in Status!Offsets : Coded(o) \in 0 .. Base - 1
    BY <1>3, TwoBytes DEF Tallies
  <1>5. \A o \in Status!Offsets : Status!Encode(c)[o] = Coded(o)
    BY <1>1
  <1>6. /\ Coded(0) = c["errors"] \div Base /\ Coded(1) = c["errors"] % Base
        /\ Coded(2) = c["rejected"] \div Base /\ Coded(3) = c["rejected"] % Base
        /\ Coded(4) = c["unexpected"] \div Base /\ Coded(5) = c["unexpected"] % Base
    BY <1>2 DEF Status!Position
  <1> HIDE DEF Coded
  <1>7. \A k \in Status!Counters :
          /\ Status!Encode(c)[Status!Position[k]] = c[k] \div Base
          /\ Status!Encode(c)[Status!Position[k] + 1] = c[k] % Base
    BY <1>5, <1>6 DEF Status!Position, Status!Counters, Status!Offsets
  <1>8. ASSUME NEW k \in Status!Counters
        PROVE  Status!Decode(Status!Encode(c))[k] = c[k]
    <2>1. c[k] \in Status!Count
      BY DEF Tallies
    <2>2. Status!Decode(Status!Encode(c))[k] = (c[k] \div Base) * Base + (c[k] % Base)
      BY <1>7 DEF Status!Decode
    <2> QED BY <2>1, <2>2, TwoBytes
  <1>9. Status!Decode(Status!Encode(c)) = c
    BY <1>8 DEF Status!Decode, Tallies
  <1> QED BY <1>1, <1>4, <1>9 DEF StatusImage

(* A latch has an image. *)
Latches ==
  /\ latch = [r \in Readers |-> latch[r]]
  /\ \A r \in Readers :
       latch[r] = NoLatch \/ latch[r] \in [image : StatusImage, current : BOOLEAN]

StatusInv ==
  /\ published \in StatusImage /\ Latches
  /\ errors \in Status!Count /\ unexpected \in Status!Count /\ rejected \in Status!Count
  /\ main_pc \in {"init", "watchdog", "errors", "rejected", "unexpected", "compare", "fail",
                  "not_open"}
  /\ read \in Tallies /\ last \in Tallies /\ status_published \in BOOLEAN
  /\ Status!CacheMatchesPage

LEMMA StatusInit == Status!Init => StatusInv
  <1> SUFFICES ASSUME Status!Init PROVE StatusInv
    OBVIOUS
  <1>1. Status!Zero \in Tallies
    BY StatusNumbers DEF Status!Zero, Tallies
  <1>2. /\ Status!Encode(Status!Zero) \in StatusImage
        /\ Status!Decode(Status!Encode(Status!Zero)) = Status!Zero
    BY <1>1, DecodeEncode
  <1> QED
    BY <1>1, <1>2, StatusNumbers
    DEF Status!Init, StatusInv, Latches, Status!CacheMatchesPage

LEMMA StatusStep == ASSUME StatusInv, Status!Next PROVE StatusInv'
  <1> USE DEF StatusInv
  <1>1. ASSUME NEW ok \in BOOLEAN, Status!DemoInit(ok) \/ Status!WatchdogInit(ok)
        PROVE  StatusInv'
    BY <1>1
    DEF Status!DemoInit, Status!WatchdogInit, Status!page, Status!isr, Latches,
        Status!CacheMatchesPage
  <1>2. ASSUME NEW k \in Status!Counters, NEW next \in {"rejected", "unexpected", "compare"},
               Status!ReadCounter(k, next)
        PROVE  StatusInv'
    <2>1. Status!Now[k] \in Status!Count
      BY DEF Status!Now, Status!Counters
    <2>2. read' \in Tallies
      BY <1>2, <2>1 DEF Status!ReadCounter, Tallies
    <2> QED
      BY <1>2, <2>2
      DEF Status!ReadCounter, Status!page, Status!isr, Latches, Status!CacheMatchesPage
  <1>3. CASE Status!Unchanged
    BY <1>3 DEF Status!Unchanged, Status!page, Status!isr, Latches, Status!CacheMatchesPage
  <1>4. CASE Status!Publish
    <2>1. CASE Status!Page!Publish(Status!Encode(read)) /\ last' = read /\ status_published' = TRUE
      <3>1. published' = Status!Encode(read) /\ rejected' = rejected
        BY <2>1 DEF Status!Page!Publish
      <3>2. published' \in StatusImage /\ Status!Decode(published') = last'
        BY <2>1, <3>1, DecodeEncode
      <3>3. Latches'
        BY <2>1 DEF Latches, Status!Page!Publish
      <3> QED
        BY <1>4, <2>1, <3>1, <3>2, <3>3
        DEF Status!Publish, Status!isr, Status!CacheMatchesPage, Status!Decode
    <2>2. CASE Status!Page!PublishRejected /\ UNCHANGED <<last, status_published>>
      <3>1. rejected' \in Status!Count
        BY <2>2, StatusNumbers DEF Status!Page!PublishRejected, Status!Count
      <3> QED
        BY <1>4, <2>2, <3>1
        DEF Status!Publish, Status!Page!PublishRejected, Status!isr, Latches,
            Status!CacheMatchesPage
    <2> QED BY <1>4, <2>1, <2>2 DEF Status!Publish
  <1>5. CASE Status!CountError \/ Status!CountUnexpected
    <2>1. errors \in Int /\ unexpected \in Int
      BY DEF Status!Count
    <2>2. errors' \in Status!Count /\ unexpected' \in Status!Count
      BY <1>5, <2>1, StatusNumbers DEF Status!CountError, Status!CountUnexpected
    <2> QED
      BY <1>5, <2>2
      DEF Status!CountError, Status!CountUnexpected, Status!page, Latches,
          Status!CacheMatchesPage
  <1>6. ASSUME NEW r \in Readers, Status!Latch(r) \/ Status!Unlatch(r) PROVE StatusInv'
    <2>1. /\ UNCHANGED <<published, value, rejected>>
          /\ \/ latch' = [latch EXCEPT ![r] = [image |-> published, current |-> TRUE]]
             \/ latch' = [latch EXCEPT ![r] = NoLatch]
      BY <1>6 DEF Status!Latch, Status!Unlatch, Status!Page!Acquire, Status!Page!Release
    <2>2. PICK x : /\ latch' = [latch EXCEPT ![r] = x]
                   /\ x = NoLatch \/ x \in [image : StatusImage, current : BOOLEAN]
      <3> HIDE DEF StatusInv
      <3>1. published \in StatusImage
        BY DEF StatusInv
      <3>2. [image |-> published, current |-> TRUE] \in [image : StatusImage, current : BOOLEAN]
        BY <3>1
      <3> QED BY <2>1, <3>2
    <2>3. Latches'
      <3> HIDE DEF StatusInv
      <3>1. Latches
        BY DEF StatusInv
      <3> QED BY <2>2, <3>1 DEF Latches
    <2> QED
      BY <1>6, <2>1, <2>3 DEF Status!Latch, Status!Unlatch, Status!isr, Status!CacheMatchesPage
  <1>7. CASE Status!DemoFail
    BY <1>7
    DEF Status!DemoFail, Status!vars, Status!page, Status!isr, Latches,
        Status!CacheMatchesPage
  <1> QED
    BY <1>1, <1>2, <1>3, <1>4, <1>5, <1>6, <1>7
    DEF Status!Next, Status!Main, Status!ReadErrors, Status!ReadRejected,
        Status!ReadUnexpected, Status!Counters

(* app/i2c_regmap_demo/main.c: the counts that the main loop remembers are
   those a controller decodes from the page, whatever latches have made it
   refuse: a publication that is skipped leaves no older value there.  This
   is what the liveness of StatusConverges rests on. *)
THEOREM CacheIsThePage == FlashedSpec => [](Status!TypeOK /\ Status!CacheMatchesPage)
  <1>1. StatusInv /\ [FlashedNext]_image_vars => StatusInv'
    <2> SUFFICES ASSUME StatusInv, [FlashedNext]_image_vars PROVE StatusInv'
      OBVIOUS
    <2>1. Status!Next \/ UNCHANGED status_vars
      BY DEF FlashedNext, Thread, Milliseconds, Transmitter, TransmitInterrupt, Oscillator,
         EndOfRead, Outside, Runs, image_vars, Status!Next
    <2>2. CASE UNCHANGED status_vars
      BY <2>2 DEF status_vars, StatusInv, Latches, Status!CacheMatchesPage
    <2> QED BY <2>1, <2>2, StatusStep
  <1>2. StatusInv => Status!TypeOK /\ Status!CacheMatchesPage
    BY DEF StatusInv, Latches, StatusImage, Tallies, Status!TypeOK
  <1> QED BY <1>1, <1>2, StatusInit, PTL DEF FlashedSpec, FlashedInit
=============================================================================
