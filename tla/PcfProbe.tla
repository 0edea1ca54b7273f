------------------------------ MODULE PcfProbe ------------------------------
(***************************************************************************)
(* app/pcf8574a_demo/main.c over hal_i2c_controller (module I2cController) *)
(* and the I2C1 claim of board_init.c: initialise, scan two address ranges *)
(* for a port expander, read it, read it again with a repeated START, then *)
(* blink; or stop with a steady LED at the first failure.                  *)
(***************************************************************************)
EXTENDS Integers, Sequences

CONSTANTS
  Entries, MaxTransfer, PollLimit, Address, Present,   \* as in I2cController
  FirstA, LastA,   \* PCF8574A_ADDRESS_FIRST and _LAST
  FirstB, LastB    \* PCF8574_ADDRESS_FIRST and _LAST

Scanned == (FirstA .. LastA) \cup (FirstB .. LastB)

RangesFit ==
  /\ FirstA \in Nat /\ LastA \in Nat /\ FirstB \in Nat /\ LastB \in Nat
  /\ FirstA <= LastA /\ FirstB <= LastB
  /\ Scanned \subseteq Address \ {0}
  /\ (FirstA .. LastA) \cap (FirstB .. LastB) = {}

VARIABLES
  initialized, pc, op, result, index, last_status, data, msa_mctr, bits, txfifo,
  rxfifo, flushing, ris, mode, wire, received, xfer, started, ended,
  stretched,          \* hal_i2c_controller and the bus
  claimed,            \* g_i2c1_claimed
  main_pc,            \* where main is
  trying,             \* the address try_range is at
  stage,              \* g_pcf8574a_stage
  address,            \* g_pcf8574a_address, 0 while none has answered
  port_value,         \* g_pcf8574a_port_value, as the byte it came from
  probe_result,       \* g_pcf8574a_result
  watchdog_running,   \* g_watchdog_running
  absent              \* the addresses reported as not acknowledged

controller == <<initialized, pc, op, result, index, last_status, data, msa_mctr,
                bits, txfifo, rxfifo, flushing, ris, mode, wire, received, xfer,
                started, ended, stretched>>
globals == <<claimed, stage, address, port_value, probe_result,
             watchdog_running, absent>>
vars == <<controller, main_pc, trying, globals>>

Controller == INSTANCE I2cController

Init ==
  /\ Controller!Init
  /\ claimed = FALSE
  /\ main_pc = "board" /\ trying = FirstA
  /\ stage = "INIT" /\ address = 0 /\ port_value = << >>
  /\ probe_result = "NOT_INITIALIZED"
  /\ watchdog_running = FALSE
  /\ absent = {}

(* pcf8574a_demo_fail: keep the result, light the LED, stay here. *)
Fail(r) == main_pc' = "fail" /\ probe_result' = r

(* board_init and hal_timer_init_1ms; a clock fallback is no failure. *)
BoardInit(init_result, timer_ok) ==
  /\ main_pc = "board"
  /\ IF init_result \in {"GPIO_FAILURE", "UART_FAILURE"} \/ ~ timer_ok
     THEN Fail("NOT_INITIALIZED")
     ELSE main_pc' = "i2c1" /\ UNCHANGED probe_result
  /\ UNCHANGED <<controller, trying, claimed, stage, address, port_value,
                 watchdog_running, absent>>

(* board_i2c1_controller_init: claim I2C1, and give it back when           *)
(* hal_i2c_controller_init refuses the configuration.  Nobody else claims  *)
(* it in this application.                                                 *)
I2c1ControllerInit(config_is_valid) ==
  /\ main_pc = "i2c1"
  /\ ~ claimed
  /\ \/ /\ Controller!ControllerInit(config_is_valid)
        /\ claimed' = TRUE /\ main_pc' = "watchdog" /\ UNCHANGED probe_result
     \/ /\ ~ config_is_valid
        /\ claimed' = FALSE /\ Fail("NOT_INITIALIZED") /\ UNCHANGED controller
  /\ UNCHANGED <<trying, stage, address, port_value, watchdog_running, absent>>

WatchdogInit(ok) ==
  /\ main_pc = "watchdog"
  /\ IF ok THEN main_pc' = "scan" /\ stage' = "SCAN" /\ UNCHANGED probe_result
           ELSE Fail("NOT_INITIALIZED") /\ UNCHANGED stage
  /\ watchdog_running' = ok
  /\ UNCHANGED <<controller, trying, claimed, address, port_value, absent>>
-----------------------------------------------------------------------------
(* main calls an operation of the driver: from one place to another. *)
CallDriver(from, to, a, w, r) ==
  /\ main_pc = from
  /\ Controller!Call(a, w, r)
  /\ main_pc' = to
  /\ UNCHANGED <<trying, globals>>

Returned(at) == main_pc = at /\ pc = "idle"

(* pcf8574a_demo_try_range: one write at the address it is at. *)
TryAddress == CallDriver("scan", "tried", trying, 1, 0)

(* The write was not acknowledged: the next address, then the other range, *)
(* then give up (pcf8574a_demo_find_target).                               *)
Mut_NextAddressStopsShort ==
  IF trying \notin {LastA, LastA - 1, LastB}
  THEN trying' = trying + 1 /\ main_pc' = "scan" /\ UNCHANGED probe_result
  ELSE IF trying # LastB
  THEN trying' = FirstB /\ main_pc' = "scan" /\ UNCHANGED probe_result
  ELSE Fail("ADDRESS_NACK") /\ UNCHANGED trying

NextAddress ==
  IF trying \notin {LastA, LastB}
  THEN trying' = trying + 1 /\ main_pc' = "scan" /\ UNCHANGED probe_result
  ELSE IF trying = LastA
  THEN trying' = FirstB /\ main_pc' = "scan" /\ UNCHANGED probe_result
  ELSE Fail("ADDRESS_NACK") /\ UNCHANGED trying

Mut_TriedRetries ==
  /\ Returned("tried")
  /\ IF result = "OK"
     THEN /\ address' = trying /\ main_pc' = "read"
          /\ stage' = "SEPARATE_READ"
          /\ UNCHANGED <<trying, probe_result, absent>>
     ELSE main_pc' = "scan" /\
          UNCHANGED <<trying, probe_result, address, stage, absent>>
  /\ UNCHANGED <<controller, claimed, port_value, watchdog_running>>

Tried ==
  /\ Returned("tried")
  /\ CASE result = "OK" ->
            /\ address' = trying /\ main_pc' = "read"
            /\ stage' = "SEPARATE_READ"
            /\ UNCHANGED <<trying, probe_result, absent>>
       [] result = "ADDRESS_NACK" ->
            /\ NextAddress
            /\ absent' = absent \cup {trying}
            /\ UNCHANGED <<address, stage>>
       [] OTHER ->
            Fail(result) /\ UNCHANGED <<trying, address, stage, absent>>
  /\ UNCHANGED <<controller, claimed, port_value, watchdog_running>>

SeparateRead == CallDriver("read", "was_read", address, 0, 1)

CombinedRead == CallDriver("combine", "combined", address, 1, 1)

(* A read has returned: stop unless it is OK, else keep the port value and *)
(* enter the next stage.                                                   *)
ReadReturned(at, next, s) ==
  /\ Returned(at)
  /\ probe_result' = result
  /\ IF result = "OK"
     THEN main_pc' = next /\ stage' = s /\ port_value' = data
     ELSE main_pc' = "fail" /\ UNCHANGED <<stage, port_value>>
  /\ UNCHANGED <<controller, trying, claimed, address, watchdog_running, absent>>

Main ==
  \/ \E r \in {"OK", "CLOCK_FALLBACK", "GPIO_FAILURE", "UART_FAILURE"},
        ok \in BOOLEAN : BoardInit(r, ok)
  \/ \E valid \in BOOLEAN : I2c1ControllerInit(valid)
  \/ \E ok \in BOOLEAN : WatchdogInit(ok)
  \/ TryAddress \/ Tried
  \/ SeparateRead \/ ReadReturned("was_read", "combine", "COMBINED_READ")
  \/ CombinedRead \/ ReadReturned("combined", "blink", "COMPLETE")
  \/ Controller!Driver /\ UNCHANGED <<main_pc, trying, globals>>

Bus == Controller!Peripheral /\ UNCHANGED <<main_pc, trying, globals>>

Next == Main \/ Bus

(* The CPU runs, and the peripheral takes up a started transfer. *)
Fairness ==
  /\ WF_vars(Main)
  /\ WF_vars(Controller!PickUp /\ UNCHANGED <<main_pc, trying, globals>>)

Spec == Init /\ [][Next]_vars /\ Fairness
-----------------------------------------------------------------------------
(* The type invariant. *)
TypeOK ==
  /\ Controller!TypeOK
  /\ claimed \in BOOLEAN /\ watchdog_running \in BOOLEAN
  /\ main_pc \in {"board", "i2c1", "watchdog", "scan", "tried", "read",
                  "was_read", "combine", "combined", "blink", "fail"}
  /\ trying \in Scanned
  /\ stage \in {"INIT", "SCAN", "SEPARATE_READ", "COMBINED_READ", "COMPLETE"}
  /\ address \in Scanned \cup {0}
  /\ port_value \in Seq((0 .. 1) \X (1 .. MaxTransfer))
  /\ probe_result \in Controller!Result
  /\ absent \subseteq Scanned

(* COMPLETE, what the application announces as PCF8574A_COMBINED_OK, means *)
(* that a target that is there answered and that the port value shown is   *)
(* the byte its combined read delivered, the last transfer on the bus.     *)
CompleteIsGenuine ==
  stage = "COMPLETE" =>
    /\ address \in Present
    /\ probe_result = "OK"
    /\ port_value = <<<<xfer, 1>>>>
    /\ wire = <<<<xfer, 1>>>>

(* The scan skips nobody: the address used is the first one, in the order  *)
(* of the two ranges, that was not refused, and "no target" is reported    *)
(* only after every address of both ranges was refused.  A wiring fault or *)
(* timeout during the scan is never reported as an absent target.          *)
ScanIsComplete ==
  /\ address \in FirstA .. LastA => FirstA .. address - 1 \subseteq absent
  /\ address \in FirstB .. LastB =>
       (FirstA .. LastA) \cup (FirstB .. address - 1) \subseteq absent
  /\ (stage = "SCAN" /\ main_pc = "fail" /\ probe_result = "ADDRESS_NACK") =>
       absent = Scanned

ReportIsTrue == TypeOK /\ CompleteIsGenuine /\ ScanIsComplete

(* Whatever the bus does, main ends in the blink or the steady LED. *)
ProbeEnds == <>(main_pc \in {"blink", "fail"})
=============================================================================
