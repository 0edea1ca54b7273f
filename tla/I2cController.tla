---------------------------- MODULE I2cController ----------------------------
(***************************************************************************)
(* hal/hal_i2c_controller.c: the polled I2C1 controller.  A call prepares  *)
(* the peripheral, preloads the transmit FIFO, starts one transfer and     *)
(* polls a bounded number of times for its end.  The peripheral and the    *)
(* bus run on by themselves between any two register accesses, also after  *)
(* a call has given up.  Bytes are named by the transfer they belong to.   *)
(***************************************************************************)
EXTENDS Integers, Sequences

CONSTANTS
  Entries,       \* I2C_SYS_FENTRIES, the depth of each FIFO
  MaxTransfer,   \* HAL_I2C_CONTROLLER_MAX_TRANSFER
  PollLimit,     \* config->poll_limit
  Address,       \* 7-bit addresses used
  Present        \* the addresses a target on the bus may acknowledge

ASSUME ControllerAssumption ==
  /\ Entries \in Nat /\ MaxTransfer \in 1 .. Entries
  /\ PollLimit \in Nat \ {0}
  /\ 0 \in Address /\ Present \subseteq Address

VARIABLES
  initialized,   \* g_initialized
  pc,            \* where the running call is
  op,            \* its arguments: address, bytes to write, bytes to read
  result,        \* the local result, and what the last call returned
  index,         \* the poll counter
  last_status,   \* g_last_status: the MSR value read last
  data,          \* the bytes the last call handed to its caller
  msa_mctr,      \* MSA and MCTR: address, length, receive, rdtx, stop
  bits,          \* the error bits of MSR
  txfifo, rxfifo, flushing,   \* the FIFOs and MFIFOCTL's flush bits
  ris,           \* CPU_INT.RIS.TIMEOUTA
  mode,          \* what the peripheral is doing on the bus
  wire,          \* the bytes of this transfer a target has acknowledged
  received,      \* how many bytes of this transfer were received
  xfer,          \* which transfer this is, alternating
  started,       \* the running call has started a transfer
  ended,         \* how the transfer came to its end
  stretched      \* SCL was low too long: not, while idle, in the transfer

call == <<initialized, pc, op, result, index, last_status, data, started>>
fifos == <<txfifo, rxfifo, flushing>>
bus == <<bits, mode, wire, received, ended>>
vars == <<call, msa_mctr, fifos, ris, bus, xfer, stretched>>

Bits == {"ARBLST", "ADRACK", "DATACK", "ERR"}
Result == {"OK", "INVALID_ARGUMENT", "NOT_INITIALIZED", "BUSY", "ADDRESS_NACK",
           "DATA_NACK", "ARBITRATION_LOST", "SCL_LOW_TIMEOUT", "SDA_LOW",
           "TIMEOUT", "RX_UNDERFLOW", "IO_ERROR"}

(* MSR.BUSY: not yet set just after MCTR was written (I2C_ERR_13), and not *)
(* set either while the bus is kept without a STOP.                        *)
Busy == mode \notin {"idle", "pending", "held"}
Msr == [busy |-> Busy, bits |-> bits]

Bytes(x, n) == [i \in 1 .. n |-> <<x, i>>]
Mctr0 == [address |-> 0, length |-> 0,
          receive |-> FALSE, rdtx |-> FALSE, stop |-> FALSE]

(* After reset: hal_i2c_controller_init has not run. *)
Init ==
  /\ initialized = FALSE
  /\ pc = "idle" /\ op = [address |-> 0, write |-> 0, read |-> 0] /\ result = "NOT_INITIALIZED"
  /\ index = 0 /\ last_status = [busy |-> FALSE, bits |-> {}] /\ data = << >>
  /\ msa_mctr = Mctr0
  /\ bits = {} /\ txfifo = << >> /\ rxfifo = << >> /\ flushing = FALSE
  /\ ris = FALSE /\ mode = "idle" /\ wire = << >> /\ received = 0
  /\ xfer = 0 /\ started = FALSE /\ ended = "none" /\ stretched = "none"

(* hal_i2c_controller_init: once, and only with a valid configuration (the *)
(* checks of _config_is_valid); resets the peripheral and enables it.      *)
ControllerInit(config_is_valid) ==
  /\ pc = "idle"
  /\ ~ initialized
  /\ config_is_valid
  /\ initialized' = TRUE
  /\ last_status' = [busy |-> FALSE, bits |-> {}]
  /\ msa_mctr' = Mctr0
  /\ ris' = FALSE
  /\ UNCHANGED <<pc, op, result, index, data, started, fifos, bus, xfer,
                 stretched>>
-----------------------------------------------------------------------------
(* hal_i2c_controller_status_result: the first of the MSR error bits. *)
Mut_StatusResultErrFirst(b) ==
  IF "ERR" \in b THEN "IO_ERROR"
  ELSE IF "ARBLST" \in b THEN "ARBITRATION_LOST"
  ELSE IF "ADRACK" \in b THEN "ADDRESS_NACK"
  ELSE IF "DATACK" \in b THEN "DATA_NACK"
  ELSE "OK"

StatusResult(b) ==
  IF "ARBLST" \in b THEN "ARBITRATION_LOST"
  ELSE IF "ADRACK" \in b THEN "ADDRESS_NACK"
  ELSE IF "DATACK" \in b THEN "DATA_NACK"
  ELSE IF "ERR" \in b THEN "IO_ERROR"
  ELSE "OK"

(* The three operations differ in what they write and read: write has      *)
(* r = 0, read has w = 0, write_read has neither.                          *)
Valid(w, r) == w \in 0 .. MaxTransfer /\ r \in 0 .. MaxTransfer /\ w + r > 0

(* The early returns of all three operations. *)
Refuse(w, r) ==
  /\ pc = "idle"
  /\ ~ initialized \/ ~ Valid(w, r)
  /\ result' = IF initialized THEN "INVALID_ARGUMENT" ELSE "NOT_INITIALIZED"
  /\ started' = FALSE
  /\ UNCHANGED <<initialized, pc, op, index, last_status, data, msa_mctr,
                 fifos, ris, bus, xfer, stretched>>

(* hal_i2c_controller_write, _read and _write_read: the call begins. *)
Call(a, w, r) ==
  /\ pc = "idle"
  /\ initialized
  /\ Valid(w, r)
  /\ op' = [address |-> a, write |-> w, read |-> r]
  /\ pc' = "line"
  /\ result' = "OK"
  /\ data' = << >>
  /\ started' = FALSE
  /\ UNCHANGED <<initialized, index, last_status, msa_mctr, fifos, ris, bus,
                 xfer, stretched>>

(* hal_i2c_controller_line_state: MBMON may show any level of the lines. *)
LineState(scl, sda) ==
  /\ pc = "line"
  /\ result' = IF ~ scl THEN "SCL_LOW_TIMEOUT"
               ELSE IF ~ sda THEN "SDA_LOW" ELSE "OK"
  /\ pc' = IF scl /\ sda THEN "prepare" ELSE "idle"
  /\ UNCHANGED <<initialized, op, index, last_status, data, started, msa_mctr,
                 fifos, ris, bus, xfer, stretched>>

(* hal_i2c_controller_clear_events *)
ClearEvents == ris' = FALSE

(* The bounded loops: the last of PollLimit polls. *)
LastPoll(i) == i + 1 = PollLimit

(* hal_i2c_controller_flush_fifos, the request and what it waits for. *)
Mut_DrainedRxOnly == rxfifo = << >>
Drained == txfifo = << >> /\ rxfifo = << >>

BeginFlush == flushing' = TRUE /\ index' = 0 /\ UNCHANGED <<txfifo, rxfifo>>

(* hal_i2c_controller_prepare: refuse while a transfer is still running,   *)
(* otherwise clear MCTR and the events and flush the FIFOs.                *)
Prepare ==
  /\ pc = "prepare"
  /\ last_status' = Msr
  /\ IF Busy
     THEN /\ result' = "BUSY" /\ pc' = "idle"
          /\ UNCHANGED <<index, msa_mctr, fifos, ris, stretched>>
     ELSE /\ msa_mctr' = [Mctr0 EXCEPT !.address = msa_mctr.address]
          /\ ClearEvents /\ stretched' = "none"
          /\ BeginFlush
          /\ pc' = "flush"
          /\ UNCHANGED result
  /\ UNCHANGED <<initialized, op, data, started, bus, xfer>>

(* hal_i2c_controller_flush_fifos, its bounded wait.  It runs in prepare,  *)
(* where failing to empty the FIFOs is a TIMEOUT, and after a transfer     *)
(* that failed, where the result stands.                                   *)
FlushPoll ==
  /\ pc = "flush"
  /\ LET over == ~ Drained /\ LastPoll(index) IN
     /\ index' = IF Drained \/ over THEN 0 ELSE index + 1
     /\ flushing' = ~ (Drained \/ over)
     /\ pc' = IF Drained /\ result = "OK" THEN "launch"
              ELSE IF Drained \/ over THEN "idle" ELSE "flush"
     /\ result' = IF over /\ result = "OK" THEN "TIMEOUT" ELSE result
  /\ UNCHANGED <<initialized, op, last_status, data, started, msa_mctr, txfifo,
                 rxfifo, ris, bus, xfer, stretched>>
-----------------------------------------------------------------------------
(* hal_i2c_controller_preload_write into a FIFO that drops what does not   *)
(* fit.                                                                    *)
Preload ==
  LET all == txfifo \o Bytes(1 - xfer, op.write)
  IN  txfifo' = SubSeq(all, 1, IF Len(all) > Entries THEN Entries ELSE Len(all))

(* hal_i2c_controller_set_address and _start.  write_read addresses the    *)
(* target for reading and sets RD_ON_TXEMPTY: the peripheral first sends   *)
(* what is in the FIFO.                                                    *)
Mut_StartNoStop ==
  msa_mctr' = [address |-> op.address,
               length |-> IF op.read > 0 THEN op.read ELSE op.write,
               receive |-> op.read > 0,
               rdtx |-> op.read > 0 /\ op.write > 0,
               stop |-> FALSE]

Start ==
  msa_mctr' = [address |-> op.address,
               length |-> IF op.read > 0 THEN op.read ELSE op.write,
               receive |-> op.read > 0,
               rdtx |-> op.read > 0 /\ op.write > 0,
               stop |-> TRUE]

Launch ==
  /\ pc = "launch"
  /\ Preload
  /\ Start
  /\ mode' = "pending" /\ wire' = << >> /\ received' = 0 /\ ended' = "none"
  /\ xfer' = 1 - xfer
  /\ started' = TRUE
  /\ pc' = "delay"
  /\ UNCHANGED <<initialized, op, result, index, last_status, data, rxfifo,
                 flushing, ris, bits, stretched>>

(* hal_i2c_controller_errata_delay: long enough for BUSY to be valid. *)
Mut_ErrataDelayNone ==
  /\ pc = "delay"
  /\ pc' = "status" /\ index' = 0
  /\ UNCHANGED <<initialized, op, result, last_status, data, started, msa_mctr,
                 fifos, ris, bus, xfer, stretched>>

ErrataDelay ==
  /\ pc = "delay"
  /\ mode # "pending"
  /\ pc' = "status" /\ index' = 0
  /\ UNCHANGED <<initialized, op, result, last_status, data, started, msa_mctr,
                 fifos, ris, bus, xfer, stretched>>

(* hal_i2c_controller_wait_for_completion, one poll: first MSR ...         *)
PollStatus ==
  /\ pc = "status"
  /\ last_status' = Msr
  /\ pc' = "events"
  /\ UNCHANGED <<initialized, op, result, index, data, started, msa_mctr, fifos,
                 ris, bus, xfer, stretched>>

(* ... then RIS.  A Timeout A replaces any result and clears the events;   *)
(* otherwise the first error seen stays.  The poll that finds BUSY clear   *)
(* ends the wait, with the flush if the transfer failed.                   *)
Seen ==
  IF ris THEN "SCL_LOW_TIMEOUT"
  ELSE IF result = "OK" THEN StatusResult(last_status.bits) ELSE result

PollEvents ==
  /\ pc = "events"
  /\ ClearEvents
  /\ result' = Seen
  /\ IF last_status.busy
     THEN /\ index' = index + 1
          /\ pc' = IF LastPoll(index) THEN "give_up" ELSE "status"
          /\ UNCHANGED fifos
     ELSE IF Seen # "OK" THEN pc' = "flush" /\ BeginFlush
     ELSE /\ pc' = IF op.read > 0 THEN "fifo" ELSE "idle"
          /\ index' = 0
          /\ UNCHANGED fifos
  /\ UNCHANGED <<initialized, op, last_status, data, started, msa_mctr, bus,
                 xfer, stretched>>

(* The poll limit is reached: ask for a STOP once more, report TIMEOUT     *)
(* whatever was seen, and flush.  The transfer goes on.                    *)
Mut_GiveUpKeepsWaiting ==
  /\ pc = "give_up"
  /\ pc' = "status" /\ index' = 0
  /\ UNCHANGED <<initialized, op, result, last_status, data, started, msa_mctr,
                 fifos, ris, bus, xfer, stretched>>

GiveUp ==
  /\ pc = "give_up"
  /\ msa_mctr' = [msa_mctr EXCEPT !.stop = TRUE]
  /\ result' = "TIMEOUT"
  /\ BeginFlush
  /\ pc' = "flush"
  /\ UNCHANGED <<initialized, op, last_status, data, started, ris, bus, xfer,
                 stretched>>

(* hal_i2c_controller_read_fifo *)
ReadFifo ==
  /\ pc = "fifo"
  /\ pc' = "idle"
  /\ IF Len(rxfifo) < op.read
     THEN result' = "RX_UNDERFLOW" /\ UNCHANGED <<data, rxfifo>>
     ELSE /\ data' = SubSeq(rxfifo, 1, op.read)
          /\ rxfifo' = SubSeq(rxfifo, op.read + 1, Len(rxfifo))
          /\ UNCHANGED result
  /\ UNCHANGED <<initialized, op, index, last_status, started, msa_mctr, txfifo,
                 flushing, ris, bus, xfer, stretched>>

Driver ==
  \/ \E scl, sda \in BOOLEAN : LineState(scl, sda)
  \/ Prepare \/ FlushPoll \/ Launch \/ ErrataDelay
  \/ PollStatus \/ PollEvents \/ GiveUp \/ ReadFifo
-----------------------------------------------------------------------------
(* The peripheral and the bus. *)

(* End the transfer, setting MSR bits b. *)
End(how, b) ==
  /\ mode' = "stopping" /\ ended' = how /\ bits' = bits \cup b

PickUp ==
  /\ mode = "pending"
  /\ mode' = "address"
  /\ bits' = {}
  /\ UNCHANGED <<call, msa_mctr, fifos, ris, wire, received, ended, xfer,
                 stretched>>

AckAddress ==
  /\ mode \in {"address", "readdress"}
  /\ msa_mctr.address \in Present
  /\ mode' = IF mode = "readdress" \/ (msa_mctr.receive /\ ~ msa_mctr.rdtx)
             THEN "read" ELSE "write"
  /\ UNCHANGED <<call, msa_mctr, fifos, ris, bits, wire, received, ended, xfer,
                 stretched>>

NackAddress ==
  /\ mode \in {"address", "readdress"}
  /\ End("address_nack", {"ADRACK", "ERR"})
  /\ UNCHANGED <<call, msa_mctr, fifos, ris, wire, received, xfer, stretched>>

(* Send the oldest byte of the FIFO; the target acknowledges it or not. *)
SendByte(ack) ==
  /\ mode = "write"
  /\ txfifo # << >>
  /\ msa_mctr.rdtx \/ Len(wire) < msa_mctr.length
  /\ txfifo' = Tail(txfifo)
  /\ IF ack
     THEN wire' = Append(wire, Head(txfifo)) /\ UNCHANGED <<mode, ended, bits>>
     ELSE End("data_nack", {"DATACK", "ERR"}) /\ UNCHANGED wire
  /\ UNCHANGED <<call, msa_mctr, rxfifo, flushing, ris, received, xfer,
                 stretched>>

(* RD_ON_TXEMPTY: the repeated START. *)
RepeatStart ==
  /\ mode = "write" /\ msa_mctr.rdtx /\ txfifo = << >>
  /\ mode' = "readdress"
  /\ UNCHANGED <<call, msa_mctr, fifos, ris, bits, wire, received, ended, xfer,
                 stretched>>

ReceiveByte ==
  /\ mode = "read"
  /\ received < msa_mctr.length
  /\ Len(rxfifo) < Entries
  /\ rxfifo' = Append(rxfifo, <<xfer, received + 1>>)
  /\ received' = received + 1
  /\ UNCHANGED <<call, msa_mctr, txfifo, flushing, ris, bits, mode, wire, ended,
                 xfer, stretched>>

BurstDone ==
  /\ \/ mode = "write" /\ ~ msa_mctr.rdtx /\ Len(wire) = msa_mctr.length
     \/ mode = "read" /\ received = msa_mctr.length
  /\ End("done", {})
  /\ UNCHANGED <<call, msa_mctr, fifos, ris, wire, received, xfer, stretched>>

(* Arbitration lost, or a bus error. *)
BusError ==
  /\ Busy /\ mode # "stopping"
  /\ \/ End("lost", {"ARBLST", "ERR"})
     \/ End("error", {"ERR"})
  /\ UNCHANGED <<call, msa_mctr, fifos, ris, wire, received, xfer, stretched>>

(* SCL is low for too long.  A running transfer may go on or be ended. *)
TimeoutA ==
  /\ ris' = TRUE
  /\ IF Busy
     THEN /\ stretched' = "transfer"
          /\ \/ mode # "stopping" /\ End("stretched", {})
             \/ UNCHANGED <<mode, ended, bits>>
     ELSE /\ stretched' = IF stretched = "none" THEN "idle" ELSE stretched
          /\ UNCHANGED <<mode, ended, bits>>
  /\ UNCHANGED <<call, msa_mctr, fifos, wire, received, xfer>>

(* The STOP condition, when MCTR asks for it; otherwise the bus is kept. *)
Finish ==
  /\ mode = "stopping"
  /\ mode' = IF msa_mctr.stop THEN "idle" ELSE "held"
  /\ UNCHANGED <<call, msa_mctr, fifos, ris, bits, wire, received, ended, xfer,
                 stretched>>

FifoFlush ==
  /\ flushing
  /\ txfifo' = << >> /\ rxfifo' = << >>
  /\ UNCHANGED <<call, msa_mctr, flushing, ris, bus, xfer, stretched>>

Peripheral ==
  \/ PickUp \/ AckAddress \/ NackAddress \/ RepeatStart
  \/ \E ack \in BOOLEAN : SendByte(ack)
  \/ ReceiveByte \/ BurstDone \/ BusError \/ TimeoutA \/ Finish \/ FifoFlush

Next ==
  \/ \E valid \in BOOLEAN : ControllerInit(valid)
  \/ \E w, r \in 0 .. MaxTransfer + 1 : Refuse(w, r)
  \/ \E a \in Address, w, r \in 0 .. MaxTransfer : Call(a, w, r)
  \/ Driver
  \/ Peripheral

(* The CPU runs, and the peripheral takes a started transfer up within the *)
(* three cycles of the delay.  Nothing else on the bus is assumed to       *)
(* happen.                                                                 *)
Fairness == WF_vars(Driver) /\ WF_vars(PickUp)

Spec == Init /\ [][Next]_vars /\ Fairness
-----------------------------------------------------------------------------
(* The type invariant. *)
TypeOK ==
  /\ initialized \in BOOLEAN /\ started \in BOOLEAN /\ flushing \in BOOLEAN
  /\ ris \in BOOLEAN
  /\ pc \in {"idle", "line", "prepare", "flush", "launch", "delay", "status",
             "events", "give_up", "fifo"}
  /\ op \in [address : Address, write : 0 .. MaxTransfer, read : 0 .. MaxTransfer]
  /\ result \in Result
  /\ index \in 0 .. PollLimit
  /\ last_status \in [busy : BOOLEAN, bits : SUBSET Bits]
  /\ msa_mctr \in [address : Address, length : 0 .. MaxTransfer,
                   receive : BOOLEAN, rdtx : BOOLEAN, stop : BOOLEAN]
  /\ bits \in SUBSET Bits
  /\ \A s \in {data, txfifo, rxfifo, wire} :
       s \in Seq((0 .. 1) \X (1 .. MaxTransfer)) /\ Len(s) <= Entries
  /\ mode \in {"idle", "pending", "address", "write", "readdress", "read",
               "stopping", "held"}
  /\ received \in 0 .. MaxTransfer
  /\ xfer \in 0 .. 1
  /\ ended \in {"none", "done", "address_nack", "data_nack", "lost", "error",
                "stretched"}
  /\ stretched \in {"none", "idle", "transfer"}

(* A call that started a transfer and did not give up on it. *)
Waited == pc = "idle" /\ started /\ result # "TIMEOUT"

(* OK means done: a target acknowledged exactly the bytes of this call and *)
(* the caller got exactly the bytes of this transfer, whatever earlier     *)
(* calls that gave up have left in the FIFOs or on the bus.                *)
OkMeansDone ==
  /\ TypeOK
  /\ (pc = "idle" /\ result = "OK") =>
       /\ ended = "done"
       /\ op.address \in Present
       /\ wire = Bytes(xfer, op.write)
       /\ data = Bytes(xfer, op.read)

(* The result names what ended the transfer: SCL_LOW_TIMEOUT for an SCL    *)
(* low that lasted too long since the call cleared the events, always when *)
(* it did so during the transfer; otherwise the NACK or error the bus saw. *)
ResultNamesCause ==
  Waited =>
    /\ stretched = "transfer" => result = "SCL_LOW_TIMEOUT"
    /\ IF result = "SCL_LOW_TIMEOUT" THEN stretched # "none"
       ELSE result = CASE ended = "done"         -> "OK"
                       [] ended = "address_nack" -> "ADDRESS_NACK"
                       [] ended = "data_nack"    -> "DATA_NACK"
                       [] ended = "lost"         -> "ARBITRATION_LOST"
                       [] OTHER                  -> "IO_ERROR"

(* A call that saw its transfer end leaves the bus free: every started     *)
(* transfer asks for STOP.                                                 *)
BusReleased == Waited => mode = "idle"

(* A transfer is started only on an idle peripheral with empty FIFOs:      *)
(* nothing of a transfer given up earlier is sent or read as part of it.   *)
StartsClean ==
  [][xfer' # xfer => mode = "idle" /\ txfifo = << >> /\ rxfifo = << >>]_vars

(* Every call returns, whatever the peripheral and the bus do. *)
AlwaysReturns == (pc # "idle") ~> (pc = "idle")

(* docs/device_facts.md: "A low SCL is reported as a Timeout-A failure."   *)
(* A call that has seen Timeout A returns SCL_LOW_TIMEOUT.                 *)
SclLowReported ==
  [][(pc # "idle" /\ result = "SCL_LOW_TIMEOUT") =>
        result' = "SCL_LOW_TIMEOUT"]_vars
=============================================================================
