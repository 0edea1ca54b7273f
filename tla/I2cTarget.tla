----------------------------- MODULE I2cTarget -----------------------------
(***************************************************************************)
(* The I2C target: I2C1_IRQHandler of hal/hal_i2c_target.c, the            *)
(* transaction engine of hal/hal_i2c_target_engine.c and the wire pointer, *)
(* read latch and command queue of lib/lib_regmap.c, against a controller  *)
(* on the bus and a main loop that publishes pages and pops commands.      *)
(*                                                                         *)
(* The peripheral (external) raises interrupt flags as the bus advances;   *)
(* the handler, once entered, takes them one by one in IIDX order until    *)
(* none is left, and only then do the main loop and the bus go on.  A page *)
(* is the snapshot register of module SnapshotRegister with this one       *)
(* reader, so acquiring a snapshot and publishing one are single steps.    *)
(***************************************************************************)
EXTENDS Integers, Sequences, FiniteSets

CONSTANTS
  Base,            \* number of values of a byte; an address is two bytes
  Pages,           \* regmap->pages: records [first, length, writable]
  Version,         \* the images that may be published for a page
  Unmapped,        \* LIB_REGMAP_UNMAPPED_VALUE
  NoLatch,         \* regmap->latched_page == NULL
  NoCommand,       \* a byte on the wire that is no command
  QueueCapacity,   \* capacity of the command queue
  CountModulus,    \* number of values of the uint32_t counters
  Late,            \* per bus event: the flags that may still be pending
  Faults           \* the error flags the peripheral may raise

Size == Base * Base
Address == 0 .. Size - 1
Data == 0 .. Base - 1
PageIds == 1 .. Len(Pages)

Flag == {"TIMEOUTA", "SRXDONE", "STXDONE", "STXEMPTY", "SSTART", "SSTOP", "FAULT"}

(* CPU_INT.IIDX: the lower index is reported first.  FAULT stands for      *)
(* STX_UNFL, SRX_OVFL, SARBLOST and INTR_OVFL, which share their handling. *)
Iidx == [TIMEOUTA |-> 15, SRXDONE |-> 17, STXDONE |-> 18, STXEMPTY |-> 22,
         SSTART |-> 23, SSTOP |-> 24, FAULT |-> 29]

(* What lib_regmap_init accepts: non-empty pages inside the address space, *)
(* in ascending order without overlap.                                     *)
ValidPages ==
  /\ Pages \in Seq([first : Address, length : 1 .. Size, writable : BOOLEAN])
  /\ Len(Pages) > 0
  /\ \A p \in PageIds : Pages[p].first + Pages[p].length <= Size
  /\ \A p, q \in PageIds :
       p < q => Pages[p].first + Pages[p].length <= Pages[q].first

ASSUME PagesAssumption == Base \in Nat \ {0, 1} /\ ValidPages

ASSUME TargetAssumption ==
  /\ QueueCapacity \in Nat \ {0}
  /\ CountModulus \in Nat \ {0}
  /\ Late \in [{"START", "ADDRESS", "BYTE", "ACK", "STOP"} -> SUBSET Flag]
  /\ Faults \subseteq {"TIMEOUTA", "FAULT"}

(* A snapshot of a page while it is latched. *)
Latch == [page : PageIds, image : Version, current : BOOLEAN]

ASSUME SentinelAssumption ==
  NoLatch \notin Latch /\ NoCommand \notin Address \X Data
  /\ Unmapped \notin Address \X Version

VARIABLES
  flags,               \* CPU_INT.RIS restricted to the enabled interrupts
  treq,                \* SLAVE.SSR.TREQ: SCL is stretched until STXDATA is written
  rx,                  \* SLAVE.SRXDATA
  tx,                  \* the byte last written to SLAVE.STXDATA
  in_isr,              \* the handler is running
  g_start_prehandled,
  g_error_count,
  direction,           \* g_engine.direction
  address_byte_count,  \* g_engine.address_byte_count
  pending_address,     \* g_engine.pending_address
  current_address,     \* regmap->current_address
  latched,             \* the latched page, the image held and whether that
                       \* image is still the published one; or NoLatch
  published,           \* per page: the image in its active buffer
  queue,               \* the command queue, oldest command first
  dropped_count,       \* queue->dropped_count
  bus,                 \* what the controller is doing
  \* What the protocol on the wire says so far (not program state):
  wire_count,          \* address bytes of this write
  wire_high,           \* the first of them
  expected,            \* the pointer after what was sent over the wire
  due,                 \* the command the byte in SRXDATA stands for
  tainted              \* an error was raised, or a byte overtook an unhandled
                       \* STOP, and no START has come since

peripheral == <<flags, treq, rx, tx>>
engine == <<direction, address_byte_count, pending_address>>
regmap == <<current_address, latched>>
commands == <<queue, dropped_count>>
wire == <<wire_count, wire_high, expected, due>>
vars == <<peripheral, in_isr, g_start_prehandled, g_error_count, engine, regmap,
          published, commands, bus, wire, tainted>>

Init ==
  /\ flags = {} /\ treq = FALSE /\ rx = 0 /\ tx = Unmapped
  /\ in_isr = FALSE /\ g_start_prehandled = FALSE /\ g_error_count = 0
  /\ direction = "idle" /\ address_byte_count = 0 /\ pending_address = 0
  /\ current_address = 0 /\ latched = NoLatch
  /\ published \in [PageIds -> Version]
  /\ queue = << >> /\ dropped_count = 0
  /\ bus = "idle"
  /\ wire_count = 0 /\ wire_high = 0 /\ expected = 0 /\ due = NoCommand
  /\ tainted = FALSE
-----------------------------------------------------------------------------
(* lib_regmap_find_page; 0 is NULL. *)
FindPage(address) ==
  LET hit(p) == /\ Pages[p].first <= address
                /\ address < Pages[p].first + Pages[p].length
  IN  IF \E p \in PageIds : hit(p) THEN CHOOSE p \in PageIds : hit(p) ELSE 0

(* ++regmap->current_address, a uint16_t. *)
Advance(address) == (address + 1) % Size

(* The handler reads IIDX: the most urgent pending flag, which is cleared. *)
Take(f) ==
  /\ in_isr
  /\ f \in flags
  /\ \A g \in flags : Iidx[f] <= Iidx[g]
  /\ flags' = flags \ {f}

(* hal_i2c_target_engine_end (and _abort): the latch is released, a short  *)
(* address phase is forgotten, the pointer stays.                          *)
Mut_EndTransactionKeepsLatch ==
  /\ direction' = "idle"
  /\ address_byte_count' = 0
  /\ pending_address' = 0
  /\ UNCHANGED latched

EndTransaction ==
  /\ direction' = "idle"
  /\ address_byte_count' = 0
  /\ pending_address' = 0
  /\ latched' = NoLatch

(* lib_regmap_command_queue_enqueue: a full queue refuses the command and  *)
(* counts it.                                                              *)
Mut_EnqueueOverwrites(command) ==
  /\ queue' = Append(IF Len(queue) >= QueueCapacity THEN Tail(queue) ELSE queue,
                     command)
  /\ UNCHANGED dropped_count

Enqueue(command) ==
  IF Len(queue) >= QueueCapacity
    THEN dropped_count' = (dropped_count + 1) % CountModulus /\ UNCHANGED queue
    ELSE queue' = Append(queue, command) /\ UNCHANGED dropped_count

(* lib_regmap_write_current: a writable page queues the command, any other *)
(* ignores it, and the pointer advances in any case.                       *)
WriteCurrent(value) ==
  LET page == FindPage(current_address) IN
  /\ IF page # 0 /\ Pages[page].writable
       THEN Enqueue(<<current_address, value>>)
       ELSE UNCHANGED commands
  /\ current_address' = Advance(current_address)

(* lib_regmap_read_current with the latch `held`: a page other than the    *)
(* latched one has its published buffer acquired.  One reader never        *)
(* exhausts the reader count, so the acquisition succeeds.                 *)
ReadCurrent(held) ==
  LET page == FindPage(current_address)
      same == IF held = NoLatch THEN page = 0 ELSE held.page = page
      now == IF same THEN held
             ELSE IF page = 0 THEN NoLatch
             ELSE [page |-> page, image |-> published[page], current |-> TRUE]
  IN  /\ latched' = now
      /\ tx' = IF now = NoLatch THEN Unmapped
               ELSE <<current_address, now.image>>
      /\ current_address' = Advance(current_address)
-----------------------------------------------------------------------------
(* The NVIC enters the handler; IIDX reads NO_INTR and it returns. *)
IsrEnter ==
  /\ ~ in_isr
  /\ flags # {}
  /\ in_isr' = TRUE
  /\ UNCHANGED <<peripheral, g_start_prehandled, g_error_count, engine, regmap,
                 published, commands, bus, wire, tainted>>

IsrReturn ==
  /\ in_isr
  /\ flags = {}
  /\ in_isr' = FALSE
  /\ UNCHANGED <<peripheral, g_start_prehandled, g_error_count, engine, regmap,
                 published, commands, bus, wire, tainted>>

(* hal_i2c_target_begin_if_start_pending: a START behind this data event   *)
(* is handled first and remembered.                                        *)
BeginIfStartPending ==
  g_start_prehandled' = (g_start_prehandled \/ "SSTART" \in flags)

(* ... after which the engine is idle, and begins in direction d unless it *)
(* already runs in it.                                                     *)
Fresh(d) == "SSTART" \in flags \/ direction # d

(* hal_i2c_target_engine_receive with `count` address bytes so far: high   *)
(* byte, low byte, which commits the pointer, or data.                     *)
EngineReceive(count, value) ==
  \/ /\ count = 0
     /\ pending_address' = value * Base
     /\ address_byte_count' = 1
     /\ UNCHANGED <<current_address, commands>>
  \/ /\ count = 1
     /\ pending_address' = pending_address + value
     /\ address_byte_count' = 2
     /\ current_address' = pending_address'
     /\ UNCHANGED commands
  \/ /\ count = 2
     /\ WriteCurrent(value)
     /\ UNCHANGED <<pending_address, address_byte_count>>

(* SRXDONE: hal_i2c_target_receive_byte.  Beginning to receive, setting    *)
(* the address and writing all release the latch.                          *)
Receive ==
  LET count == IF Fresh("receive") THEN 0 ELSE address_byte_count IN
  /\ Take("SRXDONE")
  /\ BeginIfStartPending
  /\ direction' = "receive"
  /\ latched' = IF Fresh("receive") \/ count > 0 THEN NoLatch ELSE latched
  /\ EngineReceive(count, rx)
  /\ rx' = 0
  /\ due' = NoCommand
  /\ UNCHANGED <<treq, tx, in_isr, g_error_count, published, bus, wire_count,
                 wire_high, expected, tainted>>

(* STXDONE or STXEMPTY: hal_i2c_target_transmit_byte, which does nothing   *)
(* unless the peripheral really waits for a byte.                          *)
Mut_TransmitUnrequested(f) ==
  /\ Take(f)
  /\ BeginIfStartPending
  /\ direction' = "transmit"
  /\ IF Fresh("transmit")
       THEN pending_address' = 0 /\ address_byte_count' = 0
       ELSE UNCHANGED <<pending_address, address_byte_count>>
  /\ ReadCurrent(IF Fresh("transmit") THEN NoLatch ELSE latched)
  /\ treq' = FALSE
  /\ UNCHANGED <<rx, in_isr, g_error_count, published, commands, bus, wire,
                 tainted>>

Mut_TransmitDefersToStart(f) ==
  /\ Take(f)
  /\ IF treq /\ "SSTART" \notin flags
       THEN /\ direction' = "transmit"
            /\ IF Fresh("transmit")
                 THEN pending_address' = 0 /\ address_byte_count' = 0
                 ELSE UNCHANGED <<pending_address, address_byte_count>>
            /\ ReadCurrent(IF Fresh("transmit") THEN NoLatch ELSE latched)
            /\ treq' = FALSE
       ELSE UNCHANGED <<engine, regmap, tx, treq>>
  /\ UNCHANGED <<rx, in_isr, g_start_prehandled, g_error_count, published,
                 commands, bus, wire, tainted>>

Transmit(f) ==
  /\ Take(f)
  /\ IF treq
       THEN /\ BeginIfStartPending
            /\ direction' = "transmit"
            /\ IF Fresh("transmit")
                 THEN pending_address' = 0 /\ address_byte_count' = 0
                 ELSE UNCHANGED <<pending_address, address_byte_count>>
            /\ ReadCurrent(IF Fresh("transmit") THEN NoLatch ELSE latched)
            /\ treq' = FALSE
       ELSE UNCHANGED <<g_start_prehandled, engine, regmap, tx, treq>>
  /\ UNCHANGED <<rx, in_isr, g_error_count, published, commands, bus, wire,
                 tainted>>

(* SSTART, unless a data event has already handled it. *)
Start ==
  /\ Take("SSTART")
  /\ g_start_prehandled' = FALSE
  /\ IF g_start_prehandled THEN UNCHANGED <<engine, latched>> ELSE EndTransaction
  /\ UNCHANGED <<treq, rx, tx, in_isr, g_error_count, current_address, published,
                 commands, bus, wire, tainted>>

Stop ==
  /\ Take("SSTOP")
  /\ g_start_prehandled' = FALSE
  /\ EndTransaction
  /\ UNCHANGED <<treq, rx, tx, in_isr, g_error_count, current_address, published,
                 commands, bus, wire, tainted>>

(* An error flag: hal_i2c_target_abort. *)
Abort(f) ==
  /\ Take(f)
  /\ g_error_count' = (g_error_count + 1) % CountModulus
  /\ EndTransaction
  /\ g_start_prehandled' = FALSE
  /\ UNCHANGED <<treq, rx, tx, in_isr, current_address, published, commands, bus,
                 wire, tainted>>

Isr ==
  \/ IsrEnter
  \/ IsrReturn
  \/ Receive
  \/ \E f \in {"STXDONE", "STXEMPTY"} : Transmit(f)
  \/ Start
  \/ Stop
  \/ \E f \in Faults : Abort(f)
-----------------------------------------------------------------------------
(* The main loop publishes image v on page p unless the buffer it would    *)
(* overwrite is the one an interrupted read still holds.                   *)
Mut_PublishUnchecked(p, v) ==
  /\ ~ in_isr
  /\ published' = [published EXCEPT ![p] = v]
  /\ latched' = IF latched = NoLatch \/ latched.page # p THEN latched
                ELSE [latched EXCEPT !.image = IF latched.current THEN @ ELSE v,
                                     !.current = ~ latched.current]
  /\ UNCHANGED <<peripheral, in_isr, g_start_prehandled, g_error_count, engine,
                 current_address, commands, bus, wire, tainted>>

Publish(p, v) ==
  /\ ~ in_isr
  /\ latched # NoLatch => latched.page # p \/ latched.current
  /\ published' = [published EXCEPT ![p] = v]
  /\ latched' = IF latched = NoLatch \/ latched.page # p THEN latched
                ELSE [latched EXCEPT !.current = FALSE]
  /\ UNCHANGED <<peripheral, in_isr, g_start_prehandled, g_error_count, engine,
                 current_address, commands, bus, wire, tainted>>

(* lib_regmap_command_queue_try_pop by the main loop. *)
PopCommand ==
  /\ ~ in_isr
  /\ queue # << >>
  /\ queue' = Tail(queue)
  /\ UNCHANGED <<peripheral, in_isr, g_start_prehandled, g_error_count, engine,
                 regmap, published, dropped_count, bus, wire, tainted>>
-----------------------------------------------------------------------------
(* The bus and the peripheral (external).  The bus goes on while the       *)
(* handler is out, and no further ahead of it than Late allows.            *)
Ready(event) == ~ in_isr /\ flags \subseteq Late[event]

(* SSTOP is reported after SSTART and the data events: a handler late by a *)
(* whole byte takes the STOP of the last transaction for one of this.      *)
Overtaken == tainted' = (tainted \/ "SSTOP" \in flags)

unseen == <<in_isr, g_start_prehandled, g_error_count, engine, regmap, published,
            commands>>

(* START or repeated START.  It ends an error: the protocol then continues *)
(* from the pointer as it is.                                              *)
BusStart ==
  /\ Ready("START")
  /\ bus \in {"idle", "write", "nacked", "other"}
  /\ bus' = "address"
  /\ flags' = flags \cup {"SSTART"}
  /\ wire_count' = 0 /\ wire_high' = 0
  /\ tainted' = FALSE
  /\ expected' = IF tainted THEN current_address ELSE expected
  /\ tx' = Unmapped
  /\ UNCHANGED <<unseen, treq, rx, due>>

(* The address and direction bits; the address may be another device's. *)
BusAddress(kind) ==
  /\ Ready("ADDRESS")
  /\ bus = "address"
  /\ bus' = kind
  /\ treq' = (kind = "read")
  /\ flags' = IF kind = "read" THEN flags \cup {"STXEMPTY"} ELSE flags
  /\ IF kind = "read" THEN Overtaken ELSE UNCHANGED tainted
  /\ UNCHANGED <<unseen, rx, tx, wire>>

(* A byte arrives: high and low address byte, then data. *)
BusWrite(value) ==
  /\ Ready("BYTE")
  /\ bus = "write"
  /\ rx' = value
  /\ flags' = flags \cup {"SRXDONE"}
  /\ wire_count' = IF wire_count = 2 THEN 2 ELSE wire_count + 1
  /\ wire_high' = IF wire_count = 0 THEN value ELSE 0
  /\ expected' = CASE wire_count = 0 -> expected
                   [] wire_count = 1 -> wire_high * Base + value
                   [] OTHER -> (expected + 1) % Size
  /\ due' = IF /\ wire_count = 2
               /\ \E p \in PageIds :
                    /\ Pages[p].writable
                    /\ expected \in Pages[p].first .. Pages[p].first + Pages[p].length - 1
            THEN <<expected, value>> ELSE NoCommand
  /\ Overtaken
  /\ UNCHANGED <<unseen, treq, tx, bus>>

(* The byte in STXDATA has been shifted out, then the controller asks for  *)
(* another one or not.                                                     *)
BusShift ==
  /\ Ready("BYTE")
  /\ bus = "read"
  /\ ~ treq
  /\ bus' = "ack"
  /\ flags' = flags \cup {"STXDONE"}
  /\ expected' = (expected + 1) % Size
  /\ UNCHANGED <<unseen, treq, rx, tx, wire_count, wire_high, due, tainted>>

BusAck(ack) ==
  /\ Ready("ACK")
  /\ bus = "ack"
  /\ bus' = IF ack THEN "read" ELSE "nacked"
  /\ treq' = ack
  /\ flags' = IF ack THEN flags \cup {"STXEMPTY"} ELSE flags
  /\ UNCHANGED <<unseen, rx, tx, wire, tainted>>

BusStop ==
  /\ Ready("STOP")
  /\ bus \in {"write", "nacked", "other"}
  /\ bus' = "idle"
  /\ flags' = flags \cup {"SSTOP"}
  /\ UNCHANGED <<unseen, treq, rx, tx, wire, tainted>>

BusError(f) ==
  /\ f \notin flags
  /\ flags' = flags \cup {f}
  /\ tainted' = TRUE
  /\ UNCHANGED <<unseen, treq, rx, tx, bus, wire>>

Bus ==
  \/ BusStart
  \/ \E kind \in {"write", "read", "other"} : BusAddress(kind)
  \/ \E value \in Data : BusWrite(value)
  \/ BusShift
  \/ \E ack \in BOOLEAN : BusAck(ack)
  \/ BusStop
  \/ \E f \in Faults : BusError(f)

Next ==
  \/ Isr
  \/ \E p \in PageIds, v \in Version : Publish(p, v)
  \/ PopCommand
  \/ Bus

Spec == Init /\ [][Next]_vars
-----------------------------------------------------------------------------
(* The type invariant. *)
TypeOK ==
  /\ flags \subseteq Flag
  /\ treq \in BOOLEAN
  /\ rx \in Data
  /\ tx \in (Address \X Version) \cup {Unmapped}
  /\ in_isr \in BOOLEAN
  /\ g_start_prehandled \in BOOLEAN
  /\ g_error_count \in 0 .. CountModulus - 1
  /\ direction \in {"idle", "receive", "transmit"}
  /\ address_byte_count \in 0 .. 2
  /\ pending_address \in Address
  /\ current_address \in Address
  /\ latched \in Latch \cup {NoLatch}
  /\ published \in [PageIds -> Version]
  /\ queue \in Seq(Address \X Data) /\ Len(queue) <= QueueCapacity
  /\ dropped_count \in 0 .. CountModulus - 1
  /\ bus \in {"idle", "address", "write", "read", "ack", "nacked", "other"}
  /\ wire_count \in 0 .. 2
  /\ wire_high \in Data
  /\ expected \in Address
  /\ due \in (Address \X Data) \cup {NoCommand}
  /\ tainted \in BOOLEAN

Drained == ~ in_isr /\ flags = {}

(* Whenever the handler is up to date, the register pointer is where the   *)
(* protocol on the wire puts it: the last completed address phase plus one *)
(* per data byte written, or loaded for reading.  A short address phase,   *)
(* a STOP, a repeated START or a transaction for another device leaves it; *)
(* a completed phase commits it even if a repeated START follows.          *)
PointerFollowsWire ==
  (Drained /\ ~ tainted) =>
    current_address = IF bus = "read" THEN (expected + 1) % Size ELSE expected

(* A byte loaded for reading is the one of the address the wire points to. *)
(* Two adjacent bytes of one page come from one image although the main    *)
(* loop publishes in between; the first of a page is the published one.    *)
ReadsCoherent ==
  [][(treq /\ ~ treq' /\ ~ tainted) =>
       LET page == FindPage(expected)
           first == \/ Fresh("transmit")
                    \/ tx = Unmapped
                    \/ FindPage(tx[1]) # page
       IN  tx' = IF page = 0 THEN Unmapped
                 ELSE <<expected, IF first THEN published[page] ELSE tx[2]>>
    ]_vars

(* The command queue gets the commands the wire carried, in their order,   *)
(* each with its address, and nothing else; only a full queue loses one,   *)
(* and counts it.                                                          *)
CommandsDelivered ==
  [][(commands' # commands \/ (due # NoCommand /\ due' = NoCommand)) /\ ~ tainted =>
       \/ queue # << >> /\ queue' = Tail(queue) /\ due' = due
       \/ due # NoCommand /\ queue' = Append(queue, due) /\ Len(queue) < QueueCapacity
       \/ /\ due # NoCommand /\ queue' = queue /\ Len(queue) = QueueCapacity
          /\ dropped_count' = (dropped_count + 1) % CountModulus
    ]_vars

(* Between transactions no snapshot stays latched, also after errors, so   *)
(* no read can make publish fail for longer than it lasts.                 *)
LatchReleased ==
  /\ TypeOK
  /\ (Drained /\ bus \in {"idle", "address"}) => latched = NoLatch

(* Whenever the peripheral stretches the clock for a byte to send, an      *)
(* interrupt that will supply it is pending: the bus never hangs on this   *)
(* target.                                                                 *)
StretchAnswered == treq => flags \cap {"STXEMPTY", "STXDONE"} # {}

(* "after an error the target drops its software transaction state and     *)
(* waits for the controller to terminate with STOP before a new            *)
(* transaction" (docs/i2c_register_map.md): once the error is handled, the *)
(* remaining bytes of the write it struck do not move the pointer.         *)
WaitsForStop ==
  [][(tainted /\ flags \cap Faults = {} /\ bus = "write" /\ wire_count = 2) =>
       UNCHANGED current_address]_vars
=============================================================================
