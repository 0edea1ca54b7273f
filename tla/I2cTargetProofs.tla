-------------------------- MODULE I2cTargetProofs --------------------------
(***************************************************************************)
(* Proofs about I2cTarget: for any register map, byte width and queue.     *)
(***************************************************************************)
EXTENDS I2cTarget, SequenceTheorems, TLAPS

(* How punctual the handler has to be for the pointer and the commands: a  *)
(* received byte is taken before the next one, or a START, overtakes it,   *)
(* and an error before the START that ends it.                             *)
Timely ==
  /\ "SRXDONE" \notin Late["START"] \cup Late["BYTE"]
  /\ Late["START"] \cap Faults = {}

(* A START is pending that no data event has handled yet. *)
StartPending == "SSTART" \in flags /\ ~ g_start_prehandled

(* The flags behind a START that was handled early, a clock that is        *)
(* stretched and a command that is due.                                    *)
FlagsInv ==
  /\ g_start_prehandled => in_isr /\ "SSTART" \in flags
  /\ treq => bus = "read"
  /\ due # NoCommand => "SRXDONE" \in flags

(* An address phase that is half done has its high byte in place. *)
HalfAddress ==
  address_byte_count = 1 => \E v \in Data : pending_address = v * Base

(* A latch outlives the read only until the START or STOP that is pending. *)
LatchInv ==
  latched # NoLatch =>
    bus \in {"read", "ack", "nacked"} \/ "SSTOP" \in flags \/ StartPending

(* What is latched is what the last byte was read from. *)
TxInv ==
  (direction = "transmit" /\ ~ StartPending) =>
    IF latched = NoLatch THEN tx = Unmapped
    ELSE /\ tx # Unmapped
         /\ FindPage(tx[1]) = latched.page
         /\ tx[2] = latched.image

TargetInv == TypeOK /\ FlagsInv /\ StretchAnswered /\ HalfAddress /\ LatchInv /\ TxInv

(* Bytes of the write that the engine has counted. *)
Counted == IF StartPending \/ direction # "receive" THEN 0 ELSE address_byte_count

Writable(address) == FindPage(address) # 0 /\ Pages[FindPage(address)].writable

(* The byte in SRXDATA against the engine that has not seen it. *)
ByteWaits ==
  \/ /\ Counted = 0 /\ wire_count = 1 /\ rx = wire_high
     /\ current_address = expected /\ due = NoCommand
  \/ /\ Counted = 1 /\ wire_count = 2 /\ expected = pending_address + rx
     /\ due = NoCommand
  \/ /\ Counted = 2 /\ wire_count = 2 /\ expected = Advance(current_address)
     /\ due = IF Writable(current_address) THEN <<current_address, rx>> ELSE NoCommand

ByteInPlace ==
  "SRXDONE" \in flags => bus \in {"write", "idle"} /\ ~ g_start_prehandled

(* The engine against the wire, as long as nothing has gone wrong. *)
InStep ==
  ~ tainted =>
    /\ flags \cap Faults = {}
    /\ bus = "address" => wire_count = 0 /\ Counted = 0
    /\ bus = "write" /\ "SSTOP" \in flags => wire_count = 0
    /\ bus = "write" /\ "SRXDONE" \notin flags =>
         /\ Counted = wire_count
         /\ wire_count = 1 => pending_address = wire_high * Base
    /\ IF "SRXDONE" \in flags THEN ByteWaits
       ELSE current_address = IF bus = "read" /\ ~ treq THEN Advance(expected) ELSE expected

WireInv == TargetInv /\ ByteInPlace /\ InStep
-----------------------------------------------------------------------------
(* The constants. *)
LEMMA Numbers ==
  /\ Base \in Nat \ {0, 1} /\ Size \in Nat \ {0} /\ Size = Base * Base
  /\ 0 \in Data /\ 0 \in Address
  /\ QueueCapacity \in Nat \ {0} /\ CountModulus \in Nat \ {0}
  <1>1. Base \in Nat \ {0, 1}
    BY PagesAssumption
  <1>2. Base * Base \in Nat /\ Base * Base >= 1
    BY <1>1
  <1> QED BY <1>1, <1>2, TargetAssumption DEF Size, Data, Address

(* Two bytes make an address. *)
LEMMA AddressOfBytes ==
  ASSUME NEW high \in Data, NEW low \in Data
  PROVE  high * Base \in Address /\ high * Base + low \in Address
  <1>1. Base \in Nat /\ high \in 0 .. Base - 1 /\ low \in 0 .. Base - 1
    BY Numbers DEF Data
  <1>2. high * Base >= 0 /\ high * Base \in Int
    BY <1>1
  <1>3. (Base - 1 - high) * Base >= 0
    BY <1>1
  <1>4. (Base - 1 - high) * Base = Base * Base - Base - high * Base
    BY <1>1
  <1> QED BY <1>1, <1>2, <1>3, <1>4 DEF Address, Size

LEMMA AdvanceType ==
  ASSUME NEW a \in Address
  PROVE  Advance(a) \in Address
  BY Numbers DEF Advance, Address

(* lib_regmap_find_page: the one page that contains the address, or NULL. *)
LEMMA FindPageType ==
  ASSUME NEW a
  PROVE  FindPage(a) \in PageIds \/ FindPage(a) = 0
  BY DEF FindPage

LEMMA PageTypes ==
  ASSUME NEW p \in PageIds
  PROVE  /\ Pages[p].first \in Int /\ Pages[p].length \in Int
         /\ p \in Int /\ p # 0
  <1>1. Pages \in Seq([first : Address, length : 1 .. Size, writable : BOOLEAN])
    BY PagesAssumption DEF ValidPages
  <1>2. Pages[p] \in [first : Address, length : 1 .. Size, writable : BOOLEAN]
    BY <1>1, ElementOfSeq DEF PageIds
  <1> QED BY <1>1, <1>2 DEF PageIds, Address

LEMMA PageIsFound ==
  ASSUME NEW a \in Address, NEW p \in PageIds,
         a \in Pages[p].first .. Pages[p].first + Pages[p].length - 1
  PROVE  FindPage(a) = p
  <1> DEFINE hit(q) == /\ Pages[q].first <= a
                       /\ a < Pages[q].first + Pages[q].length
  <1>1. hit(p) /\ a \in Int
    BY PageTypes DEF Address
  <1>2. ASSUME NEW q \in PageIds, hit(q) PROVE q = p
    <2>1. p < q => Pages[p].first + Pages[p].length <= Pages[q].first
      BY PagesAssumption DEF ValidPages
    <2>2. q < p => Pages[q].first + Pages[q].length <= Pages[p].first
      BY PagesAssumption DEF ValidPages
    <2> QED BY <1>1, <1>2, <2>1, <2>2, PageTypes
  <1> HIDE DEF hit
  <1>3. FindPage(a) = IF \E q \in PageIds : hit(q) THEN CHOOSE q \in PageIds : hit(q) ELSE 0
    BY DEF FindPage, hit
  <1> QED BY <1>1, <1>2, <1>3

LEMMA FoundContains ==
  ASSUME NEW a \in Address, FindPage(a) # 0
  PROVE  /\ FindPage(a) \in PageIds
         /\ a \in Pages[FindPage(a)].first
                    .. Pages[FindPage(a)].first + Pages[FindPage(a)].length - 1
  <1> DEFINE hit(q) == /\ Pages[q].first <= a
                       /\ a < Pages[q].first + Pages[q].length
  <1>1. PICK q \in PageIds : hit(q)
    BY DEF FindPage
  <1>2. FindPage(a) = CHOOSE r \in PageIds : hit(r)
    BY <1>1 DEF FindPage
  <1>3. FindPage(a) \in PageIds /\ hit(FindPage(a))
    BY <1>1, <1>2
  <1> QED BY <1>3, PageTypes DEF Address

(* The page test of the wire is that of lib_regmap_write_current. *)
LEMMA WritableIsExpected ==
  ASSUME NEW a \in Address
  PROVE  Writable(a) <=>
           \E p \in PageIds :
             /\ Pages[p].writable
             /\ a \in Pages[p].first .. Pages[p].first + Pages[p].length - 1
  BY PageIsFound, FoundContains, PageTypes DEF Writable
-----------------------------------------------------------------------------
LEMMA TargetInit == Init => TargetInv
  <1> SUFFICES ASSUME Init PROVE TargetInv
    OBVIOUS
  <1>1. queue \in Seq(Address \X Data) /\ Len(queue) <= QueueCapacity
    BY Numbers DEF Init
  <1>2. /\ g_error_count \in 0 .. CountModulus - 1 /\ dropped_count \in 0 .. CountModulus - 1
        /\ address_byte_count \in 0 .. 2 /\ wire_count \in 0 .. 2
        /\ {rx, wire_high} \subseteq Data
        /\ {pending_address, current_address, expected} \subseteq Address
    BY Numbers DEF Init
  <1>3. TypeOK
    BY <1>1, <1>2 DEF Init, TypeOK
  <1> QED
    BY <1>3 DEF Init, TargetInv, FlagsInv, StretchAnswered, HalfAddress, LatchInv, TxInv

(* The handler's entry and its end, and the steps that end a transaction. *)
LEMMA EndStep ==
  ASSUME TargetInv, IsrEnter \/ IsrReturn \/ Start \/ Stop \/ \E f \in Faults : Abort(f)
  PROVE  TargetInv'
  <1> USE DEF TargetInv, FlagsInv, StretchAnswered, HalfAddress, LatchInv, TxInv,
              StartPending, peripheral, engine, regmap, commands, wire, Take, EndTransaction
  <1>1. CASE IsrEnter
    <2>1. UNCHANGED <<flags, queue, latched, published>> /\ in_isr' = TRUE
      BY <1>1 DEF IsrEnter
    <2>2. TypeOK'
      BY <1>1, <2>1 DEF IsrEnter, TypeOK
    <2> QED BY <1>1, <2>2 DEF IsrEnter
  <1>2. CASE IsrReturn
    <2>1. UNCHANGED <<flags, queue, latched, published>> /\ in_isr' = FALSE
      BY <1>2 DEF IsrReturn
    <2>2. TypeOK'
      BY <1>2, <2>1 DEF IsrReturn, TypeOK
    <2> QED BY <1>2, <2>2 DEF IsrReturn
  <1>3. CASE Start
    <2>1. TypeOK'
      <3>1. flags' \subseteq Flag /\ UNCHANGED <<queue, dropped_count>>
        BY <1>3 DEF Start, TypeOK
      <3>2. /\ direction' \in {"idle", "receive", "transmit"}
            /\ address_byte_count' \in 0 .. 2 /\ pending_address' \in Address
            /\ latched' \in Latch \cup {NoLatch}
        BY <1>3, Numbers DEF Start, TypeOK
      <3> QED BY <1>3, <3>1, <3>2 DEF Start, TypeOK
    <2> QED BY <1>3, <2>1 DEF Start
  <1>4. CASE Stop
    <2>1. TypeOK'
      <3>1. flags' \subseteq Flag /\ UNCHANGED <<queue, dropped_count>>
        BY <1>4 DEF Stop, TypeOK
      <3>2. /\ direction' \in {"idle", "receive", "transmit"}
            /\ address_byte_count' \in 0 .. 2 /\ pending_address' \in Address
            /\ latched' \in Latch \cup {NoLatch}
        BY <1>4, Numbers DEF Stop, TypeOK
      <3> QED BY <1>4, <3>1, <3>2 DEF Stop, TypeOK
    <2> QED BY <1>4, <2>1 DEF Stop
  <1>5. ASSUME NEW f \in Faults, Abort(f) PROVE TargetInv'
    <2>1. g_error_count' \in 0 .. CountModulus - 1
      BY <1>5, Numbers DEF Abort, TypeOK
    <2>2. f \in {"TIMEOUTA", "FAULT"}
      BY TargetAssumption
    <2>3. TypeOK'
      <3>1. flags' \subseteq Flag /\ UNCHANGED <<queue, dropped_count>>
        BY <1>5 DEF Abort, TypeOK
      <3>2. /\ direction' \in {"idle", "receive", "transmit"}
            /\ address_byte_count' \in 0 .. 2 /\ pending_address' \in Address
            /\ latched' \in Latch \cup {NoLatch}
        BY <1>5, Numbers DEF Abort, TypeOK
      <3> QED BY <1>5, <2>1, <3>1, <3>2 DEF Abort, TypeOK
    <2> QED BY <1>5, <2>2, <2>3 DEF Abort
  <1> QED BY <1>1, <1>2, <1>3, <1>4, <1>5

(* The bus, which leaves the engine and the register map alone. *)
LEMMA BusTypes ==
  ASSUME TypeOK, Bus
  PROVE  TypeOK'
  <1> USE DEF engine, regmap, commands, wire, unseen
  <1>1. CASE BusStart
    <2>1. flags' \subseteq Flag
      BY <1>1 DEF BusStart, TypeOK, Flag
    <2>2. tx' \in (Address \X Version) \cup {Unmapped} /\ expected' \in Address
          /\ wire_count' \in 0 .. 2 /\ wire_high' \in Data
      BY <1>1, Numbers DEF BusStart, TypeOK
    <2> QED BY <1>1, <2>1, <2>2 DEF BusStart, TypeOK
  <1>2. ASSUME NEW kind \in {"write", "read", "other"}, BusAddress(kind) PROVE TypeOK'
    <2>1. flags' \subseteq Flag
      BY <1>2 DEF BusAddress, TypeOK, Flag
    <2>2. tainted' \in BOOLEAN
      BY <1>2 DEF BusAddress, TypeOK, Overtaken
    <2> QED BY <1>2, <2>1, <2>2 DEF BusAddress, TypeOK
  <1>3. ASSUME NEW value \in Data, BusWrite(value) PROVE TypeOK'
    <2>1. expected' \in Address
      BY <1>3, AddressOfBytes, AdvanceType DEF BusWrite, Advance, TypeOK
    <2>2. due' \in (Address \X Data) \cup {NoCommand}
      BY <1>3 DEF BusWrite, TypeOK
    <2>3. flags' \subseteq Flag
      BY <1>3 DEF BusWrite, TypeOK, Flag
    <2>4. wire_count' \in 0 .. 2 /\ wire_high' \in Data /\ tainted' \in BOOLEAN
      BY <1>3, Numbers DEF BusWrite, TypeOK, Overtaken
    <2> QED BY <1>3, <2>1, <2>2, <2>3, <2>4 DEF BusWrite, TypeOK
  <1>4. CASE BusShift
    <2>1. expected' \in Address
      BY <1>4, AdvanceType DEF BusShift, Advance, TypeOK
    <2>2. flags' \subseteq Flag
      BY <1>4 DEF BusShift, TypeOK, Flag
    <2> QED BY <1>4, <2>1, <2>2 DEF BusShift, TypeOK
  <1>5. ASSUME NEW ack \in BOOLEAN, BusAck(ack) PROVE TypeOK'
    <2>1. flags' \subseteq Flag
      BY <1>5 DEF BusAck, TypeOK, Flag
    <2> QED BY <1>5, <2>1 DEF BusAck, TypeOK
  <1>6. CASE BusStop
    <2>1. flags' \subseteq Flag
      BY <1>6 DEF BusStop, TypeOK, Flag
    <2> QED BY <1>6, <2>1 DEF BusStop, TypeOK
  <1>7. ASSUME NEW f \in Faults, BusError(f) PROVE TypeOK'
    <2>1. flags' \subseteq Flag
      BY <1>7, TargetAssumption DEF BusError, TypeOK, Flag
    <2> QED BY <1>7, <2>1 DEF BusError, TypeOK
  <1> QED BY <1>1, <1>2, <1>3, <1>4, <1>5, <1>6, <1>7 DEF Bus

LEMMA BusStep ==
  ASSUME TargetInv, Bus
  PROVE  TargetInv'
  <1>0. TypeOK'
    BY BusTypes DEF TargetInv
  <1> USE DEF FlagsInv, StretchAnswered, HalfAddress, LatchInv, TxInv,
              StartPending, engine, regmap, commands, wire, Ready, unseen
  <1>1. CASE BusStart
    BY <1>0, <1>1 DEF BusStart, TargetInv
  <1>2. ASSUME NEW kind \in {"write", "read", "other"}, BusAddress(kind) PROVE TargetInv'
    BY <1>0, <1>2 DEF BusAddress, TargetInv
  <1>3. ASSUME NEW value \in Data, BusWrite(value) PROVE TargetInv'
    BY <1>0, <1>3 DEF BusWrite, TargetInv
  <1>4. CASE BusShift
    BY <1>0, <1>4 DEF BusShift, TargetInv
  <1>5. ASSUME NEW ack \in BOOLEAN, BusAck(ack) PROVE TargetInv'
    BY <1>0, <1>5 DEF BusAck, TargetInv
  <1>6. CASE BusStop
    BY <1>0, <1>6 DEF BusStop, TargetInv
  <1>7. ASSUME NEW f \in Faults, BusError(f) PROVE TargetInv'
    <2>1. f \in {"TIMEOUTA", "FAULT"}
      BY TargetAssumption
    <2> QED BY <1>0, <1>7, <2>1 DEF BusError, TargetInv
  <1> QED BY <1>1, <1>2, <1>3, <1>4, <1>5, <1>6, <1>7 DEF Bus

(* The main loop. *)
LEMMA MainStep ==
  ASSUME TargetInv,
         PopCommand \/ \E p \in PageIds, v \in Version : Publish(p, v)
  PROVE  TargetInv'
  <1> USE DEF TargetInv, TypeOK, FlagsInv, StretchAnswered, HalfAddress, LatchInv, TxInv,
              StartPending, peripheral, engine, regmap, wire
  <1>1. CASE PopCommand
    <2>1. queue' \in Seq(Address \X Data) /\ Len(queue') <= QueueCapacity
      BY <1>1, Numbers, HeadTailProperties DEF PopCommand
    <2> QED BY <1>1, <2>1 DEF PopCommand
  <1>2. ASSUME NEW p \in PageIds, NEW v \in Version, Publish(p, v) PROVE TargetInv'
    <2>1. published' \in [PageIds -> Version]
      BY <1>2 DEF Publish
    <2>2. CASE latched = NoLatch \/ latched.page # p
      BY <1>2, <2>1, <2>2 DEF Publish, commands
    <2>3. CASE latched # NoLatch /\ latched.page = p
      <3>1. latched \in Latch /\ latched' = [latched EXCEPT !.current = FALSE]
        BY <1>2, <2>3 DEF Publish
      <3>2. /\ latched' \in Latch /\ latched'.page = latched.page
            /\ latched'.image = latched.image
        BY <3>1 DEF Latch
      <3>3. latched' # NoLatch
        BY <3>2, SentinelAssumption
      <3> QED BY <1>2, <2>1, <2>3, <3>2, <3>3 DEF Publish, commands
    <2> QED BY <2>2, <2>3
  <1> QED BY <1>1, <1>2

(* lib_regmap_command_queue_enqueue of a command. *)
LEMMA EnqueueTypes ==
  ASSUME TypeOK, NEW c \in Address \X Data, Enqueue(c)
  PROVE  /\ queue' \in Seq(Address \X Data) /\ Len(queue') <= QueueCapacity
         /\ dropped_count' \in 0 .. CountModulus - 1
  <1>1. CASE Len(queue) >= QueueCapacity
    BY <1>1, Numbers DEF Enqueue, TypeOK
  <1>2. CASE ~ (Len(queue) >= QueueCapacity)
    <2>1. queue' = Append(queue, c) /\ UNCHANGED dropped_count
      BY <1>2 DEF Enqueue
    <2>2. queue' \in Seq(Address \X Data) /\ Len(queue') = Len(queue) + 1
      BY <2>1, AppendProperties DEF TypeOK
    <2> QED BY <1>2, <2>1, <2>2, Numbers DEF TypeOK
  <1> QED BY <1>1, <1>2

(* SRXDONE, by the number of address bytes before it. *)
LEMMA ReceiveTypes ==
  ASSUME TypeOK, HalfAddress, Receive
  PROVE  TypeOK' /\ HalfAddress'
  <1> DEFINE count == IF Fresh("receive") THEN 0 ELSE address_byte_count
  <1>1. /\ EngineReceive(count, rx) /\ rx \in Data /\ rx' = 0
        /\ direction' = "receive"
    BY DEF Receive, TypeOK
  <1>2. flags' \subseteq Flag /\ g_start_prehandled' \in BOOLEAN
        /\ latched' \in Latch \cup {NoLatch}
    BY DEF Receive, Take, BeginIfStartPending, TypeOK
  <1>3. /\ current_address' \in Address /\ pending_address' \in Address
        /\ address_byte_count' \in 0 .. 2
        /\ queue' \in Seq(Address \X Data) /\ Len(queue') <= QueueCapacity
        /\ dropped_count' \in 0 .. CountModulus - 1
        /\ HalfAddress'
    <2>1. CASE count = 0
      BY <1>1, <2>1, AddressOfBytes DEF EngineReceive, commands, TypeOK, HalfAddress
    <2>2. CASE count = 1
      <3>1. PICK v \in Data : pending_address = v * Base
        BY <2>2 DEF HalfAddress
      <3>2. pending_address + rx \in Address
        BY <1>1, <3>1, AddressOfBytes
      <3>3. /\ pending_address' = pending_address + rx /\ address_byte_count' = 2
            /\ current_address' = pending_address' /\ UNCHANGED commands
        BY <1>1, <2>2 DEF EngineReceive
      <3> QED BY <3>2, <3>3 DEF commands, TypeOK, HalfAddress
    <2>3. CASE count = 2
      <3>1. WriteCurrent(rx) /\ UNCHANGED <<pending_address, address_byte_count>>
        BY <1>1, <2>3 DEF EngineReceive
      <3>2. current_address' \in Address
        BY <3>1, AdvanceType DEF WriteCurrent, TypeOK
      <3>3. Enqueue(<<current_address, rx>>) \/ UNCHANGED commands
        BY <3>1 DEF WriteCurrent
      <3>4. <<current_address, rx>> \in Address \X Data
        BY <1>1 DEF TypeOK
      <3>5. /\ queue' \in Seq(Address \X Data) /\ Len(queue') <= QueueCapacity
            /\ dropped_count' \in 0 .. CountModulus - 1
        <4>1. CASE UNCHANGED commands
          BY <4>1 DEF commands, TypeOK
        <4> QED BY <3>3, <3>4, <4>1, EnqueueTypes
      <3> QED BY <3>1, <3>2, <3>5 DEF TypeOK, HalfAddress
    <2> QED BY <1>1, <2>1, <2>2, <2>3 DEF EngineReceive
  <1>4. /\ due' \in (Address \X Data) \cup {NoCommand} /\ rx' \in Data
        /\ UNCHANGED <<treq, tx, in_isr, g_error_count, published, bus, wire_count,
                       wire_high, expected, tainted>>
    BY Numbers DEF Receive
  <1> QED BY <1>1, <1>2, <1>3, <1>4 DEF TypeOK

LEMMA ReceiveStep ==
  ASSUME TargetInv, Receive
  PROVE  TargetInv'
  <1>1. TypeOK' /\ HalfAddress'
    BY ReceiveTypes DEF TargetInv
  <1> QED
    BY <1>1 DEF Receive, Take, BeginIfStartPending, Fresh, TargetInv, FlagsInv,
       StretchAnswered, LatchInv, TxInv, StartPending

(* lib_regmap_read_current: what it returns is what it leaves latched. *)
LEMMA ReadTypes ==
  ASSUME TypeOK, NEW held \in Latch \cup {NoLatch}, ReadCurrent(held)
  PROVE  /\ latched' \in Latch \cup {NoLatch}
         /\ tx' \in (Address \X Version) \cup {Unmapped}
         /\ current_address' = Advance(current_address) /\ current_address' \in Address
         /\ IF latched' = NoLatch THEN tx' = Unmapped
            ELSE /\ tx' = <<current_address, latched'.image>> /\ tx' # Unmapped
                 /\ FindPage(current_address) = latched'.page
  <1> DEFINE page == FindPage(current_address)
             same == IF held = NoLatch THEN page = 0 ELSE held.page = page
             fetched == [page |-> page, image |-> published[page], current |-> TRUE]
  <1>1. latched' = IF same THEN held ELSE IF page = 0 THEN NoLatch ELSE fetched
    BY DEF ReadCurrent
  <1>2. page # 0 => fetched \in Latch
    BY FindPageType DEF Latch, TypeOK
  <1>3. latched' \in Latch \cup {NoLatch}
    BY <1>1, <1>2
  <1>4. latched' # NoLatch => page = latched'.page
    BY <1>1
  <1>5. tx' = IF latched' = NoLatch THEN Unmapped ELSE <<current_address, latched'.image>>
    BY DEF ReadCurrent
  <1>6. latched' # NoLatch => <<current_address, latched'.image>> \in Address \X Version
    BY <1>3 DEF Latch, TypeOK
  <1>7. current_address' = Advance(current_address)
    BY DEF ReadCurrent
  <1> HIDE DEF page
  <1> QED
    BY <1>3, <1>4, <1>5, <1>6, <1>7, SentinelAssumption, AdvanceType DEF page, TypeOK

(* STXDONE and STXEMPTY. *)
LEMMA TransmitStep ==
  ASSUME TargetInv, NEW f \in {"STXDONE", "STXEMPTY"}, Transmit(f)
  PROVE  TargetInv'
  <1>1. /\ flags' = flags \ {f} /\ in_isr
        /\ UNCHANGED <<rx, in_isr, g_error_count, published, commands, bus, wire,
                       tainted>>
    BY DEF Transmit, Take
  <1>2. flags' \subseteq Flag
    BY <1>1 DEF TargetInv, TypeOK
  <1>3. CASE ~ treq
    <2>1. UNCHANGED <<g_start_prehandled, engine, regmap, tx, treq>>
      BY <1>3 DEF Transmit
    <2>2. TypeOK'
      BY <1>1, <1>2, <2>1 DEF commands, wire, engine, regmap, TargetInv, TypeOK
    <2> QED
      BY <1>1, <1>3, <2>1, <2>2 DEF wire, engine, regmap, TargetInv, FlagsInv,
         StretchAnswered, HalfAddress, LatchInv, TxInv, StartPending
  <1>4. CASE treq
    <2> DEFINE held == IF Fresh("transmit") THEN NoLatch ELSE latched
    <2>1. /\ g_start_prehandled' = (g_start_prehandled \/ "SSTART" \in flags)
          /\ direction' = "transmit" /\ treq' = FALSE
          /\ ReadCurrent(held)
      BY <1>4 DEF Transmit, BeginIfStartPending
    <2>2. \/ pending_address' = 0 /\ address_byte_count' = 0
          \/ UNCHANGED <<pending_address, address_byte_count>>
      BY <1>4 DEF Transmit
    <2>3. held \in Latch \cup {NoLatch}
      BY DEF TargetInv, TypeOK
    <2>4. /\ latched' \in Latch \cup {NoLatch}
          /\ tx' \in (Address \X Version) \cup {Unmapped}
          /\ current_address' \in Address
          /\ IF latched' = NoLatch THEN tx' = Unmapped
             ELSE /\ tx' = <<current_address, latched'.image>> /\ tx' # Unmapped
                  /\ FindPage(current_address) = latched'.page
      BY <2>1, <2>3, ReadTypes DEF TargetInv
    <2>5. pending_address' \in Address /\ address_byte_count' \in 0 .. 2
      BY <2>2, Numbers DEF TargetInv, TypeOK
    <2>6. g_start_prehandled' \in BOOLEAN
      BY <2>1 DEF TargetInv, TypeOK
    <2>7. TypeOK'
      BY <1>1, <1>2, <2>1, <2>4, <2>5, <2>6 DEF commands, wire, TargetInv, TypeOK
    <2>8. HalfAddress'
      BY <2>2 DEF TargetInv, HalfAddress
    <2>9. FlagsInv' /\ StretchAnswered' /\ LatchInv'
      BY <1>1, <1>4, <2>1 DEF wire, TargetInv, FlagsInv, StretchAnswered, LatchInv
    <2>10. TxInv'
      BY <2>4 DEF TxInv
    <2> QED BY <2>7, <2>8, <2>9, <2>10 DEF TargetInv
  <1> QED BY <1>3, <1>4

LEMMA TargetStep == TargetInv /\ [Next]_vars => TargetInv'
  <1> SUFFICES ASSUME TargetInv, [Next]_vars PROVE TargetInv'
    OBVIOUS
  <1>1. CASE UNCHANGED vars
    <2>1. TypeOK'
      BY <1>1 DEF vars, peripheral, engine, regmap, commands, wire, TargetInv, TypeOK
    <2> QED
      BY <1>1, <2>1 DEF vars, peripheral, engine, regmap, commands, wire, TargetInv, FlagsInv,
         StretchAnswered, HalfAddress, LatchInv, TxInv, StartPending
  <1> QED
    BY <1>1, EndStep, BusStep, MainStep, ReceiveStep, TransmitStep DEF Next, Isr

(* hal/hal_i2c_target.c: while SCL is stretched, the interrupt that will   *)
(* supply the byte is pending.                                             *)
THEOREM StretchIsAnswered == Spec => []StretchAnswered
  <1>1. TargetInv => StretchAnswered
    BY DEF TargetInv
  <1> QED BY <1>1, TargetInit, TargetStep, PTL DEF Spec

(* No snapshot stays latched between transactions, whatever came late, in  *)
(* what order, and after whatever error.                                   *)
THEOREM LatchIsReleased == Spec => []LatchReleased
  <1>1. TargetInv => LatchReleased
    BY DEF TargetInv, LatchReleased, LatchInv, Drained, StartPending
  <1> QED BY <1>1, TargetInit, TargetStep, PTL DEF Spec
-----------------------------------------------------------------------------
LEMMA WireInit == Init => WireInv
  BY TargetInit DEF Init, WireInv, ByteInPlace, InStep

(* Steps of the handler that move neither the pointer nor the wire: they   *)
(* leave the engine as it is or put an end to a transaction.               *)
LEMMA WireEndStep ==
  ASSUME WireInv, TargetInv',
         IsrEnter \/ IsrReturn \/ Start \/ Stop \/ \E f \in Faults : Abort(f)
  PROVE  WireInv'
  <1> USE DEF WireInv, TargetInv, FlagsInv, ByteInPlace, InStep, ByteWaits, Counted, Writable,
              StartPending, peripheral, engine, regmap, commands, wire, Take, EndTransaction
  <1>1. CASE IsrEnter
    BY <1>1 DEF IsrEnter
  <1>2. CASE IsrReturn
    BY <1>2 DEF IsrReturn
  <1>3. CASE Start
    <2>1. "SRXDONE" \notin flags
      BY <1>3 DEF Start, Iidx
    <2> QED BY <1>3, <2>1 DEF Start
  <1>4. CASE Stop
    <2>1. "SRXDONE" \notin flags
      BY <1>4 DEF Stop, Iidx
    <2> QED BY <1>4, <2>1 DEF Stop
  <1>5. ASSUME NEW f \in Faults, Abort(f) PROVE WireInv'
    <2>1. tainted'
      BY <1>5 DEF Abort
    <2>2. ByteInPlace'
      BY <1>5 DEF Abort
    <2> QED BY <2>1, <2>2
  <1> QED BY <1>1, <1>2, <1>3, <1>4, <1>5

(* SRXDONE: the byte that waited is counted, and counts for what it was on *)
(* the wire.                                                               *)
LEMMA WireReceiveStep ==
  ASSUME WireInv, TargetInv', Receive
  PROVE  WireInv'
  <1> DEFINE count == IF Fresh("receive") THEN 0 ELSE address_byte_count
  <1>1. /\ "SRXDONE" \in flags /\ flags' = flags \ {"SRXDONE"} /\ ~ g_start_prehandled
        /\ bus \in {"write", "idle"} /\ UNCHANGED <<treq, bus, wire_count, wire_high,
                                                   expected, tainted>>
    BY DEF Receive, Take, WireInv, ByteInPlace
  <1>2. /\ direction' = "receive" /\ ~ StartPending' /\ Counted = count
        /\ EngineReceive(count, rx)
    BY <1>1 DEF Receive, BeginIfStartPending, StartPending, Counted, Fresh
  <1>3. Counted' = address_byte_count'
    BY <1>2 DEF Counted
  <1>4. ASSUME ~ tainted
        PROVE  /\ Counted' = wire_count
               /\ wire_count = 1 => pending_address' = wire_high * Base
               /\ current_address' = expected
    <2>1. ByteWaits
      BY <1>1, <1>4 DEF WireInv, InStep
    <2>2. CASE count = 0
      BY <1>2, <1>3, <2>1, <2>2 DEF EngineReceive, ByteWaits
    <2>3. CASE count = 1
      BY <1>2, <1>3, <2>1, <2>3 DEF EngineReceive, ByteWaits
    <2>4. CASE count = 2
      BY <1>2, <1>3, <2>1, <2>4 DEF EngineReceive, ByteWaits, WriteCurrent
    <2> QED BY <1>2, <2>2, <2>3, <2>4 DEF EngineReceive
  <1>5. ByteInPlace'
    BY <1>1 DEF ByteInPlace
  <1>6. ~ tainted' => flags' \cap Faults = {} /\ ("SSTOP" \in flags' => "SSTOP" \in flags)
    BY <1>1 DEF WireInv, InStep
  <1>7. InStep'
    BY <1>1, <1>4, <1>6 DEF WireInv, InStep
  <1> QED BY <1>5, <1>7 DEF WireInv

(* STXDONE and STXEMPTY: the pointer runs one byte ahead of the wire.      *)
LEMMA WireTransmitStep ==
  ASSUME WireInv, TargetInv', NEW f \in {"STXDONE", "STXEMPTY"}, Transmit(f)
  PROVE  WireInv'
  <1>1. /\ flags' = flags \ {f}
        /\ UNCHANGED <<rx, commands, bus, wire, tainted>>
    BY DEF Transmit, Take
  <1>2. CASE ~ treq
    <2>1. UNCHANGED <<g_start_prehandled, engine, regmap, tx, treq>>
      BY <1>2 DEF Transmit
    <2> QED
      BY <1>1, <2>1 DEF WireInv, ByteInPlace, InStep, ByteWaits, Counted, Writable,
         StartPending, wire, engine, regmap
  <1>3. CASE treq
    <2>1. bus = "read" /\ "SRXDONE" \notin flags
      BY <1>3 DEF WireInv, TargetInv, FlagsInv, ByteInPlace
    <2>2. treq' = FALSE /\ current_address' = Advance(current_address)
      BY <1>3 DEF Transmit, ReadCurrent
    <2>3. ~ tainted => current_address = expected
      BY <1>3, <2>1 DEF WireInv, InStep
    <2> QED
      BY <1>1, <2>1, <2>2, <2>3 DEF WireInv, ByteInPlace, InStep, wire
  <1> QED BY <1>2, <1>3

(* The main loop. *)
LEMMA WireMainStep ==
  ASSUME WireInv, TargetInv',
         PopCommand \/ \E p \in PageIds, v \in Version : Publish(p, v)
  PROVE  WireInv'
  <1> USE DEF WireInv, ByteInPlace, InStep, ByteWaits, Counted, Writable, StartPending,
              peripheral, engine, regmap, commands, wire
  <1>1. CASE PopCommand
    BY <1>1 DEF PopCommand
  <1>2. ASSUME NEW p \in PageIds, NEW v \in Version, Publish(p, v) PROVE WireInv'
    BY <1>2 DEF Publish
  <1> QED BY <1>1, <1>2

(* The bus: a START finds no byte waiting and takes the pointer as it is,  *)
(* and a byte finds its predecessor counted.                               *)
LEMMA WireBusStep ==
  ASSUME Timely, WireInv, TargetInv', Bus
  PROVE  WireInv'
  <1> USE DEF StartPending, engine, regmap, commands, wire, unseen, Ready
  <1>1. CASE BusStart
    <2>1. "SRXDONE" \notin flags /\ flags \cap Faults = {} /\ ~ g_start_prehandled
      BY <1>1 DEF BusStart, Timely, WireInv, TargetInv, FlagsInv
    <2>2. /\ flags' = flags \cup {"SSTART"} /\ StartPending' /\ bus' = "address"
          /\ wire_count' = 0
      BY <1>1, <2>1 DEF BusStart
    <2>3. current_address' = expected'
      BY <1>1, <2>1 DEF BusStart, WireInv, InStep
    <2>4. "SSTART" \notin Faults
      BY TargetAssumption
    <2> QED
      BY <2>1, <2>2, <2>3, <2>4 DEF WireInv, ByteInPlace, InStep, Counted
  <1>2. ASSUME NEW kind \in {"write", "read", "other"}, BusAddress(kind) PROVE WireInv'
    <2>1. "SRXDONE" \notin flags /\ "STXEMPTY" \notin Faults
      BY <1>2, TargetAssumption DEF BusAddress, WireInv, ByteInPlace
    <2>2. ~ tainted' => ~ tainted
      BY <1>2 DEF BusAddress, Overtaken
    <2>3. /\ flags' \in {flags, flags \cup {"STXEMPTY"}} /\ bus' = kind
          /\ treq' = (kind = "read") /\ bus = "address"
          /\ UNCHANGED <<unseen, wire>>
      BY <1>2 DEF BusAddress
    <2>4. Counted' = Counted
      BY <2>3 DEF Counted
    <2>5. ~ tainted => /\ flags \cap Faults = {} /\ wire_count = 0 /\ Counted = 0
                       /\ current_address = expected
      BY <2>1, <2>3 DEF WireInv, InStep
    <2>6. "SRXDONE" \notin flags' /\ (flags \cap Faults = {} => flags' \cap Faults = {})
      BY <2>1, <2>3
    <2>7. bus' = "read" => treq'
      BY <2>3
    <2>8. current_address' = current_address /\ expected' = expected /\ wire_count' = wire_count
      BY <2>3
    <2>9. kind # "address"
      OBVIOUS
    <2>10. InStep'
      BY <2>2, <2>3, <2>4, <2>5, <2>6, <2>7, <2>8, <2>9 DEF InStep
    <2> QED BY <2>6, <2>10 DEF WireInv, ByteInPlace
  <1>3. ASSUME NEW value \in Data, BusWrite(value) PROVE WireInv'
    <2>1. /\ "SRXDONE" \notin flags /\ bus = "write" /\ bus' = "write"
          /\ ~ g_start_prehandled /\ "SRXDONE" \notin Faults
      BY <1>3, TargetAssumption DEF BusWrite, Timely, WireInv, TargetInv, FlagsInv
    <2>2. /\ flags' = flags \cup {"SRXDONE"} /\ rx' = value /\ UNCHANGED unseen
          /\ wire_count' = (IF wire_count = 2 THEN 2 ELSE wire_count + 1)
          /\ wire_high' = (IF wire_count = 0 THEN value ELSE 0)
      BY <1>3 DEF BusWrite
    <2>3. ByteInPlace'
      BY <2>1, <2>2 DEF ByteInPlace
    <2>4. Counted' = Counted /\ (Writable(current_address))' = Writable(current_address)
      BY <2>2 DEF Counted, Writable
    <2>5. ASSUME ~ tainted'
          PROVE  /\ flags' \cap Faults = {} /\ "SSTOP" \notin flags'
                 /\ ByteWaits'
      <3>1. ~ tainted /\ "SSTOP" \notin flags
        BY <1>3, <2>5 DEF BusWrite, Overtaken
      <3>2. /\ flags \cap Faults = {} /\ current_address = expected /\ Counted = wire_count
            /\ wire_count = 1 => pending_address = wire_high * Base
        BY <2>1, <3>1 DEF WireInv, InStep
      <3>3. ByteWaits'
        <4>1. CASE wire_count = 0
          BY <1>3, <2>2, <2>4, <3>2, <4>1 DEF BusWrite, ByteWaits
        <4>2. CASE wire_count = 1
          BY <1>3, <2>2, <2>4, <3>2, <4>2 DEF BusWrite, ByteWaits
        <4>3. CASE wire_count = 2
          <5>1. expected' = Advance(current_address)
            BY <1>3, <3>2, <4>3 DEF BusWrite, Advance
          <5>2. due' = IF Writable(current_address) THEN <<current_address, value>>
                       ELSE NoCommand
            BY <1>3, <3>2, <4>3, WritableIsExpected DEF BusWrite, WireInv, TargetInv, TypeOK
          <5> QED BY <2>2, <2>4, <3>2, <4>3, <5>1, <5>2 DEF ByteWaits
        <4> QED BY <4>1, <4>2, <4>3 DEF WireInv, TargetInv, TypeOK
      <3> QED BY <2>1, <2>2, <3>1, <3>2, <3>3
    <2> QED BY <2>1, <2>2, <2>3, <2>5 DEF WireInv, InStep
  <1>4. CASE BusShift
    <2>1. "SRXDONE" \notin flags /\ "STXDONE" \notin Faults
      BY <1>4, TargetAssumption DEF BusShift, WireInv, ByteInPlace
    <2> QED
      BY <1>4, <2>1 DEF BusShift, WireInv, ByteInPlace, InStep, Advance
  <1>5. ASSUME NEW ack \in BOOLEAN, BusAck(ack) PROVE WireInv'
    <2>1. "SRXDONE" \notin flags /\ "STXEMPTY" \notin Faults
      BY <1>5, TargetAssumption DEF BusAck, WireInv, ByteInPlace
    <2> QED BY <1>5, <2>1 DEF BusAck, WireInv, ByteInPlace, InStep
  <1>6. CASE BusStop
    <2>1. "SSTOP" \notin Faults
      BY TargetAssumption
    <2> QED
      BY <1>6, <2>1 DEF BusStop, WireInv, ByteInPlace, InStep, ByteWaits, Counted, Writable
  <1>7. ASSUME NEW f \in Faults, BusError(f) PROVE WireInv'
    <2>1. f \in {"TIMEOUTA", "FAULT"}
      BY TargetAssumption
    <2> QED BY <1>7, <2>1 DEF BusError, WireInv, ByteInPlace, InStep
  <1> QED BY <1>1, <1>2, <1>3, <1>4, <1>5, <1>6, <1>7 DEF Bus

LEMMA WireStep ==
  ASSUME Timely
  PROVE  WireInv /\ [Next]_vars => WireInv'
  <1> SUFFICES ASSUME WireInv, [Next]_vars PROVE WireInv'
    OBVIOUS
  <1>1. TargetInv'
    BY TargetStep DEF WireInv
  <1>2. CASE UNCHANGED vars
    BY <1>1, <1>2 DEF vars, peripheral, engine, regmap, commands, wire, WireInv, ByteInPlace,
       InStep, ByteWaits, Counted, Writable, StartPending
  <1> QED
    BY <1>1, <1>2, WireEndStep, WireReceiveStep, WireTransmitStep, WireMainStep, WireBusStep
    DEF Next, Isr

(* The register pointer follows the wire, in every order of the events     *)
(* that a punctual handler may find pending together.                      *)
THEOREM PointerIsRight ==
  ASSUME Timely
  PROVE  Spec => []PointerFollowsWire
  <1>1. WireInv => PointerFollowsWire
    BY DEF WireInv, TargetInv, StretchAnswered, InStep, PointerFollowsWire, Drained, Advance
  <1> QED BY <1>1, WireInit, WireStep, PTL DEF Spec
-----------------------------------------------------------------------------
(* A command reaches the queue only through SRXDONE of a data byte.        *)
LEMMA ReceiveDelivers ==
  ASSUME WireInv, Receive, ~ tainted
  PROVE  \/ due = NoCommand /\ UNCHANGED <<commands, due>>
         \/ /\ due # NoCommand /\ queue' = Append(queue, due) /\ Len(queue) < QueueCapacity
         \/ /\ due # NoCommand /\ queue' = queue /\ Len(queue) = QueueCapacity
            /\ dropped_count' = (dropped_count + 1) % CountModulus
  <1> DEFINE count == IF Fresh("receive") THEN 0 ELSE address_byte_count
  <1>1. /\ "SRXDONE" \in flags /\ due' = NoCommand /\ EngineReceive(count, rx)
    BY DEF Receive, Take
  <1>2. ByteWaits /\ count = Counted
    BY <1>1 DEF WireInv, ByteInPlace, InStep, Counted, StartPending, Fresh
  <1>3. CASE count \in {0, 1}
    BY <1>1, <1>2, <1>3 DEF EngineReceive, ByteWaits
  <1>4. CASE count = 2
    <2>1. due = IF Writable(current_address) THEN <<current_address, rx>> ELSE NoCommand
      BY <1>2, <1>4 DEF ByteWaits
    <2>2. IF Writable(current_address) THEN Enqueue(<<current_address, rx>>)
          ELSE UNCHANGED commands
      BY <1>1, <1>4 DEF EngineReceive, WriteCurrent, Writable
    <2>3. CASE Writable(current_address)
      <3>1. due = <<current_address, rx>> /\ Enqueue(due)
        BY <2>1, <2>2, <2>3
      <3>2. due # NoCommand
        BY <3>1, SentinelAssumption DEF WireInv, TargetInv, TypeOK
      <3>3. Len(queue) \in Int /\ Len(queue) <= QueueCapacity /\ QueueCapacity \in Int
        BY Numbers DEF WireInv, TargetInv, TypeOK
      <3> QED BY <3>1, <3>2, <3>3 DEF Enqueue
    <2>4. CASE ~ Writable(current_address)
      BY <1>1, <2>1, <2>2, <2>4
    <2> QED BY <2>3, <2>4
  <1>5. count \in {0, 1, 2}
    BY <1>2 DEF ByteWaits
  <1> QED BY <1>3, <1>4, <1>5

(* lib_regmap's command queue holds what the wire carried, in its order,   *)
(* and every command that does not fit is counted.                         *)
THEOREM CommandsAreDelivered ==
  ASSUME Timely
  PROVE  Spec => CommandsDelivered
  <1> DEFINE Delivery ==
        ((commands' # commands \/ (due # NoCommand /\ due' = NoCommand)) /\ ~ tainted) =>
          \/ queue # << >> /\ queue' = Tail(queue) /\ due' = due
          \/ due # NoCommand /\ queue' = Append(queue, due) /\ Len(queue) < QueueCapacity
          \/ /\ due # NoCommand /\ queue' = queue /\ Len(queue) = QueueCapacity
             /\ dropped_count' = (dropped_count + 1) % CountModulus
  <1>1. WireInv /\ [Next]_vars => [Delivery]_vars
    <2> SUFFICES ASSUME WireInv, Next PROVE Delivery
      OBVIOUS
    <2>1. CASE Receive
      BY <2>1, ReceiveDelivers
    <2>2. CASE PopCommand
      BY <2>2 DEF PopCommand, wire
    <2>3. ASSUME NEW value \in Data, BusWrite(value) PROVE Delivery
      <3>1. due = NoCommand /\ UNCHANGED commands
        BY <2>3 DEF BusWrite, Ready, unseen, Timely, WireInv, TargetInv, FlagsInv
      <3> QED BY <3>1
    <2>4. CASE UNCHANGED <<commands, due>>
      BY <2>4
    <2>5. \/ Receive \/ PopCommand \/ (\E value \in Data : BusWrite(value))
          \/ UNCHANGED <<commands, due>>
      <3>1. CASE Isr
        BY <3>1 DEF Isr, IsrEnter, IsrReturn, Transmit, Start, Stop, Abort, wire
      <3>2. CASE Bus
        BY <3>2 DEF Bus, BusStart, BusAddress, BusShift, BusAck, BusStop, BusError, unseen, wire
      <3>3. CASE \E p \in PageIds, v \in Version : Publish(p, v)
        BY <3>3 DEF Publish, wire
      <3> QED BY <3>1, <3>2, <3>3 DEF Next
    <2> QED BY <2>1, <2>2, <2>3, <2>4, <2>5
  <1> QED BY <1>1, WireInit, WireStep, PTL DEF Spec, CommandsDelivered

(* Every byte read is the one of the address that the wire has reached,    *)
(* and neighbours of one page come from one image.                         *)
THEOREM ReadsAreCoherent ==
  ASSUME Timely
  PROVE  Spec => ReadsCoherent
  <1>1. WireInv /\ [Next]_vars =>
          [(treq /\ ~ treq' /\ ~ tainted) =>
             LET page == FindPage(expected)
                 first == \/ Fresh("transmit")
                          \/ tx = Unmapped
                          \/ FindPage(tx[1]) # page
             IN  tx' = IF page = 0 THEN Unmapped
                       ELSE <<expected, IF first THEN published[page] ELSE tx[2]>>
          ]_vars
    <2> DEFINE page == FindPage(expected)
               first == Fresh("transmit") \/ tx = Unmapped \/ FindPage(tx[1]) # page
    <2> SUFFICES ASSUME WireInv, Next, treq, ~ treq', ~ tainted
                 PROVE  tx' = IF page = 0 THEN Unmapped
                              ELSE <<expected, IF first THEN published[page] ELSE tx[2]>>
      OBVIOUS
    <2>1. bus = "read" /\ "SRXDONE" \notin flags /\ current_address = expected
      BY DEF WireInv, TargetInv, FlagsInv, ByteInPlace, InStep
    <2>2. PICK f \in {"STXDONE", "STXEMPTY"} : Transmit(f)
      <3>1. CASE Isr
        BY <3>1 DEF Isr, IsrEnter, IsrReturn, Receive, Start, Stop, Abort, peripheral
      <3>2. CASE Bus
        BY <2>1, <3>2 DEF Bus, BusStart, BusAddress, BusWrite, BusShift, BusAck, BusStop,
           BusError
      <3>3. CASE PopCommand \/ \E p \in PageIds, v \in Version : Publish(p, v)
        BY <3>3 DEF Publish, PopCommand, peripheral
      <3> QED BY <3>1, <3>2, <3>3 DEF Next
    <2> DEFINE held == IF Fresh("transmit") THEN NoLatch ELSE latched
               fetched == [page |-> page, image |-> published[page], current |-> TRUE]
    <2>3. ReadCurrent(held)
      BY <2>2 DEF Transmit
    <2>4. /\ held # NoLatch =>
               /\ held \in Latch /\ ~ Fresh("transmit") /\ tx # Unmapped
               /\ FindPage(tx[1]) = held.page /\ tx[2] = held.image
          /\ (held = NoLatch /\ ~ Fresh("transmit")) => tx = Unmapped
      BY DEF WireInv, TargetInv, TypeOK, TxInv, StartPending, Fresh
    <2>5. held # NoLatch => held.page # 0
      BY <2>4, PageTypes DEF Latch
    <2>6. page # 0 => fetched # NoLatch
      <3>1. page # 0 => page \in PageIds
        BY FindPageType
      <3>2. page # 0 => fetched \in Latch
        BY <3>1 DEF WireInv, TargetInv, TypeOK, Latch
      <3> QED BY <3>2, SentinelAssumption
    <2>7. /\ (IF held = NoLatch THEN page = 0 ELSE held.page = page) =>
               tx' = IF held = NoLatch THEN Unmapped ELSE <<expected, held.image>>
          /\ ~ (IF held = NoLatch THEN page = 0 ELSE held.page = page) =>
               tx' = IF page = 0 THEN Unmapped
                     ELSE IF fetched = NoLatch THEN Unmapped ELSE <<expected, fetched.image>>
      BY <2>1, <2>3 DEF ReadCurrent
    <2>8. fetched.image = published[page]
      OBVIOUS
    <2> HIDE DEF page, held, fetched
    <2>9. first <=> (Fresh("transmit") \/ tx = Unmapped \/ FindPage(tx[1]) # page)
      BY DEF page
    <2> HIDE DEF first
    <2> QED BY <2>4, <2>5, <2>6, <2>7, <2>8, <2>9
  <1> QED BY <1>1, WireInit, WireStep, PTL DEF Spec, ReadsCoherent
=============================================================================
