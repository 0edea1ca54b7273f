------------------------- MODULE I2cControllerProofs -------------------------
(***************************************************************************)
(* Proofs about I2cController: whatever the peripheral and the bus do, and *)
(* for every FIFO depth, poll limit and set of targets, a transfer starts  *)
(* only on an idle peripheral with empty FIFOs, a call that waited for its *)
(* transfer leaves the bus free and names how it ended, and OK is returned *)
(* only for a complete transfer of this call's own bytes.  On top of that, *)
(* what the port expander demo reports is true.                            *)
(***************************************************************************)
EXTENDS MCI2cController, SequenceTheorems, TLAPS

(* What the peripheral may be doing, by what the driver is doing. *)
PeripheralOK ==
  /\ ~ initialized => pc = "idle" /\ mode = "idle"
  /\ mode # "held"
  /\ mode # "idle" => msa_mctr.stop
  /\ mode = "pending" => pc = "delay"

(* A call that has not started a transfer yet. *)
NotStarted ==
  /\ pc \in {"line", "prepare", "launch"} => ~ started
  /\ (pc = "flush" /\ result = "OK") => ~ started /\ mode = "idle"
  /\ pc = "launch" =>
       mode = "idle" /\ ~ flushing /\ txfifo = << >> /\ rxfifo = << >>

(* A call that has seen its transfer end. *)
SeenEnd ==
  /\ (pc = "flush" /\ result # "TIMEOUT") => mode = "idle"
  /\ (pc = "events" /\ ~ last_status.busy) => mode = "idle"
  /\ pc = "fifo" => mode = "idle"

IInv == PeripheralOK /\ NotStarted /\ SeenEnd /\ BusReleased

LEMMA IInvInit == Init => IInv
  BY DEF Init, IInv, PeripheralOK, NotStarted, SeenEnd, BusReleased, Waited

(* The steps of the application: initialising and beginning calls. *)
LEMMA CallStep ==
  ASSUME IInv,
         \/ \E valid \in BOOLEAN : ControllerInit(valid)
         \/ \E w, r \in 0 .. MaxTransfer + 1 : Refuse(w, r)
         \/ \E a \in Address, w, r \in 0 .. MaxTransfer : Call(a, w, r)
  PROVE  IInv'
  <1> USE DEF IInv, PeripheralOK, NotStarted, SeenEnd, BusReleased, Waited, bus,
              fifos
  <1>1. ASSUME NEW valid \in BOOLEAN, ControllerInit(valid) PROVE IInv'
    BY <1>1 DEF ControllerInit, Mctr0
  <1>2. ASSUME NEW w, NEW r, Refuse(w, r) PROVE IInv'
    BY <1>2 DEF Refuse
  <1>3. ASSUME NEW a, NEW w, NEW r, Call(a, w, r) PROVE IInv'
    BY <1>3 DEF Call
  <1> QED BY <1>1, <1>2, <1>3

(* The steps of a running call. *)
LEMMA DriverStep ==
  ASSUME IInv, Driver
  PROVE  IInv'
  <1> USE DEF IInv, PeripheralOK, NotStarted, SeenEnd, BusReleased, Waited, bus,
              fifos
  <1>1. ASSUME NEW scl \in BOOLEAN, NEW sda \in BOOLEAN, LineState(scl, sda)
        PROVE  IInv'
    BY <1>1 DEF LineState
  <1>2. CASE Prepare
    <2>1. CASE Busy
      BY <1>2, <2>1 DEF Prepare
    <2>2. CASE ~ Busy
      <3>1. mode = "idle"
        BY <1>2, <2>2 DEF Prepare, Busy
      <3> QED BY <1>2, <2>2, <3>1 DEF Prepare, BeginFlush
    <2> QED BY <2>1, <2>2
  <1>3. CASE FlushPoll
    BY <1>3 DEF FlushPoll, Drained
  <1>4. CASE Launch
    BY <1>4 DEF Launch, Start
  <1>5. CASE ErrataDelay
    BY <1>5 DEF ErrataDelay
  <1>6. CASE PollStatus
    BY <1>6 DEF PollStatus, Msr, Busy
  <1>7. CASE PollEvents
    BY <1>7 DEF PollEvents, BeginFlush
  <1>8. CASE GiveUp
    BY <1>8 DEF GiveUp, BeginFlush
  <1>9. CASE ReadFifo
    BY <1>9 DEF ReadFifo
  <1> QED BY <1>1, <1>2, <1>3, <1>4, <1>5, <1>6, <1>7, <1>8, <1>9 DEF Driver

(* The steps of the peripheral and the bus. *)
LEMMA PeripheralStep ==
  ASSUME IInv, Peripheral
  PROVE  IInv'
  <1> USE DEF IInv, PeripheralOK, NotStarted, SeenEnd, BusReleased, Waited, call,
              fifos
  <1>1. CASE PickUp
    BY <1>1 DEF PickUp
  <1>2. CASE AckAddress
    BY <1>2 DEF AckAddress
  <1>3. CASE NackAddress
    BY <1>3 DEF NackAddress, End
  <1>4. CASE RepeatStart
    BY <1>4 DEF RepeatStart
  <1>5. ASSUME NEW ack \in BOOLEAN, SendByte(ack) PROVE IInv'
    BY <1>5 DEF SendByte, End
  <1>6. CASE ReceiveByte
    BY <1>6 DEF ReceiveByte
  <1>7. CASE BurstDone
    BY <1>7 DEF BurstDone, End
  <1>8. CASE BusError
    BY <1>8 DEF BusError, End, Busy
  <1>9. CASE TimeoutA
    BY <1>9 DEF TimeoutA, End, Busy
  <1>10. CASE Finish
    BY <1>10 DEF Finish
  <1>11. CASE FifoFlush
    BY <1>11 DEF FifoFlush, bus
  <1> QED BY <1>1, <1>2, <1>3, <1>4, <1>5, <1>6, <1>7, <1>8, <1>9, <1>10, <1>11
          DEF Peripheral

(* The inductive invariant holds in every reachable state. *)
LEMMA IInvStep ==
  ASSUME IInv, [Next]_vars
  PROVE  IInv'
  <1>1. CASE UNCHANGED vars
    BY <1>1 DEF vars, call, fifos, bus, IInv, PeripheralOK, NotStarted, SeenEnd,
                BusReleased, Waited
  <1> QED BY <1>1, CallStep, DriverStep, PeripheralStep DEF Next

LEMMA IInvHolds == Spec => []IInv
  BY IInvInit, IInvStep, PTL DEF Spec

(* For every FIFO depth, poll limit and set of targets: a call that waited *)
(* for the end of its transfer returns with the bus free.                  *)
THEOREM BusIsReleased == Spec => []BusReleased
  <1>1. IInv => BusReleased
    BY DEF IInv
  <1> QED BY <1>1, IInvHolds, PTL

(* Only Launch begins a transfer, and it does so on an idle peripheral     *)
(* with empty FIFOs.                                                       *)
LEMMA LaunchesClean ==
  ASSUME IInv, [Next]_vars, xfer' # xfer
  PROVE  mode = "idle" /\ txfifo = << >> /\ rxfifo = << >>
  <1>1. CASE Launch
    BY <1>1 DEF Launch, IInv, NotStarted
  <1>2. ASSUME ~ Launch PROVE FALSE
    <2>1. CASE \/ \E valid \in BOOLEAN : ControllerInit(valid)
               \/ \E w, r \in 0 .. MaxTransfer + 1 : Refuse(w, r)
               \/ \E a \in Address, w, r \in 0 .. MaxTransfer : Call(a, w, r)
      BY <2>1 DEF ControllerInit, Refuse, Call
    <2>2. CASE Driver
      BY <1>2, <2>2 DEF Driver, LineState, Prepare, FlushPoll, ErrataDelay,
                        PollStatus, PollEvents, GiveUp, ReadFifo
    <2>3. CASE Peripheral
      BY <2>3 DEF Peripheral, PickUp, AckAddress, NackAddress, RepeatStart,
                  SendByte, ReceiveByte, BurstDone, BusError, TimeoutA, Finish,
                  FifoFlush
    <2>4. CASE UNCHANGED vars
      BY <2>4 DEF vars
    <2> QED BY <2>1, <2>2, <2>3, <2>4 DEF Next
  <1> QED BY <1>1, <1>2

(* No transfer starts while an earlier one, given up, is still running, or *)
(* with bytes of it in the FIFOs.                                          *)
THEOREM TransfersStartClean == Spec => StartsClean
  <1>1. IInv /\ [Next]_vars =>
          [xfer' # xfer => mode = "idle" /\ txfifo = << >> /\ rxfifo = << >>]_vars
    BY LaunchesClean
  <1> QED BY <1>1, IInvHolds, PTL DEF Spec, StartsClean
-----------------------------------------------------------------------------
(* The types, split by what an action disturbs. *)
Octet == (0 .. 1) \X (1 .. MaxTransfer)

Mctr == [address : Address, length : 0 .. MaxTransfer,
         receive : BOOLEAN, rdtx : BOOLEAN, stop : BOOLEAN]

CallTypes ==
  /\ initialized \in BOOLEAN /\ started \in BOOLEAN
  /\ pc \in {"idle", "line", "prepare", "flush", "launch", "delay", "status",
             "events", "give_up", "fifo"}
  /\ op \in [address : Address, write : 0 .. MaxTransfer, read : 0 .. MaxTransfer]
  /\ result \in Result
  /\ index \in 0 .. PollLimit
  /\ last_status \in [busy : BOOLEAN, bits : SUBSET Bits]
  /\ msa_mctr \in Mctr

BusTypes ==
  /\ flushing \in BOOLEAN /\ ris \in BOOLEAN
  /\ bits \in SUBSET Bits
  /\ mode \in {"idle", "pending", "address", "write", "readdress", "read",
               "stopping", "held"}
  /\ received \in 0 .. MaxTransfer
  /\ xfer \in 0 .. 1
  /\ ended \in {"none", "done", "address_nack", "data_nack", "lost", "error",
                "stretched"}
  /\ stretched \in {"none", "idle", "transfer"}

SeqTypes ==
  /\ data \in Seq(Octet) /\ Len(data) <= Entries
  /\ txfifo \in Seq(Octet) /\ wire \in Seq(Octet)
  /\ rxfifo \in Seq(Octet) /\ Len(rxfifo) <= Entries

(* The bound of a poll is met only where the driver gives up, and the      *)
(* bytes of a transfer were all in the FIFO when it began.                 *)
Bounds ==
  /\ pc # "give_up" => index < PollLimit
  /\ Len(wire) + Len(txfifo) <= Entries

TypeInv == CallTypes /\ BusTypes /\ SeqTypes /\ Bounds

LEMMA TypesOfInv == TypeInv => TypeOK
  <1> SUFFICES ASSUME TypeInv PROVE TypeOK
    OBVIOUS
  <1>1. \A s \in {data, txfifo, rxfifo, wire} :
          s \in Seq(Octet) /\ Len(s) <= Entries
    <2>1. Len(wire) \in Nat /\ Len(txfifo) \in Nat
      BY DEF TypeInv, SeqTypes
    <2> QED BY <2>1, ControllerAssumption DEF TypeInv, SeqTypes, Bounds
  <1> QED BY <1>1 DEF TypeInv, CallTypes, BusTypes, Octet, Mctr, TypeOK

LEMMA BytesFacts ==
  ASSUME NEW x \in 0 .. 1, NEW n \in 0 .. MaxTransfer
  PROVE  /\ Bytes(x, n) \in Seq(Octet)
         /\ Len(Bytes(x, n)) = n
         /\ \A i \in 1 .. n : Bytes(x, n)[i] = <<x, i>>
  <1>1. n \in Nat /\ \A i \in 1 .. n : <<x, i>> \in Octet
    BY ControllerAssumption DEF Octet
  <1>2. Bytes(x, n) \in [1 .. n -> Octet]
    BY <1>1 DEF Bytes
  <1>3. Bytes(x, n) \in Seq(Octet)
    BY <1>1, <1>2, SeqDef
  <1>4. Len(Bytes(x, n)) = n
    BY <1>1, <1>2
  <1> QED BY <1>3, <1>4 DEF Bytes

LEMMA PreloadFacts ==
  ASSUME TypeInv, txfifo = << >>, Preload
  PROVE  txfifo' = Bytes(1 - xfer, op.write)
  <1>1. /\ 1 - xfer \in 0 .. 1 /\ op.write \in 0 .. MaxTransfer
        /\ op.write <= Entries /\ Entries \in Nat
    BY ControllerAssumption DEF TypeInv, CallTypes, BusTypes
  <1> DEFINE b == Bytes(1 - xfer, op.write)
  <1>2. b \in Seq(Octet) /\ Len(b) = op.write
    BY <1>1, BytesFacts
  <1>3. << >> \o b = b
    BY <1>2, ConcatEmptySeq
  <1>4. SubSeq(b, 1, Len(b)) = b
    BY <1>2, SubSeqFull
  <1> QED BY <1>1, <1>2, <1>3, <1>4 DEF Preload

LEMMA SendFacts ==
  ASSUME TypeInv, txfifo # << >>
  PROVE  /\ Tail(txfifo) \in Seq(Octet) /\ Len(Tail(txfifo)) = Len(txfifo) - 1
         /\ \A i \in 1 .. Len(Tail(txfifo)) : Tail(txfifo)[i] = txfifo[i + 1]
         /\ Head(txfifo) = txfifo[1] /\ Len(txfifo) \in Nat \ {0}
         /\ Append(wire, Head(txfifo)) \in Seq(Octet)
         /\ Len(Append(wire, Head(txfifo))) = Len(wire) + 1
         /\ \A i \in 1 .. Len(wire) : Append(wire, Head(txfifo))[i] = wire[i]
         /\ Append(wire, Head(txfifo))[Len(wire) + 1] = txfifo[1]
         /\ Len(wire) \in Nat
  <1>1. txfifo \in Seq(Octet) /\ wire \in Seq(Octet)
    BY DEF TypeInv, SeqTypes
  <1>2. /\ Head(txfifo) \in Octet /\ Tail(txfifo) \in Seq(Octet)
        /\ Len(Tail(txfifo)) = Len(txfifo) - 1
        /\ \A i \in 1 .. Len(Tail(txfifo)) : Tail(txfifo)[i] = txfifo[i + 1]
    BY <1>1, HeadTailProperties
  <1>3. Head(txfifo) = txfifo[1] /\ Len(txfifo) \in Nat \ {0} /\ Len(wire) \in Nat
    BY <1>1, EmptySeq
  <1>4. /\ Append(wire, Head(txfifo)) \in Seq(Octet)
        /\ Len(Append(wire, Head(txfifo))) = Len(wire) + 1
        /\ \A i \in 1 .. Len(wire) : Append(wire, Head(txfifo))[i] = wire[i]
        /\ Append(wire, Head(txfifo))[Len(wire) + 1] = Head(txfifo)
    BY <1>1, <1>2, AppendProperties
  <1> QED BY <1>2, <1>3, <1>4

LEMMA TypeInit == Init => TypeInv
  <1> SUFFICES ASSUME Init PROVE TypeInv
    OBVIOUS
  <1>1. << >> \in Seq(Octet) /\ Len(<< >>) = 0
    BY EmptySeq
  <1> QED
    <2>1. CallTypes
      <3>1. Mctr0 \in Mctr
        BY ControllerAssumption DEF Mctr0, Mctr
      <3>2. op \in [address : Address, write : 0 .. MaxTransfer, read : 0 .. MaxTransfer]
        BY ControllerAssumption DEF Init
      <3>3. last_status \in [busy : BOOLEAN, bits : SUBSET Bits]
        BY DEF Init
      <3>4. index \in 0 .. PollLimit
        BY ControllerAssumption DEF Init
      <3> QED BY <3>1, <3>2, <3>3, <3>4 DEF Init, CallTypes, Result
    <2>2. BusTypes
      <3>1. MaxTransfer \in Nat
        BY ControllerAssumption
      <3>2. bits \in SUBSET Bits
        BY DEF Init
      <3>3. received \in 0 .. MaxTransfer /\ xfer \in 0 .. 1
        BY <3>1 DEF Init
      <3>4. flushing \in BOOLEAN /\ ris \in BOOLEAN
        BY DEF Init
      <3> QED BY <3>2, <3>3, <3>4 DEF Init, BusTypes
    <2>3. SeqTypes
      BY <1>1, ControllerAssumption DEF Init, SeqTypes
    <2>4. Bounds
      BY <1>1, ControllerAssumption DEF Init, Bounds
    <2> QED BY <2>1, <2>2, <2>3, <2>4 DEF TypeInv

LEMMA TypeCallStep ==
  ASSUME TypeInv,
         \/ \E valid \in BOOLEAN : ControllerInit(valid)
         \/ \E w, r \in 0 .. MaxTransfer + 1 : Refuse(w, r)
         \/ \E a \in Address, w, r \in 0 .. MaxTransfer : Call(a, w, r)
  PROVE  TypeInv'
  <1> USE ControllerAssumption DEF TypeInv, CallTypes, BusTypes, SeqTypes, Bounds,
              bus, fifos
  <1>1. ASSUME NEW valid \in BOOLEAN, ControllerInit(valid) PROVE TypeInv'
    <2>1. CallTypes'
      BY <1>1 DEF ControllerInit, Mctr0, Mctr
    <2>2. BusTypes'
      BY <1>1 DEF ControllerInit
    <2>3. SeqTypes'
      BY <1>1 DEF ControllerInit
    <2>4. Bounds'
      BY <1>1 DEF ControllerInit
    <2> QED BY <2>1, <2>2, <2>3, <2>4 DEF TypeInv
  <1>2. ASSUME NEW w, NEW r, Refuse(w, r) PROVE TypeInv'
    <2>1. CallTypes'
      BY <1>2 DEF Refuse, Result
    <2>2. BusTypes'
      BY <1>2 DEF Refuse
    <2>3. SeqTypes'
      BY <1>2 DEF Refuse
    <2>4. Bounds'
      BY <1>2 DEF Refuse
    <2> QED BY <2>1, <2>2, <2>3, <2>4 DEF TypeInv
  <1>3. ASSUME NEW a \in Address, NEW w \in 0 .. MaxTransfer,
               NEW r \in 0 .. MaxTransfer, Call(a, w, r)
        PROVE  TypeInv'
    <2>1. << >> \in Seq(Octet) /\ Len(<< >>) = 0
      BY EmptySeq
    <2>2. CallTypes'
      BY <1>3 DEF Call, Result
    <2>3. BusTypes'
      BY <1>3 DEF Call
    <2>4. SeqTypes'
      BY <1>3, <2>1 DEF Call
    <2>5. Bounds'
      BY <1>3, <2>1 DEF Call
    <2> QED BY <2>2, <2>3, <2>4, <2>5 DEF TypeInv
  <1> QED BY <1>1, <1>2, <1>3

LEMMA TypeDriverStep ==
  ASSUME TypeInv, NotStarted, Driver
  PROVE  TypeInv'
  <1> USE ControllerAssumption DEF TypeInv, CallTypes, BusTypes, SeqTypes, Bounds,
              bus, fifos
  <1>1. ASSUME NEW scl \in BOOLEAN, NEW sda \in BOOLEAN, LineState(scl, sda)
        PROVE  TypeInv'
    BY <1>1 DEF LineState, Result
  <1>2. CASE Prepare
    <2>1. CallTypes'
      <3>1. msa_mctr' \in Mctr
        <4>1. Mctr0 \in Mctr /\ msa_mctr \in Mctr /\ msa_mctr.address \in Address
          BY DEF Mctr0, Mctr
        <4>2. [Mctr0 EXCEPT !.address = msa_mctr.address] \in Mctr
          BY <4>1 DEF Mctr
        <4> QED BY <1>2, <4>1, <4>2 DEF Prepare
      <3>2. last_status' \in [busy : BOOLEAN, bits : SUBSET Bits]
        BY <1>2 DEF Prepare, Msr, Busy
      <3>3. pc' \in {"idle", "flush"} /\ result' \in Result /\ index' \in 0 .. PollLimit
        BY <1>2 DEF Prepare, BeginFlush, Result
      <3> QED BY <1>2, <3>1, <3>2, <3>3 DEF Prepare, Mctr
    <2>2. BusTypes'
      BY <1>2 DEF Prepare, BeginFlush, ClearEvents
    <2>3. SeqTypes'
      BY <1>2 DEF Prepare, BeginFlush
    <2>4. Bounds'
      BY <1>2 DEF Prepare, BeginFlush
    <2> QED BY <2>1, <2>2, <2>3, <2>4 DEF TypeInv
  <1>3. CASE FlushPoll
    BY <1>3 DEF FlushPoll, Drained, LastPoll, Result
  <1>4. CASE Launch
    <2>1. op.write \in 0 .. MaxTransfer /\ xfer \in 0 .. 1 /\ 1 - xfer \in 0 .. 1
      OBVIOUS
    <2>2. txfifo' = Bytes(1 - xfer, op.write)
      BY <1>4, PreloadFacts DEF Launch, NotStarted
    <2>3. txfifo' \in Seq(Octet) /\ Len(txfifo') <= MaxTransfer
      BY <2>1, <2>2, BytesFacts
    <2>4. << >> \in Seq(Octet) /\ Len(<< >>) = 0
      BY EmptySeq
    <2>5. SeqTypes' /\ Bounds'
      BY <1>4, <2>3, <2>4 DEF Launch
    <2>6. CallTypes' /\ BusTypes'
      BY <1>4, <2>1 DEF Launch, Start, Mctr
    <2> QED BY <2>5, <2>6
  <1>5. CASE ErrataDelay
    BY <1>5 DEF ErrataDelay
  <1>6. CASE PollStatus
    BY <1>6 DEF PollStatus, Msr, Busy
  <1>7. CASE PollEvents
    <2>1. CallTypes'
      BY <1>7 DEF PollEvents, BeginFlush, Seen, StatusResult, Result
    <2>2. BusTypes'
      BY <1>7 DEF PollEvents, BeginFlush, ClearEvents
    <2>3. SeqTypes'
      BY <1>7 DEF PollEvents, BeginFlush
    <2>4. Bounds'
      BY <1>7 DEF PollEvents, BeginFlush, LastPoll
    <2> QED BY <2>1, <2>2, <2>3, <2>4 DEF TypeInv
  <1>8. CASE GiveUp
    <2>1. CallTypes'
      <3>1. msa_mctr' \in Mctr
        BY <1>8 DEF GiveUp, Mctr
      <3> QED BY <1>8, <3>1 DEF GiveUp, BeginFlush, Result, Mctr
    <2>2. BusTypes'
      BY <1>8 DEF GiveUp, BeginFlush
    <2>3. SeqTypes'
      BY <1>8 DEF GiveUp, BeginFlush
    <2>4. Bounds'
      BY <1>8 DEF GiveUp, BeginFlush
    <2> QED BY <2>1, <2>2, <2>3, <2>4 DEF TypeInv
  <1>9. CASE ReadFifo
    <2>1. CASE Len(rxfifo) < op.read
      BY <1>9, <2>1 DEF ReadFifo, Result
    <2>2. CASE ~ (Len(rxfifo) < op.read)
      <3>1. op.read \in Nat /\ Len(rxfifo) \in Nat /\ op.read <= Len(rxfifo)
        BY <2>2
      <3>2. \A i \in 1 .. Len(rxfifo) : rxfifo[i] \in Octet
        BY ElementOfSeq
      <3>3. /\ SubSeq(rxfifo, 1, op.read) \in Seq(Octet)
            /\ Len(SubSeq(rxfifo, 1, op.read)) <= Entries
        <4>1. \A i \in 1 .. op.read : rxfifo[i] \in Octet
          BY <3>1, <3>2
        <4> HIDE DEF TypeInv, CallTypes, BusTypes, SeqTypes, Bounds
        <4>2. /\ SubSeq(rxfifo, 1, op.read) \in Seq(Octet)
              /\ Len(SubSeq(rxfifo, 1, op.read))
                   = IF 1 <= op.read THEN op.read - 1 + 1 ELSE 0
          BY <3>1, <4>1, SubSeqProperties
        <4> QED BY <3>1, <4>2 DEF TypeInv, SeqTypes
      <3>4. /\ SubSeq(rxfifo, op.read + 1, Len(rxfifo)) \in Seq(Octet)
            /\ Len(SubSeq(rxfifo, op.read + 1, Len(rxfifo))) <= Entries
        <4>1. \A i \in op.read + 1 .. Len(rxfifo) : rxfifo[i] \in Octet
          BY <3>1, <3>2
        <4> HIDE DEF TypeInv, CallTypes, BusTypes, SeqTypes, Bounds
        <4>2. /\ SubSeq(rxfifo, op.read + 1, Len(rxfifo)) \in Seq(Octet)
              /\ Len(SubSeq(rxfifo, op.read + 1, Len(rxfifo)))
                   = IF op.read + 1 <= Len(rxfifo)
                     THEN Len(rxfifo) - (op.read + 1) + 1 ELSE 0
          BY <3>1, <4>1, SubSeqProperties
        <4> QED BY <3>1, <4>2 DEF TypeInv, SeqTypes
      <3>5. CallTypes'
        BY <1>9, <2>2 DEF ReadFifo, Result
      <3>6. BusTypes'
        BY <1>9, <2>2 DEF ReadFifo
      <3>7. SeqTypes'
        BY <1>9, <2>2, <3>3, <3>4 DEF ReadFifo
      <3>8. Bounds'
        BY <1>9, <2>2, <3>3, <3>4 DEF ReadFifo
      <3> QED BY <3>5, <3>6, <3>7, <3>8 DEF TypeInv
    <2> QED BY <2>1, <2>2
  <1> QED BY <1>1, <1>2, <1>3, <1>4, <1>5, <1>6, <1>7, <1>8, <1>9 DEF Driver

LEMMA TypePeripheralStep ==
  ASSUME TypeInv, Peripheral
  PROVE  TypeInv'
  <1> USE ControllerAssumption DEF TypeInv, CallTypes, BusTypes, SeqTypes, Bounds,
              call, fifos
  <1>1. CASE PickUp
    BY <1>1 DEF PickUp
  <1>2. CASE AckAddress
    BY <1>2 DEF AckAddress
  <1>3. CASE NackAddress
    BY <1>3 DEF NackAddress, End, Bits
  <1>4. CASE RepeatStart
    BY <1>4 DEF RepeatStart
  <1>5. ASSUME NEW ack \in BOOLEAN, SendByte(ack) PROVE TypeInv'
    <2>1. CallTypes'
      BY <1>5 DEF SendByte
    <2>2. BusTypes'
      BY <1>5 DEF SendByte, End, Bits
    <2>3. SeqTypes'
      BY <1>5, SendFacts DEF SendByte
    <2>4. Bounds'
      BY <1>5, SendFacts DEF SendByte
    <2> QED BY <2>1, <2>2, <2>3, <2>4 DEF TypeInv
  <1>6. CASE ReceiveByte
    <2>1. <<xfer, received + 1>> \in Octet /\ received + 1 \in 0 .. MaxTransfer
      <3>1. msa_mctr.length \in 0 .. MaxTransfer /\ MaxTransfer \in Nat
        BY DEF Mctr
      <3>2. received + 1 \in 1 .. MaxTransfer
        BY <1>6, <3>1 DEF ReceiveByte
      <3>3. <<xfer, received + 1>> \in Octet
        BY <3>2 DEF Octet
      <3> QED BY <3>1, <3>2, <3>3
    <2>2. /\ Append(rxfifo, <<xfer, received + 1>>) \in Seq(Octet)
          /\ Len(Append(rxfifo, <<xfer, received + 1>>)) = Len(rxfifo) + 1
      BY <2>1, AppendProperties
    <2> QED BY <1>6, <2>1, <2>2 DEF ReceiveByte, bus
  <1>7. CASE BurstDone
    BY <1>7 DEF BurstDone, End
  <1>8. CASE BusError
    <2>1. CallTypes'
      BY <1>8 DEF BusError
    <2>2. BusTypes'
      BY <1>8 DEF BusError, End, Bits
    <2>3. SeqTypes'
      BY <1>8 DEF BusError
    <2>4. Bounds'
      BY <1>8 DEF BusError
    <2> QED BY <2>1, <2>2, <2>3, <2>4 DEF TypeInv
  <1>9. CASE TimeoutA
    BY <1>9 DEF TimeoutA, End
  <1>10. CASE Finish
    BY <1>10 DEF Finish
  <1>11. CASE FifoFlush
    <2>1. << >> \in Seq(Octet) /\ Len(<< >>) = 0
      BY EmptySeq
    <2> QED BY <1>11, <2>1 DEF FifoFlush, bus
  <1> QED BY <1>1, <1>2, <1>3, <1>4, <1>5, <1>6, <1>7, <1>8, <1>9, <1>10, <1>11
          DEF Peripheral

(* The type invariant of the driver and the peripheral. *)
LEMMA TypeStep ==
  ASSUME IInv, TypeInv, [Next]_vars
  PROVE  TypeInv'
  <1>1. CASE UNCHANGED vars
    BY <1>1 DEF vars, call, fifos, bus, TypeInv, CallTypes, BusTypes, SeqTypes,
                Bounds
  <1> QED BY <1>1, TypeCallStep, TypeDriverStep, TypePeripheralStep DEF Next, IInv
-----------------------------------------------------------------------------
(* The transfer of the running call. *)
Waiting == pc \in {"delay", "status", "events", "give_up"}

(* What the driver has asked for. *)
Requested ==
  /\ pc # "idle" => data = << >>
  /\ pc \notin {"idle", "fifo"} => op.write + op.read > 0
  /\ Waiting =>
       /\ started /\ ~ flushing
       /\ msa_mctr.address = op.address
       /\ msa_mctr.length = IF op.read > 0 THEN op.read ELSE op.write
       /\ msa_mctr.receive = (op.read > 0)
       /\ msa_mctr.rdtx = (op.read > 0 /\ op.write > 0)

(* The bytes sent and still to be sent are those of this transfer, in      *)
(* order, and so are the bytes received.                                   *)
SentInOrder ==
  /\ Len(wire) + Len(txfifo) = op.write
  /\ \A i \in 1 .. Len(wire) : wire[i] = <<xfer, i>>
  /\ \A i \in 1 .. Len(txfifo) : txfifo[i] = <<xfer, Len(wire) + i>>

ReceivedInOrder ==
  /\ received <= op.read /\ Len(rxfifo) = received
  /\ \A i \in 1 .. Len(rxfifo) : rxfifo[i] = <<xfer, i>>

UnderWay == {"pending", "address", "write", "readdress", "read"}

Transfers ==
  Waiting =>
    /\ ended = "none" <=> mode \in UnderWay
    /\ ended \in {"none", "done"} => SentInOrder
    /\ ReceivedInOrder
    /\ mode \in {"read", "readdress"} => op.read > 0 /\ Len(txfifo) = 0
    /\ (mode = "write" /\ ~ msa_mctr.rdtx) => op.read = 0
    /\ mode \in {"write", "readdress", "read"} => op.address \in Present
    /\ ended = "done" =>
         Len(wire) = op.write /\ received = op.read /\ op.address \in Present

(* The error bits and Timeout A tell how the transfer ended, and the       *)
(* result so far comes from them.                                          *)
BitsOf(how) ==
  IF how = "address_nack" THEN {"ADRACK", "ERR"}
  ELSE IF how = "data_nack" THEN {"DATACK", "ERR"}
  ELSE IF how = "lost" THEN {"ARBLST", "ERR"}
  ELSE IF how = "error" THEN {"ERR"} ELSE {}

Signals ==
  /\ (pc = "launch" \/ (pc = "flush" /\ result = "OK")) =>
       stretched # "transfer" /\ (ris => stretched # "none")
  /\ pc \in {"line", "prepare", "launch"} => result = "OK"
  /\ Waiting =>
       /\ mode # "pending" => bits = BitsOf(ended)
       /\ (ris \/ result = "SCL_LOW_TIMEOUT") => stretched # "none"
       /\ stretched = "transfer" => ris \/ result = "SCL_LOW_TIMEOUT"
       /\ ended = "stretched" => stretched = "transfer"
       /\ pc = "delay" => result = "OK"
       /\ \/ result \in {"OK", "SCL_LOW_TIMEOUT"}
          \/ result = StatusResult(bits)
       /\ pc = "events" =>
            /\ last_status.bits = {} \/ last_status.bits = bits
            /\ last_status.busy \/ last_status.bits = bits

(* The result of a transfer that was seen to end. *)
Ending ==
  IF ended = "done" THEN "OK"
  ELSE IF ended = "address_nack" THEN "ADDRESS_NACK"
  ELSE IF ended = "data_nack" THEN "DATA_NACK"
  ELSE IF ended = "lost" THEN "ARBITRATION_LOST" ELSE "IO_ERROR"

Cause ==
  /\ stretched = "transfer" => result = "SCL_LOW_TIMEOUT"
  /\ IF result = "SCL_LOW_TIMEOUT" THEN stretched # "none" ELSE result = Ending

Settled ==
  (pc = "fifo" \/ (pc = "flush" /\ started /\ result # "TIMEOUT") \/ Waited)
    => Cause

Complete ==
  /\ ended = "done" /\ op.address \in Present
  /\ wire = Bytes(xfer, op.write)

Delivered ==
  /\ (pc = "idle" /\ result = "OK") =>
       started /\ Complete /\ data = Bytes(xfer, op.read)
  /\ pc = "fifo" =>
       /\ started /\ ~ flushing /\ result = "OK"
       /\ Complete /\ rxfifo = Bytes(xfer, op.read)

TransferInv == Requested /\ Transfers /\ Signals /\ Settled /\ Delivered

LEMMA TransferInit == Init => TransferInv
  BY DEF Init, TransferInv, Requested, Transfers, Signals, Settled, Delivered,
         Waiting, Waited

(* The result read from the error bits, by how the transfer ended. *)
LEMMA StatusFacts ==
  ASSUME ended \in {"none", "done", "address_nack", "data_nack", "lost", "error",
                    "stretched"}
  PROVE  StatusResult(BitsOf(ended))
           = IF ended \in {"none", "stretched"} THEN "OK" ELSE Ending
  <1>1. CASE ended \in {"none", "done", "stretched"}
    BY <1>1 DEF StatusResult, BitsOf, Ending
  <1>2. CASE ended = "address_nack"
    BY <1>2 DEF StatusResult, BitsOf, Ending
  <1>3. CASE ended = "data_nack"
    BY <1>3 DEF StatusResult, BitsOf, Ending
  <1>4. CASE ended = "lost"
    BY <1>4 DEF StatusResult, BitsOf, Ending
  <1>5. CASE ended = "error"
    BY <1>5 DEF StatusResult, BitsOf, Ending
  <1> QED BY <1>1, <1>2, <1>3, <1>4, <1>5

LEMMA BytesEqual ==
  ASSUME NEW s \in Seq(Octet), NEW x \in 0 .. 1, NEW n \in 0 .. MaxTransfer,
         Len(s) = n, \A i \in 1 .. Len(s) : s[i] = <<x, i>>
  PROVE  s = Bytes(x, n)
  <1>1. /\ Bytes(x, n) \in Seq(Octet) /\ Len(Bytes(x, n)) = n
        /\ \A i \in 1 .. n : Bytes(x, n)[i] = <<x, i>>
    BY BytesFacts
  <1> QED BY <1>1, SeqEqual

LEMMA TransferCallStep ==
  ASSUME TypeInv, IInv, TransferInv,
         \/ \E valid \in BOOLEAN : ControllerInit(valid)
         \/ \E w, r \in 0 .. MaxTransfer + 1 : Refuse(w, r)
         \/ \E a \in Address, w, r \in 0 .. MaxTransfer : Call(a, w, r)
  PROVE  TransferInv'
  <1> USE DEF TransferInv, Requested, Transfers, Signals, Settled, Delivered, Waiting,
              Waited
  <1>1. ASSUME NEW valid \in BOOLEAN, ControllerInit(valid) PROVE TransferInv'
    BY <1>1 DEF ControllerInit, bus, fifos, Cause, Ending, Complete
  <1>2. ASSUME NEW w, NEW r, Refuse(w, r) PROVE TransferInv'
    BY <1>2 DEF Refuse
  <1>3. ASSUME NEW a \in Address, NEW w \in 0 .. MaxTransfer,
               NEW r \in 0 .. MaxTransfer, Call(a, w, r)
        PROVE  TransferInv'
    BY <1>3 DEF Call, Valid
  <1> QED BY <1>1, <1>2, <1>3
(* The steps of a running call, with the bytes and signals named. *)
LEMMA TransferDriverStep ==
  ASSUME TypeInv, IInv, TransferInv, Driver
  PROVE  TransferInv'
  <1> USE DEF TransferInv, Requested, Transfers, Signals, Settled, Delivered, Waiting,
              Waited
  <1>1. ASSUME NEW scl \in BOOLEAN, NEW sda \in BOOLEAN, LineState(scl, sda)
        PROVE  TransferInv'
    BY <1>1 DEF LineState, IInv, NotStarted
  <1>2. CASE Prepare
    <2>1. CASE Busy
      BY <1>2, <2>1 DEF Prepare, IInv, NotStarted
    <2>2. CASE ~ Busy
      BY <1>2, <2>2 DEF Prepare, IInv, NotStarted, ClearEvents, BeginFlush
    <2> QED BY <2>1, <2>2
  <1>3. CASE FlushPoll
    BY <1>3 DEF FlushPoll, IInv, NotStarted, Cause, Ending, bus
  <1>4. CASE Launch
    <2>1. /\ op.write \in 0 .. MaxTransfer /\ 1 - xfer \in 0 .. 1
          /\ op.read \in 0 .. MaxTransfer /\ MaxTransfer \in Nat
          /\ msa_mctr' = [address |-> op.address,
                          length |-> IF op.read > 0 THEN op.read ELSE op.write,
                          receive |-> op.read > 0,
                          rdtx |-> op.read > 0 /\ op.write > 0,
                          stop |-> TRUE]
      BY <1>4, ControllerAssumption DEF TypeInv, CallTypes, BusTypes, Launch, Start
    <2>2. /\ txfifo = << >> /\ rxfifo = << >> /\ rxfifo' = rxfifo /\ ~ flushing
          /\ wire' = << >> /\ received' = 0 /\ xfer' = 1 - xfer /\ op' = op
          /\ mode' = "pending" /\ ended' = "none" /\ pc' = "delay"
      BY <1>4 DEF Launch, IInv, NotStarted
    <2>3. txfifo' = Bytes(1 - xfer, op.write)
      BY <1>4, <2>2, PreloadFacts DEF Launch
    <2>4. SentInOrder'
      <3>1. Len(wire') = 0 /\ Len(txfifo') = op.write
        BY <2>1, <2>2, <2>3, BytesFacts
      <3>2. \A i \in 1 .. op.write : txfifo'[i] = <<1 - xfer, i>>
        BY <2>1, <2>3, BytesFacts
      <3> QED BY <2>1, <2>2, <3>1, <3>2 DEF SentInOrder
    <2>5. ReceivedInOrder'
      BY <2>1, <2>2 DEF ReceivedInOrder
    <2>6. Requested'
      BY <1>4, <2>1, <2>2 DEF Launch
    <2>7. Transfers'
      BY <2>2, <2>4, <2>5 DEF UnderWay
    <2>8. Signals' /\ Settled' /\ Delivered'
      BY <1>4, <2>2 DEF Launch
    <2> QED BY <2>6, <2>7, <2>8
  <1>5. CASE ErrataDelay
    BY <1>5 DEF ErrataDelay, bus, fifos, SentInOrder, ReceivedInOrder
  <1>6. CASE PollStatus
    <2>1. mode # "pending"
      BY <1>6 DEF PollStatus, IInv, PeripheralOK
    <2>2. Signals'
      BY <1>6, <2>1 DEF PollStatus, Msr, bus
    <2> QED BY <1>6, <2>2 DEF PollStatus, bus, fifos, SentInOrder, ReceivedInOrder
  <1>7. CASE PollEvents
    <2>1. mode # "pending" /\ bits = BitsOf(ended)
      BY <1>7 DEF PollEvents, IInv, PeripheralOK
    <2>2. Seen \in {"OK", "SCL_LOW_TIMEOUT"} \/ Seen = StatusResult(bits)
      BY <1>7 DEF PollEvents, Seen, StatusResult
    <2>3. CASE last_status.busy
      <3>1. Requested' /\ Transfers'
        BY <1>7, <2>3 DEF PollEvents, bus, fifos, SentInOrder, ReceivedInOrder
      <3>2. Signals'
        <4>1. Seen = "SCL_LOW_TIMEOUT" <=> ris \/ result = "SCL_LOW_TIMEOUT"
          BY DEF Seen, StatusResult
        <4> QED BY <1>7, <2>1, <2>2, <2>3, <4>1 DEF PollEvents, bus, ClearEvents
      <3>3. Settled' /\ Delivered'
        BY <1>7, <2>3 DEF PollEvents
      <3> QED BY <3>1, <3>2, <3>3
    <2>4. CASE ~ last_status.busy
      <3>1. mode = "idle" /\ ended # "none" /\ last_status.bits = bits
        BY <1>7, <2>4 DEF PollEvents, IInv, SeenEnd, UnderWay
      <3>2. Cause'
        <4>1. /\ result' = Seen /\ stretched' = stretched /\ ended' = ended
              /\ ended \in {"done", "address_nack", "data_nack", "lost", "error",
                            "stretched"}
          BY <1>7, <3>1 DEF PollEvents, bus, TypeInv, BusTypes
        <4>2. stretched = "transfer" => ris \/ result = "SCL_LOW_TIMEOUT"
          BY <1>7 DEF PollEvents
        <4>3. (ris \/ result = "SCL_LOW_TIMEOUT") => stretched # "none"
          BY <1>7 DEF PollEvents
        <4>4. CASE Seen = "SCL_LOW_TIMEOUT"
          <5>1. ris \/ result = "SCL_LOW_TIMEOUT"
            BY <4>4 DEF Seen, StatusResult
          <5> QED BY <4>1, <4>3, <4>4, <5>1 DEF Cause
        <4>5. CASE Seen # "SCL_LOW_TIMEOUT"
          <5>1. ~ ris /\ result # "SCL_LOW_TIMEOUT"
            BY <4>5 DEF Seen
          <5>2. Seen = StatusResult(bits) /\ ended # "stretched"
            BY <1>7, <3>1, <4>2, <5>1 DEF PollEvents, Seen
          <5>3. Seen = Ending
            BY <2>1, <4>1, <5>2, StatusFacts
          <5> QED BY <4>1, <4>2, <4>5, <5>1, <5>3 DEF Cause, Ending
        <4> QED BY <4>4, <4>5
      <3>3. Settled'
        BY <3>2
      <3>4. Requested' /\ Signals' /\ Transfers'
        BY <1>7, <2>4 DEF PollEvents, BeginFlush, fifos
      <3>5. ASSUME Seen = "OK" PROVE Delivered'
        <4>1. ended = "done"
          <5>1. Ending' = "OK" /\ ended' = ended
            BY <1>7, <3>2, <3>5 DEF Cause, PollEvents, bus
          <5> QED BY <5>1 DEF Ending
        <4>2. /\ SentInOrder /\ ReceivedInOrder /\ Len(wire) = op.write
              /\ received = op.read /\ op.address \in Present /\ started /\ ~ flushing
              /\ data = << >>
          BY <1>7, <4>1 DEF PollEvents
        <4>3. /\ wire \in Seq(Octet) /\ rxfifo \in Seq(Octet) /\ xfer \in 0 .. 1
              /\ op.write \in 0 .. MaxTransfer /\ op.read \in 0 .. MaxTransfer
          BY DEF TypeInv, SeqTypes, BusTypes, CallTypes
        <4>4. wire = Bytes(xfer, op.write)
          BY <4>2, <4>3, BytesEqual DEF SentInOrder
        <4>5. rxfifo = Bytes(xfer, op.read)
          BY <4>2, <4>3, BytesEqual DEF ReceivedInOrder
        <4>6. op.read = 0 => data = Bytes(xfer, op.read)
          BY <4>2, <4>3, <4>5 DEF ReceivedInOrder, Bytes
        <4> QED
          BY <1>7, <2>4, <3>5, <4>1, <4>2, <4>3, <4>4, <4>5, <4>6
          DEF PollEvents, bus, fifos, Complete
      <3>6. ASSUME Seen # "OK" PROVE Delivered'
        BY <1>7, <2>4, <3>6 DEF PollEvents
      <3> QED BY <3>3, <3>4, <3>5, <3>6
    <2> QED BY <2>3, <2>4
  <1>8. CASE GiveUp
    BY <1>8 DEF GiveUp
  <1>9. CASE ReadFifo
    <2>1. /\ op.read \in 0 .. MaxTransfer /\ xfer \in 0 .. 1
          /\ rxfifo = Bytes(xfer, op.read) /\ rxfifo \in Seq(Octet)
      BY <1>9 DEF ReadFifo, TypeInv, CallTypes, BusTypes, SeqTypes
    <2>2. Len(rxfifo) = op.read
      BY <2>1, BytesFacts
    <2>3. SubSeq(rxfifo, 1, op.read) = rxfifo
      BY <2>1, <2>2, SubSeqFull
    <2>4. Delivered'
      BY <1>9, <2>1, <2>2, <2>3 DEF ReadFifo, bus, Complete
    <2>5. Settled'
      BY <1>9, <2>1, <2>2 DEF ReadFifo, bus, Cause, Ending
    <2>6. Requested' /\ Transfers' /\ Signals'
      BY <1>9 DEF ReadFifo
    <2> QED BY <2>4, <2>5, <2>6
  <1> QED BY <1>1, <1>2, <1>3, <1>4, <1>5, <1>6, <1>7, <1>8, <1>9 DEF Driver
(* The peripheral ends the transfer only while it is under way. *)
LEMMA TransferEndStep ==
  ASSUME TypeInv, IInv, TransferInv, mode \in UnderWay, mode # "pending",
         NEW how \in {"address_nack", "data_nack", "lost", "error"},
         End(how, BitsOf(how)), ReceivedInOrder = ReceivedInOrder',
         UNCHANGED <<call, msa_mctr, flushing, ris, received, xfer, stretched>>
  PROVE  TransferInv'
  <1> USE DEF TransferInv, Requested, Transfers, Signals, Settled, Delivered, Waiting,
              Waited
  <1>1. mode' = "stopping" /\ ended' = how /\ bits' = bits \cup BitsOf(how)
    BY DEF End
  <1>2. Busy /\ mode # "idle"
    BY DEF UnderWay, Busy
  <1>3. ~ (pc = "idle" /\ started /\ result # "TIMEOUT") /\ pc # "fifo"
        /\ (pc = "flush" => result = "TIMEOUT") /\ pc # "launch"
    BY <1>2 DEF IInv, BusReleased, SeenEnd, NotStarted
  <1>4. ASSUME Waiting PROVE bits = {}
    BY <1>4 DEF BitsOf, UnderWay
  <1>5. Signals'
    <2>1. CASE Waiting
      <3>1. bits' = BitsOf(ended') /\ ended' # "stretched" /\ ended' = how
        BY <1>1, <1>4, <2>1
      <3>2. result \in {"OK", "SCL_LOW_TIMEOUT"}
        BY <1>4, <2>1 DEF StatusResult
      <3>3. pc = "events" => last_status.busy /\ last_status.bits = {}
        BY <1>2, <1>4, <2>1 DEF IInv, SeenEnd
      <3> QED BY <1>3, <2>1, <3>1, <3>2, <3>3 DEF call
    <2>2. CASE ~ Waiting
      BY <1>3, <2>2 DEF call
    <2> QED BY <2>1, <2>2
  <1>6. Transfers'
    BY <1>1 DEF UnderWay, call
  <1>7. Requested' /\ Settled' /\ Delivered'
    BY <1>3 DEF call
  <1> QED BY <1>5, <1>6, <1>7

(* The steps of the peripheral and the bus. *)
LEMMA TransferPeripheralStep ==
  ASSUME TypeInv, IInv, TransferInv, Peripheral
  PROVE  TransferInv'
  <1> USE DEF TransferInv, Requested, Transfers, Signals, Settled, Delivered, Waiting,
              Waited
  <1>0. mode \notin {"idle", "stopping", "held"} => mode \in UnderWay
    BY DEF TypeInv, BusTypes, UnderWay
  <1>1. CASE PickUp
    <2>1. pc = "delay" /\ mode = "pending" /\ mode' = "address" /\ bits' = {}
      BY <1>1 DEF PickUp, IInv, PeripheralOK
    <2>2. ended = "none"
      BY <2>1 DEF UnderWay
    <2> QED
      BY <1>1, <2>1, <2>2
      DEF PickUp, call, fifos, UnderWay, BitsOf, SentInOrder, ReceivedInOrder
  <1>2. CASE AckAddress
    <2>1. /\ mode \in {"address", "readdress"} /\ mode' \in {"read", "write"}
          /\ UNCHANGED <<call, msa_mctr, fifos, ris, bits, wire, received, ended, xfer,
                         stretched>>
      BY <1>2 DEF AckAddress
    <2>2. Requested' /\ Signals' /\ Settled' /\ Delivered'
      BY <2>1 DEF call, fifos, Cause, Ending, Complete
    <2>3. SentInOrder' = SentInOrder /\ ReceivedInOrder' = ReceivedInOrder
      BY <2>1 DEF call, fifos, SentInOrder, ReceivedInOrder
    <2>4. Transfers'
      <3>1. SUFFICES ASSUME Waiting PROVE Transfers'
        BY <2>1 DEF call
      <3>2. ended = "none" /\ SentInOrder
        BY <2>1, <3>1 DEF UnderWay
      <3>3. op.address \in Present
        BY <1>2, <3>1 DEF AckAddress
      <3>4. mode' = "read" => op.read > 0 /\ Len(txfifo) = 0
        <4>1. CASE mode = "readdress"
          BY <3>1, <4>1
        <4>2. CASE mode # "readdress" /\ mode' = "read"
          <5>1. op.read > 0 /\ op.write = 0
            BY <1>2, <3>1, <4>2 DEF AckAddress, TypeInv, CallTypes
          <5>2. Len(wire) \in Nat /\ Len(txfifo) \in Nat
            BY DEF TypeInv, SeqTypes
          <5> QED BY <3>2, <5>1, <5>2 DEF SentInOrder
        <4> QED BY <4>1, <4>2
      <3>5. (mode' = "write" /\ ~ msa_mctr.rdtx) => op.read = 0
        BY <1>2, <3>1 DEF AckAddress, TypeInv, CallTypes
      <3> QED BY <2>1, <2>3, <3>1, <3>2, <3>3, <3>4, <3>5 DEF call, fifos, UnderWay
    <2> QED BY <2>2, <2>4
  <1>3. CASE NackAddress
    <2>1. /\ mode \in UnderWay /\ mode # "pending"
          /\ End("address_nack", BitsOf("address_nack"))
      BY <1>3 DEF NackAddress, UnderWay, BitsOf
    <2>2. ReceivedInOrder = ReceivedInOrder'
      BY <1>3 DEF NackAddress, ReceivedInOrder, call, fifos
    <2> QED BY <1>3, <2>1, <2>2, TransferEndStep DEF NackAddress, fifos
  <1>4. CASE RepeatStart
    BY <1>4 DEF RepeatStart, call, fifos, UnderWay, Cause, Ending, Complete,
                SentInOrder, ReceivedInOrder
  <1>5. ASSUME NEW ack \in BOOLEAN, SendByte(ack) PROVE TransferInv'
    <2>1. mode = "write" /\ mode \in UnderWay /\ txfifo # << >>
      BY <1>5 DEF SendByte, UnderWay
    <2>2. ReceivedInOrder = ReceivedInOrder'
      BY <1>5 DEF SendByte, ReceivedInOrder, call
    <2>3. CASE ack
      <3>1. /\ txfifo' = Tail(txfifo) /\ wire' = Append(wire, Head(txfifo))
            /\ UNCHANGED <<call, msa_mctr, rxfifo, flushing, ris, received, xfer,
                           stretched, mode, ended, bits>>
        BY <1>5, <2>3 DEF SendByte
      <3>2. SentInOrder => SentInOrder'
        <4>1. SUFFICES ASSUME SentInOrder PROVE SentInOrder'
          OBVIOUS
        <4>2. /\ Len(wire') = Len(wire) + 1 /\ Len(txfifo') = Len(txfifo) - 1
              /\ Len(wire) \in Nat /\ Len(txfifo) \in Nat \ {0}
              /\ op' = op /\ xfer' = xfer
          BY <2>1, <3>1, SendFacts DEF call
        <4>3. \A i \in 1 .. Len(wire) : wire'[i] = <<xfer, i>>
          BY <2>1, <3>1, <4>1, SendFacts DEF SentInOrder
        <4>4. wire'[Len(wire) + 1] = <<xfer, Len(wire) + 1>>
          BY <2>1, <3>1, <4>1, <4>2, SendFacts DEF SentInOrder
        <4>5. \A i \in 1 .. Len(txfifo') : txfifo'[i] = <<xfer, Len(wire) + 1 + i>>
          <5>1. ASSUME NEW i \in 1 .. Len(txfifo')
                PROVE  txfifo'[i] = <<xfer, Len(wire) + 1 + i>>
            <6>1. i + 1 \in 1 .. Len(txfifo) /\ txfifo'[i] = txfifo[i + 1]
              BY <2>1, <3>1, <4>2, <5>1, SendFacts
            <6>2. txfifo[i + 1] = <<xfer, Len(wire) + (i + 1)>>
              BY <4>1, <6>1 DEF SentInOrder
            <6>3. Len(wire) + (i + 1) = Len(wire) + 1 + i
              BY <4>2, <5>1
            <6> QED BY <6>1, <6>2, <6>3
          <5> QED BY <5>1
        <4>6. op.write \in Nat /\ Len(wire) + Len(txfifo) = op.write
          BY <4>1 DEF TypeInv, CallTypes, SentInOrder
        <4>7. \A i \in 1 .. Len(wire') : i \in 1 .. Len(wire) \/ i = Len(wire) + 1
          BY <4>2
        <4>8. \A i \in 1 .. Len(wire') : wire'[i] = <<xfer, i>>
          BY <4>3, <4>4, <4>7
        <4> QED BY <4>2, <4>5, <4>6, <4>8 DEF SentInOrder
      <3>3. Transfers'
        BY <2>1, <2>2, <3>1, <3>2 DEF call, UnderWay
      <3>4. ~ (pc = "idle" /\ started /\ result # "TIMEOUT") /\ pc # "fifo"
        BY <2>1 DEF IInv, BusReleased, SeenEnd
      <3>5. Requested' /\ Signals' /\ Settled' /\ Delivered'
        BY <3>1, <3>4 DEF call, Cause, Ending
      <3> QED BY <3>3, <3>5
    <2>4. CASE ~ ack
      <3>1. End("data_nack", BitsOf("data_nack"))
        BY <1>5, <2>4 DEF SendByte, BitsOf
      <3> QED BY <1>5, <2>1, <2>2, <3>1, TransferEndStep DEF SendByte
    <2> QED BY <2>3, <2>4
  <1>6. CASE ReceiveByte
    <2>1. /\ mode = "read" /\ received' = received + 1 /\ received < msa_mctr.length
          /\ rxfifo' = Append(rxfifo, <<xfer, received + 1>>)
          /\ UNCHANGED <<call, msa_mctr, txfifo, flushing, ris, bits, mode, wire, ended,
                         xfer, stretched>>
      BY <1>6 DEF ReceiveByte
    <2>2. pc # "fifo" /\ ~ (pc = "idle" /\ started /\ result # "TIMEOUT")
      BY <2>1 DEF IInv, BusReleased, SeenEnd
    <2>3. Requested' /\ Signals' /\ Settled' /\ Delivered'
      BY <2>1, <2>2 DEF call, Cause, Ending
    <2>4. SentInOrder' = SentInOrder
      BY <2>1 DEF call, SentInOrder
    <2>5. Waiting => ReceivedInOrder'
      <3>1. SUFFICES ASSUME Waiting PROVE ReceivedInOrder'
        OBVIOUS
      <3>2. ReceivedInOrder /\ received < op.read /\ op.read \in Nat /\ received \in Nat
        BY <2>1, <3>1 DEF TypeInv, CallTypes, BusTypes
      <3>3. <<xfer, received + 1>> \in Octet /\ rxfifo \in Seq(Octet)
        <4>1. op.read \in 0 .. MaxTransfer /\ xfer \in 0 .. 1
          BY DEF TypeInv, CallTypes, BusTypes
        <4>2. received + 1 \in 1 .. MaxTransfer
          BY <3>2, <4>1, ControllerAssumption
        <4>3. <<xfer, received + 1>> \in Octet
          BY <4>1, <4>2 DEF Octet
        <4> QED BY <4>3 DEF TypeInv, SeqTypes
      <3>4. /\ Len(rxfifo') = received + 1
            /\ \A i \in 1 .. received : rxfifo'[i] = <<xfer, i>>
            /\ rxfifo'[received + 1] = <<xfer, received + 1>>
        BY <2>1, <3>2, <3>3, AppendProperties DEF ReceivedInOrder
      <3>5. \A i \in 1 .. received + 1 : i \in 1 .. received \/ i = received + 1
        BY <3>2
      <3>6. \A i \in 1 .. Len(rxfifo') : rxfifo'[i] = <<xfer, i>>
        BY <3>4, <3>5
      <3> QED BY <2>1, <3>2, <3>4, <3>6 DEF ReceivedInOrder, call
    <2>6. Transfers'
      BY <2>1, <2>4, <2>5 DEF call, UnderWay
    <2> QED BY <2>3, <2>6
  <1>7. CASE BurstDone
    <2>1. /\ mode' = "stopping" /\ ended' = "done" /\ bits' = bits \cup {}
          /\ mode \in {"read", "write"}
          /\ UNCHANGED <<call, msa_mctr, fifos, ris, wire, received, xfer, stretched>>
      BY <1>7 DEF BurstDone, End
    <2>2. /\ pc # "fifo" /\ ~ (pc = "idle" /\ started /\ result # "TIMEOUT")
          /\ (pc = "flush" => result = "TIMEOUT")
      BY <2>1 DEF IInv, BusReleased, SeenEnd, NotStarted
    <2>3. SentInOrder' = SentInOrder /\ ReceivedInOrder' = ReceivedInOrder
      BY <2>1 DEF call, fifos, SentInOrder, ReceivedInOrder
    <2>4. Waiting => /\ Len(wire) = op.write /\ received = op.read /\ ended = "none"
                     /\ op.address \in Present /\ SentInOrder
      <3>1. SUFFICES ASSUME Waiting
                     PROVE  /\ Len(wire) = op.write /\ received = op.read /\ ended = "none"
                            /\ op.address \in Present /\ SentInOrder
        OBVIOUS
      <3>2. ended = "none" /\ op.address \in Present /\ SentInOrder /\ ReceivedInOrder
        BY <2>1, <3>1 DEF UnderWay
      <3>3. /\ op.read \in Nat /\ op.write \in Nat /\ received \in Nat
            /\ Len(wire) \in Nat /\ Len(txfifo) \in Nat
        BY DEF TypeInv, CallTypes, BusTypes, SeqTypes
      <3>4. CASE mode = "read"
        BY <1>7, <3>1, <3>2, <3>3, <3>4 DEF BurstDone, SentInOrder
      <3>5. CASE mode = "write" /\ ~ msa_mctr.rdtx /\ Len(wire) = msa_mctr.length
        BY <3>1, <3>2, <3>3, <3>5 DEF ReceivedInOrder
      <3> QED BY <1>7, <3>2, <3>4, <3>5 DEF BurstDone
    <2>5. Transfers'
      BY <2>1, <2>3, <2>4 DEF call, fifos, UnderWay
    <2>6. Signals'
      BY <2>1, <2>4 DEF call, BitsOf
    <2>7. Requested' /\ Settled' /\ Delivered'
      BY <2>1, <2>2 DEF call, fifos
    <2> QED BY <2>5, <2>6, <2>7
  <1>8. CASE BusError
    <2>1. mode \in UnderWay /\ mode # "pending"
      BY <1>0, <1>8 DEF BusError, Busy
    <2>2. ReceivedInOrder = ReceivedInOrder'
      BY <1>8 DEF BusError, ReceivedInOrder, call, fifos
    <2>3. End("lost", BitsOf("lost")) \/ End("error", BitsOf("error"))
      BY <1>8 DEF BusError, BitsOf
    <2> QED BY <1>8, <2>1, <2>2, <2>3, TransferEndStep DEF BusError, fifos
  <1>9. CASE TimeoutA
    <2>1. /\ ris' = TRUE /\ UNCHANGED <<call, msa_mctr, fifos, wire, received, xfer>>
          /\ stretched' # "none"
      BY <1>9 DEF TimeoutA
    <2>2. SentInOrder' = SentInOrder /\ ReceivedInOrder' = ReceivedInOrder
      BY <2>1 DEF call, fifos, SentInOrder, ReceivedInOrder
    <2>3. Requested'
      BY <2>1 DEF call, fifos
    <2>4. CASE Busy
      <3>1. /\ pc # "fifo" /\ ~ (pc = "idle" /\ started /\ result # "TIMEOUT")
            /\ (pc = "flush" => result = "TIMEOUT") /\ pc # "launch"
        BY <2>4 DEF IInv, BusReleased, SeenEnd, NotStarted, Busy
      <3>2. Settled' /\ Delivered'
        BY <2>1, <3>1 DEF call, fifos
      <3>3. /\ stretched' = "transfer"
            /\ \/ /\ mode \in UnderWay /\ mode # "pending" /\ mode' = "stopping"
                  /\ ended' = "stretched" /\ bits' = bits \cup {}
               \/ UNCHANGED <<mode, ended, bits>>
        BY <1>0, <1>9, <2>4 DEF TimeoutA, End, Busy
      <3>4. Transfers'
        BY <2>1, <2>2, <3>3 DEF call, fifos, UnderWay
      <3>5. Signals'
        BY <2>1, <3>1, <3>3 DEF call, BitsOf, UnderWay
      <3> QED BY <2>3, <3>2, <3>4, <3>5
    <2>5. CASE ~ Busy
      <3>1. /\ stretched' = (IF stretched = "none" THEN "idle" ELSE stretched)
            /\ UNCHANGED <<mode, ended, bits>>
        BY <1>9, <2>5 DEF TimeoutA
      <3>2. Transfers'
        BY <2>1, <2>2, <3>1 DEF call, fifos
      <3>3. Signals'
        BY <2>1, <3>1 DEF call
      <3>4. Settled'
        BY <2>1, <3>1 DEF call, Cause, Ending
      <3>5. Delivered'
        BY <2>1, <3>1 DEF call, fifos, Complete
      <3> QED BY <2>3, <3>2, <3>3, <3>4, <3>5
    <2> QED BY <2>4, <2>5
  <1>10. CASE Finish
    <2>1. SentInOrder' = SentInOrder /\ ReceivedInOrder' = ReceivedInOrder
      BY <1>10 DEF Finish, call, fifos, SentInOrder, ReceivedInOrder
    <2> QED
      BY <1>10, <2>1 DEF Finish, call, fifos, UnderWay, Cause, Ending, Complete
  <1>11. CASE FifoFlush
    BY <1>11 DEF FifoFlush, call, bus, Cause, Ending, Complete
  <1> QED BY <1>1, <1>2, <1>3, <1>4, <1>5, <1>6, <1>7, <1>8, <1>9, <1>10, <1>11
          DEF Peripheral

LEMMA TransferStep ==
  ASSUME IInv, TypeInv, TransferInv, [Next]_vars
  PROVE  TransferInv'
  <1>1. CASE UNCHANGED vars
    BY <1>1 DEF vars, call, fifos, bus, TransferInv, Requested, Transfers, Signals,
                Settled, Delivered, Waiting, Waited, SentInOrder, ReceivedInOrder,
                Cause, Ending, Complete
  <1> QED BY <1>1, TransferCallStep, TransferDriverStep, TransferPeripheralStep
          DEF Next

ControllerInv == IInv /\ TypeInv /\ TransferInv

LEMMA ControllerInvInit == Init => ControllerInv
  BY IInvInit, TypeInit, TransferInit DEF ControllerInv

LEMMA ControllerInvStep ==
  ASSUME ControllerInv, [Next]_vars
  PROVE  ControllerInv'
  BY IInvStep, TypeStep, TransferStep DEF ControllerInv

(* For every FIFO depth, poll limit and set of targets: OK is returned     *)
(* only for a transfer whose bytes were all acknowledged, in order, and    *)
(* what the caller gets are exactly the bytes of this transfer.            *)
THEOREM OkIsDone == Spec => []OkMeansDone
  <1>1. ControllerInv => OkMeansDone
    BY TypesOfInv DEF ControllerInv, TransferInv, Delivered, Complete, OkMeansDone
  <1> QED BY <1>1, ControllerInvInit, ControllerInvStep, PTL DEF Spec

(* The result of a call that saw its transfer end names how it ended.      *)
THEOREM CauseIsNamed == Spec => []ResultNamesCause
  <1>1. ControllerInv => ResultNamesCause
    BY DEF ControllerInv, TransferInv, Settled, Cause, Ending, ResultNamesCause
  <1> QED BY <1>1, ControllerInvInit, ControllerInvStep, PTL DEF Spec
-----------------------------------------------------------------------------
(* The port expander demo runs the driver: its calls and steps are those   *)
(* of I2cController.                                                       *)
LEMMA SameDriver == Probe!Controller!Driver => Driver
  <1> SUFFICES ASSUME Probe!Controller!Driver PROVE Driver
    OBVIOUS
  <1> USE DEF Driver, fifos, bus, Msr, Busy, ClearEvents, BeginFlush, LastPoll,
              Probe!Controller!fifos, Probe!Controller!bus, Probe!Controller!Msr,
              Probe!Controller!Busy, Probe!Controller!ClearEvents,
              Probe!Controller!BeginFlush, Probe!Controller!LastPoll
  <1>1. ASSUME NEW scl \in BOOLEAN, NEW sda \in BOOLEAN,
               Probe!Controller!LineState(scl, sda)
        PROVE  Driver
    BY <1>1 DEF LineState, Probe!Controller!LineState
  <1>2. CASE Probe!Controller!Prepare
    BY <1>2 DEF Prepare, Mctr0, Probe!Controller!Prepare, Probe!Controller!Mctr0
  <1>3. CASE Probe!Controller!FlushPoll
    BY <1>3 DEF FlushPoll, Drained, Probe!Controller!FlushPoll,
                Probe!Controller!Drained
  <1>4. CASE Probe!Controller!Launch
    BY <1>4 DEF Launch, Preload, Bytes, Start, Probe!Controller!Launch,
                Probe!Controller!Preload, Probe!Controller!Bytes,
                Probe!Controller!Start
  <1>5. CASE Probe!Controller!ErrataDelay
    BY <1>5 DEF ErrataDelay, Probe!Controller!ErrataDelay
  <1>6. CASE Probe!Controller!PollStatus
    BY <1>6 DEF PollStatus, Probe!Controller!PollStatus
  <1>7. CASE Probe!Controller!PollEvents
    BY <1>7 DEF PollEvents, Seen, StatusResult, Probe!Controller!PollEvents,
                Probe!Controller!Seen, Probe!Controller!StatusResult
  <1>8. CASE Probe!Controller!GiveUp
    BY <1>8 DEF GiveUp, Probe!Controller!GiveUp
  <1>9. CASE Probe!Controller!ReadFifo
    BY <1>9 DEF ReadFifo, Probe!Controller!ReadFifo
  <1> QED BY <1>1, <1>2, <1>3, <1>4, <1>5, <1>6, <1>7, <1>8, <1>9
          DEF Probe!Controller!Driver

LEMMA SamePeripheral == Probe!Controller!Peripheral => Peripheral
  BY DEF Peripheral, PickUp, AckAddress, NackAddress, RepeatStart, SendByte,
         ReceiveByte, BurstDone, BusError, TimeoutA, Finish, FifoFlush, End, Busy,
         call, fifos, bus, Probe!Controller!Peripheral, Probe!Controller!PickUp,
         Probe!Controller!AckAddress, Probe!Controller!NackAddress,
         Probe!Controller!RepeatStart, Probe!Controller!SendByte,
         Probe!Controller!ReceiveByte, Probe!Controller!BurstDone,
         Probe!Controller!BusError, Probe!Controller!TimeoutA,
         Probe!Controller!Finish, Probe!Controller!FifoFlush, Probe!Controller!End,
         Probe!Controller!Busy, Probe!Controller!call, Probe!Controller!fifos,
         Probe!Controller!bus

LEMMA SameCalls ==
  /\ \A a, w, r : Probe!Controller!Call(a, w, r) => Call(a, w, r)
  /\ \A valid : Probe!Controller!ControllerInit(valid) => ControllerInit(valid)
  BY DEF Call, Valid, ControllerInit, Mctr0, fifos, bus, Probe!Controller!Call,
         Probe!Controller!Valid, Probe!Controller!ControllerInit,
         Probe!Controller!Mctr0, Probe!Controller!fifos, Probe!Controller!bus

LEMMA SameStates ==
  /\ Probe!Controller!TypeOK <=> TypeOK
  /\ Probe!Controller!Init <=> Init
  /\ Probe!Controller!Result = Result
  BY DEF TypeOK, Result, Bits, Init, Mctr0, Probe!Controller!TypeOK,
         Probe!Controller!Result, Probe!Controller!Bits, Probe!Controller!Init,
         Probe!Controller!Mctr0

(* Where main of the demo is, what it knows, and what it has called.       *)
ProbeTypes ==
  /\ claimed \in BOOLEAN /\ watchdog_running \in BOOLEAN
  /\ main_pc \in {"board", "i2c1", "watchdog", "scan", "tried", "read",
                  "was_read", "combine", "combined", "blink", "fail"}
  /\ trying \in Probe!Scanned
  /\ stage \in {"INIT", "SCAN", "SEPARATE_READ", "COMBINED_READ", "COMPLETE"}
  /\ address \in Probe!Scanned \cup {0}
  /\ port_value \in Seq(Octet)
  /\ probe_result \in Result
  /\ absent \subseteq Probe!Scanned

Found == {"read", "was_read", "combine", "combined", "blink"}

InCall ==
  /\ pc # "idle" => main_pc \in {"tried", "was_read", "combined"}
  /\ main_pc = "tried" => op.address = trying
  /\ main_pc = "combined" => op = [address |-> address, write |-> 1, read |-> 1]

(* Every address before the one it is at has been refused. *)
Progress ==
  /\ trying \in FirstA .. LastA => FirstA .. trying - 1 \subseteq absent
  /\ trying \in FirstB .. LastB =>
       (FirstA .. LastA) \cup (FirstB .. trying - 1) \subseteq absent
  /\ address \in {0, trying}
  /\ main_pc \in Found => address = trying /\ stage # "SCAN"
  /\ main_pc \notin Found \cup {"fail"} => address = 0
  /\ (stage = "SCAN" /\ main_pc = "fail" /\ probe_result = "ADDRESS_NACK") =>
       absent = Probe!Scanned

(* Success once announced stays true: nothing happens on the bus anymore.  *)
Announced ==
  stage = "COMPLETE" =>
    main_pc = "blink" /\ pc = "idle" /\ mode = "idle" /\ Probe!CompleteIsGenuine

ProbeInv == ProbeTypes /\ InCall /\ Progress /\ Announced

MCInv ==
  /\ caller \in {"any", "probe"}
  /\ ControllerInv
  /\ caller = "probe" => ProbeInv

LEMMA Ranges ==
  /\ FirstA \in Nat /\ LastA \in Nat /\ FirstB \in Nat /\ LastB \in Nat
  /\ FirstA <= LastA /\ FirstB <= LastB
  /\ Probe!Scanned = (FirstA .. LastA) \cup (FirstB .. LastB)
  /\ Probe!Scanned \subseteq Address /\ 0 \notin Probe!Scanned
  /\ (FirstA .. LastA) \cap (FirstB .. LastB) = {}
  BY ProbeAssumption DEF Probe!RangesFit, Probe!Scanned

LEMMA MCInvInit == MCInit => MCInv
  <1> SUFFICES ASSUME MCInit PROVE MCInv
    OBVIOUS
  <1>1. ControllerInv
    BY ControllerInvInit, SameStates DEF MCInit, Probe!Init
  <1>2. ProbeTypes
    <2>1. trying = FirstA /\ FirstA \in Probe!Scanned
      BY Ranges DEF MCInit, Probe!Init
    <2>2. /\ claimed = FALSE /\ watchdog_running = FALSE /\ main_pc = "board"
          /\ stage = "INIT" /\ address = 0 /\ port_value = << >>
          /\ probe_result = "NOT_INITIALIZED" /\ absent = {}
      BY DEF MCInit, Probe!Init
    <2>3. << >> \in Seq(Octet)
      OBVIOUS
    <2>4. port_value \in Seq(Octet) /\ probe_result \in Result
      BY <2>2, <2>3 DEF Result
    <2> QED BY <2>1, <2>2, <2>4 DEF ProbeTypes
  <1>3. pc = "idle" /\ main_pc = "board" /\ trying = FirstA /\ stage = "INIT"
        /\ address = 0 /\ absent = {}
    BY SameStates DEF MCInit, Probe!Init, Init
  <1>4. InCall /\ Announced
    BY <1>3 DEF InCall, Announced
  <1>5. Progress
    BY <1>3, Ranges DEF Progress, Found
  <1> QED BY <1>1, <1>2, <1>4, <1>5 DEF MCInit, MCInv, ProbeInv

(* What the demo's own steps do to the controller. *)
LEMMA DriverSteps ==
  ASSUME Driver
  PROVE  pc # "idle" /\ op' = op
  BY DEF Driver, LineState, Prepare, FlushPoll, Launch, ErrataDelay, PollStatus,
         PollEvents, GiveUp, ReadFifo

LEMMA PeripheralSteps ==
  ASSUME Peripheral
  PROVE  /\ UNCHANGED call
         /\ mode = "idle" => mode' = mode /\ wire' = wire /\ xfer' = xfer
  BY DEF Peripheral, PickUp, AckAddress, NackAddress, RepeatStart, SendByte, ReceiveByte,
         BurstDone, BusError, TimeoutA, Finish, FifoFlush, Busy, call, bus

(* Outside of calls of the driver, only its result and data are read. *)
Quiet == UNCHANGED Probe!controller

LEMMA QuietFacts ==
  ASSUME Quiet
  PROVE  UNCHANGED vars /\ UNCHANGED <<pc, op, mode, wire, xfer, result, data>>
  BY DEF Quiet, Probe!controller, vars, call, fifos, bus

LEMMA CallDriverStep ==
  ASSUME MCInv, ProbeInv, NEW from, NEW to, NEW a \in Address, NEW w, NEW r,
         Probe!CallDriver(from, to, a, w, r),
         from \in {"scan", "read", "combine"}, to \in {"tried", "was_read", "combined"},
         to = "tried" <=> from = "scan", to = "tried" => a = trying,
         to # "tried" => a = address,
         to = "combined" => w = 1 /\ r = 1
  PROVE  Next /\ ProbeInv'
  <1>1. /\ main_pc = from /\ Call(a, w, r) /\ main_pc' = to
        /\ UNCHANGED <<trying, claimed, stage, address, port_value, probe_result,
                      watchdog_running, absent>>
    BY SameCalls DEF Probe!CallDriver, Probe!globals
  <1>2. /\ w \in 0 .. MaxTransfer /\ r \in 0 .. MaxTransfer
        /\ op' = [address |-> a, write |-> w, read |-> r]
    BY <1>1 DEF Call, Valid
  <1>3. Next
    BY <1>1, <1>2 DEF Next
  <1>4. ProbeTypes'
    BY <1>1 DEF ProbeInv, ProbeTypes
  <1>5. InCall'
    BY <1>1, <1>2 DEF ProbeInv, InCall
  <1>6. Progress'
    BY <1>1 DEF ProbeInv, Progress, Found
  <1>7. stage # "COMPLETE"
    BY <1>1 DEF ProbeInv, Announced
  <1>8. Announced'
    BY <1>1, <1>7 DEF Announced
  <1> QED BY <1>3, <1>4, <1>5, <1>6, <1>8 DEF ProbeInv

(* The steps that read the result of a call. *)
LEMMA TriedStep ==
  ASSUME MCInv, ProbeInv, Probe!Tried
  PROVE  Quiet /\ ProbeInv'
  <1>1. /\ main_pc = "tried" /\ pc = "idle" /\ Quiet
        /\ UNCHANGED <<claimed, port_value, watchdog_running>>
    BY DEF Probe!Tried, Probe!Returned, Quiet
  <1>2. pc' = "idle"
    BY <1>1, QuietFacts
  <1>3. result \in Result /\ stage # "COMPLETE"
    BY <1>1 DEF MCInv, ControllerInv, TypeInv, CallTypes, ProbeInv, Announced
  <1>4. CASE result = "OK"
    <2>1. /\ address' = trying /\ main_pc' = "read" /\ stage' = "SEPARATE_READ"
          /\ UNCHANGED <<trying, probe_result, absent>>
      BY <1>4 DEF Probe!Tried
    <2>2. ProbeTypes' /\ InCall' /\ Announced'
      BY <1>1, <1>2, <2>1 DEF ProbeInv, ProbeTypes, InCall, Announced
    <2>3. Progress'
      BY <2>1 DEF ProbeInv, Progress, Found
    <2> QED BY <1>1, <2>2, <2>3 DEF ProbeInv
  <1>5. CASE result = "ADDRESS_NACK"
    <2>1. /\ Probe!NextAddress /\ absent' = absent \cup {trying}
          /\ UNCHANGED <<address, stage>>
      BY <1>5 DEF Probe!Tried
    <2>2. /\ \A a \in FirstA .. LastA : a \in Probe!Scanned
          /\ \A a \in FirstB .. LastB : a \in Probe!Scanned /\ a \notin FirstA .. LastA
          /\ trying \in Nat /\ absent \subseteq Probe!Scanned
          /\ trying \in FirstA .. LastA \/ trying \in FirstB .. LastB
      BY Ranges DEF ProbeInv, ProbeTypes
    <2>3. \/ /\ trying \in FirstA .. LastA /\ trying # LastA
             /\ trying' = trying + 1 /\ main_pc' = "scan" /\ probe_result' = probe_result
          \/ /\ trying = LastA
             /\ trying' = FirstB /\ main_pc' = "scan" /\ probe_result' = probe_result
          \/ /\ trying \in FirstB .. LastB /\ trying # LastB
             /\ trying' = trying + 1 /\ main_pc' = "scan" /\ probe_result' = probe_result
          \/ /\ trying = LastB /\ main_pc' = "fail" /\ probe_result' = "ADDRESS_NACK"
             /\ trying' = trying
      BY <2>1, <2>2 DEF Probe!NextAddress, Probe!Fail
    <2>4. trying' \in Probe!Scanned /\ absent' \subseteq Probe!Scanned
      BY <2>1, <2>2, <2>3, Ranges
    <2>5. main_pc' \in {"scan", "fail"} /\ probe_result' \in {probe_result, "ADDRESS_NACK"}
      BY <2>3
    <2>6. ProbeTypes'
      BY <1>1, <2>1, <2>4, <2>5 DEF ProbeInv, ProbeTypes, Result
    <2>7. InCall' /\ Announced'
      BY <1>2, <1>3, <2>1, <2>5 DEF InCall, Announced
    <2>8. /\ trying \in FirstA .. LastA => FirstA .. trying - 1 \subseteq absent
          /\ trying \in FirstB .. LastB =>
               (FirstA .. LastA) \cup (FirstB .. trying - 1) \subseteq absent
          /\ address \in {0, trying}
      BY DEF ProbeInv, Progress
    <2>9. address = 0 /\ address' = 0 /\ main_pc' \notin Found
      BY <1>1, <2>1, <2>5 DEF ProbeInv, Progress, Found
    <2>10. trying' \in FirstA .. LastA => FirstA .. trying' - 1 \subseteq absent'
      <3> SUFFICES ASSUME trying' \in FirstA .. LastA, NEW b \in FirstA .. trying' - 1
                   PROVE  b \in absent'
        OBVIOUS
      <3>1. /\ trying \in FirstA .. LastA /\ trying # LastA /\ trying' = trying + 1
        BY <2>2, <2>3, Ranges
      <3>2. b \in FirstA .. trying - 1 \/ b = trying
        BY <2>2, <3>1, Ranges
      <3> QED BY <2>1, <2>8, <3>1, <3>2
    <2>11. trying' \in FirstB .. LastB => FirstA .. LastA \subseteq absent'
      <3> SUFFICES ASSUME trying' \in FirstB .. LastB, NEW b \in FirstA .. LastA
                   PROVE  b \in absent'
        OBVIOUS
      <3>1. CASE trying = LastA
        <4>1. b \in FirstA .. trying - 1 \/ b = trying
          BY <3>1, Ranges
        <4>2. trying \in FirstA .. LastA
          BY <3>1, Ranges
        <4> QED BY <2>1, <2>8, <4>1, <4>2
      <3>2. CASE trying # LastA
        <4>1. trying \in FirstB .. LastB
          BY <2>2, <2>3, <3>2, Ranges
        <4> QED BY <2>1, <2>8, <4>1
      <3> QED BY <3>1, <3>2
    <2>12. trying' \in FirstB .. LastB => FirstB .. trying' - 1 \subseteq absent'
      <3>1. PICK next : next = trying'
        OBVIOUS
      <3>2. SUFFICES ASSUME next \in FirstB .. LastB, NEW b \in FirstB .. next - 1
                     PROVE  b \in absent'
        BY <3>1
      <3>3. /\ FirstB \in Nat /\ LastB \in Nat /\ trying \in Nat
            /\ next \in Nat /\ b \in Nat /\ FirstB <= b /\ b < next /\ next <= LastB
        BY <2>2, <3>2, Ranges
      <3>4. next # FirstB
        BY <3>3
      <3>5. trying \in FirstB .. LastB /\ (next = trying + 1 \/ next = trying)
        <4>1. \A a \in FirstA .. LastA :
                a + 1 \in FirstB .. LastB => a = LastA \/ a + 1 \in FirstA .. LastA
          BY Ranges
        <4> QED BY <2>2, <2>3, <3>1, <3>2, <3>3, <3>4, <4>1, Ranges
      <3>6. b \in FirstB .. trying - 1 \/ b = trying
        BY <3>3, <3>5
      <3> QED BY <2>1, <2>8, <3>5, <3>6
    <2>13. main_pc' = "fail" => absent' = Probe!Scanned
      <3> SUFFICES ASSUME main_pc' = "fail" PROVE absent' = Probe!Scanned
        OBVIOUS
      <3>1. trying = LastB /\ trying' = trying /\ trying \in FirstB .. LastB
        BY <2>3, Ranges
      <3>2. (FirstA .. LastA) \cup (FirstB .. LastB) \subseteq absent'
        <4>1. \A b \in FirstB .. LastB : b \in FirstB .. LastB - 1 \/ b = LastB
          BY Ranges
        <4> QED BY <2>1, <2>8, <3>1, <4>1
      <3> QED BY <2>4, <3>2, Ranges
    <2>14. Progress'
      BY <2>9, <2>10, <2>11, <2>12, <2>13 DEF Progress
    <2> QED BY <1>1, <2>6, <2>7, <2>14 DEF ProbeInv
  <1>6. CASE result \notin {"OK", "ADDRESS_NACK"}
    <2>1. /\ main_pc' = "fail" /\ probe_result' = result
          /\ UNCHANGED <<trying, address, stage, absent>>
      BY <1>6 DEF Probe!Tried, Probe!Fail
    <2>2. ProbeTypes' /\ InCall' /\ Announced'
      BY <1>1, <1>2, <1>3, <2>1 DEF ProbeInv, ProbeTypes, InCall, Announced
    <2>3. Progress'
      BY <1>6, <2>1 DEF ProbeInv, Progress, Found
    <2> QED BY <1>1, <2>2, <2>3 DEF ProbeInv
  <1> QED BY <1>4, <1>5, <1>6

LEMMA ReadReturnedStep ==
  ASSUME MCInv, ProbeInv, NEW at, NEW next, NEW s, Probe!ReadReturned(at, next, s),
         \/ at = "was_read" /\ next = "combine" /\ s = "COMBINED_READ"
         \/ at = "combined" /\ next = "blink" /\ s = "COMPLETE"
  PROVE  Quiet /\ ProbeInv'
  <1>1. /\ main_pc = at /\ pc = "idle" /\ Quiet /\ probe_result' = result
        /\ IF result = "OK"
           THEN main_pc' = next /\ stage' = s /\ port_value' = data
           ELSE main_pc' = "fail" /\ UNCHANGED <<stage, port_value>>
        /\ UNCHANGED <<trying, claimed, address, watchdog_running, absent>>
    BY DEF Probe!ReadReturned, Probe!Returned, Quiet
  <1>2. UNCHANGED <<pc, op, mode, wire, xfer>>
    BY <1>1, QuietFacts
  <1>3. /\ result \in Result /\ data \in Seq(Octet)
    BY DEF MCInv, ControllerInv, TypeInv, CallTypes, SeqTypes
  <1>4. ProbeTypes'
    BY <1>1, <1>3 DEF ProbeInv, ProbeTypes
  <1>5. InCall'
    BY <1>1, <1>2 DEF InCall
  <1>6. Progress'
    <2>1. main_pc \in Found /\ address = trying /\ stage # "SCAN"
      BY <1>1 DEF ProbeInv, Progress, Found
    <2> QED BY <1>1, <2>1 DEF ProbeInv, Progress, Found
  <1>7. CASE result = "OK" /\ at = "combined"
    <2>1. op.write = 1 /\ op.read = 1 /\ op.address = address
      BY <1>1, <1>7 DEF ProbeInv, InCall
    <2>2. /\ started /\ Complete /\ data = Bytes(xfer, op.read)
      BY <1>1, <1>7 DEF MCInv, ControllerInv, TransferInv, Delivered
    <2>3. mode = "idle"
      BY <1>1, <1>7, <2>2 DEF MCInv, ControllerInv, IInv, BusReleased, Waited
    <2>4. Bytes(xfer, 1) = <<<<xfer, 1>>>>
      BY DEF Bytes
    <2>5. Probe!CompleteIsGenuine'
      BY <1>1, <1>2, <1>7, <2>1, <2>2, <2>4 DEF Probe!CompleteIsGenuine, Complete
    <2>6. Announced'
      BY <1>1, <1>2, <1>7, <2>3, <2>5 DEF Announced
    <2> QED BY <1>1, <1>4, <1>5, <1>6, <2>6 DEF ProbeInv
  <1>8. CASE ~ (result = "OK" /\ at = "combined")
    <2>1. Announced'
      BY <1>1, <1>8 DEF ProbeInv, Announced
    <2> QED BY <1>1, <1>4, <1>5, <1>6, <2>1 DEF ProbeInv
  <1> QED BY <1>7, <1>8

(* Bring-up, before anything is called. *)
LEMMA BringupSteps ==
  ASSUME MCInv, ProbeInv,
         \/ \E r \in {"OK", "CLOCK_FALLBACK", "GPIO_FAILURE", "UART_FAILURE"},
               ok \in BOOLEAN : Probe!BoardInit(r, ok)
         \/ \E valid \in BOOLEAN : Probe!I2c1ControllerInit(valid)
         \/ \E ok \in BOOLEAN : Probe!WatchdogInit(ok)
  PROVE  (Next \/ Quiet) /\ ProbeInv'
  <1>1. /\ main_pc \in {"board", "i2c1", "watchdog"}
        /\ main_pc' \in {"i2c1", "watchdog", "scan", "fail"}
        /\ probe_result' \in {probe_result, "NOT_INITIALIZED"}
        /\ main_pc' = "fail" => probe_result' = "NOT_INITIALIZED"
        /\ claimed' \in {claimed, TRUE, FALSE}
        /\ watchdog_running' \in {watchdog_running, TRUE, FALSE}
        /\ stage' \in {stage, "SCAN"}
        /\ UNCHANGED <<trying, address, port_value, absent>>
    BY DEF Probe!BoardInit, Probe!I2c1ControllerInit, Probe!WatchdogInit, Probe!Fail
  <1>2. pc = "idle" /\ stage # "COMPLETE" /\ address = 0
    BY <1>1 DEF ProbeInv, InCall, Announced, Progress, Found
  <1>3. Quiet \/ \E valid \in BOOLEAN : ControllerInit(valid)
    BY SameCalls DEF Probe!BoardInit, Probe!I2c1ControllerInit, Probe!WatchdogInit, Quiet
  <1>4. Next \/ Quiet
    BY <1>3 DEF Next
  <1>5. pc' = "idle"
    BY <1>2, <1>3, QuietFacts DEF ControllerInit
  <1>6. ProbeTypes'
    <2>1. claimed' \in BOOLEAN /\ watchdog_running' \in BOOLEAN
      BY <1>1 DEF ProbeInv, ProbeTypes
    <2>2. probe_result' \in Result
      BY <1>1 DEF ProbeInv, ProbeTypes, Result
    <2> QED BY <1>1, <2>1, <2>2 DEF ProbeInv, ProbeTypes
  <1>7. InCall' /\ Announced'
    BY <1>1, <1>2, <1>5 DEF InCall, Announced
  <1>8. Progress'
    BY <1>1, <1>2 DEF ProbeInv, Progress, Found
  <1> QED BY <1>4, <1>6, <1>7, <1>8 DEF ProbeInv

(* The driver and the bus at work under the demo. *)
LEMMA UnderneathSteps ==
  ASSUME ProbeInv, Driver \/ Peripheral, UNCHANGED <<main_pc, trying>>,
         UNCHANGED Probe!globals
  PROVE  Next /\ ProbeInv'
  <1>1. UNCHANGED <<main_pc, trying, claimed, stage, address, port_value, probe_result,
                    watchdog_running, absent>>
    BY DEF Probe!globals
  <1>2. op' = op /\ (pc = "idle" => pc' = pc)
    BY DriverSteps, PeripheralSteps DEF call
  <1>3. ProbeTypes' /\ Progress'
    BY <1>1 DEF ProbeInv, ProbeTypes, Progress
  <1>4. InCall'
    BY <1>1, <1>2 DEF ProbeInv, InCall
  <1>5. Announced'
    <2> SUFFICES ASSUME stage = "COMPLETE" PROVE Announced'
      BY <1>1 DEF Announced
    <2>1. main_pc = "blink" /\ pc = "idle" /\ mode = "idle" /\ Probe!CompleteIsGenuine
      BY DEF ProbeInv, Announced
    <2>2. mode' = mode /\ wire' = wire /\ xfer' = xfer /\ pc' = pc
      BY <1>2, <2>1, DriverSteps, PeripheralSteps
    <2> QED BY <1>1, <2>1, <2>2 DEF Announced, Probe!CompleteIsGenuine
  <1> QED BY <1>3, <1>4, <1>5 DEF ProbeInv, Next

LEMMA ProbeStep ==
  ASSUME MCInv, ProbeInv, Probe!Main \/ Probe!Bus
  PROVE  (Next \/ Quiet) /\ ProbeInv'
  <1>1. trying \in Address /\ (main_pc \in {"read", "combine"} => address \in Address)
    BY Ranges DEF ProbeInv, ProbeTypes, Progress, Found
  <1>2. CASE Probe!TryAddress
    BY <1>1, <1>2, CallDriverStep DEF Probe!TryAddress
  <1>3. CASE Probe!SeparateRead
    <2>1. address \in Address
      BY <1>1, <1>3 DEF Probe!SeparateRead, Probe!CallDriver
    <2> QED BY <1>3, <2>1, CallDriverStep DEF Probe!SeparateRead
  <1>4. CASE Probe!CombinedRead
    <2>1. address \in Address
      BY <1>1, <1>4 DEF Probe!CombinedRead, Probe!CallDriver
    <2> QED BY <1>4, <2>1, CallDriverStep DEF Probe!CombinedRead
  <1>5. CASE Probe!Tried
    BY <1>5, TriedStep
  <1>6. CASE \/ Probe!ReadReturned("was_read", "combine", "COMBINED_READ")
             \/ Probe!ReadReturned("combined", "blink", "COMPLETE")
    BY <1>6, ReadReturnedStep
  <1>7. CASE \/ Probe!Controller!Driver /\ UNCHANGED <<main_pc, trying, Probe!globals>>
             \/ Probe!Bus
    BY <1>7, SameDriver, SamePeripheral, UnderneathSteps DEF Probe!Bus
  <1> QED BY <1>2, <1>3, <1>4, <1>5, <1>6, <1>7, BringupSteps DEF Probe!Main

LEMMA MCInvStep ==
  ASSUME MCInv, [MCNext]_all_vars
  PROVE  MCInv'
  <1>1. CASE Any /\ Next
    <2>1. caller = "any" /\ caller' = caller
      BY <1>1 DEF Any
    <2>2. ControllerInv'
      BY <1>1, ControllerInvStep DEF MCInv
    <2> QED BY <2>1, <2>2 DEF MCInv
  <1>2. CASE caller = "probe" /\ caller' = caller /\ (Probe!Main \/ Probe!Bus)
    <2>1. (Next \/ Quiet) /\ ProbeInv'
      BY <1>2, ProbeStep DEF MCInv
    <2>2. [Next]_vars
      BY <2>1, QuietFacts
    <2>3. ControllerInv'
      BY <2>2, ControllerInvStep DEF MCInv
    <2> QED BY <1>2, <2>1, <2>3 DEF MCInv
  <1>3. CASE UNCHANGED all_vars
    <2>1. UNCHANGED vars /\ UNCHANGED probe_vars /\ caller' = caller
      BY <1>3 DEF all_vars
    <2>2. ControllerInv'
      BY <2>1, ControllerInvStep DEF MCInv
    <2>3. ProbeInv => ProbeInv'
      BY <2>1 DEF probe_vars, vars, call, bus, ProbeInv, ProbeTypes, InCall, Progress,
                  Announced, Probe!CompleteIsGenuine
    <2> QED BY <2>1, <2>2, <2>3 DEF MCInv
  <1> QED BY <1>1, <1>2, <1>3 DEF MCNext, ProbeMain

(* What the port expander demo announces is true: success only with the    *)
(* byte of a genuine combined read from a target that is there, and no     *)
(* target only after every address of both ranges refused it.              *)
THEOREM ProbeReportIsTrue == MCSpec => []ReportIsTrue
  <1>1. MCInv => ReportIsTrue
    <2> SUFFICES ASSUME MCInv, caller = "probe" PROVE Probe!ReportIsTrue
      BY DEF ReportIsTrue
    <2>1. ProbeInv
      BY DEF MCInv
    <2>2. Probe!TypeOK
      BY <2>1, TypesOfInv, SameStates
         DEF Probe!TypeOK, MCInv, ControllerInv, ProbeInv, ProbeTypes, Octet
    <2>3. Probe!CompleteIsGenuine
      BY <2>1 DEF ProbeInv, Announced, Probe!CompleteIsGenuine
    <2>4. Probe!ScanIsComplete
      <3>1. 0 \notin FirstA .. LastA /\ 0 \notin FirstB .. LastB
        BY Ranges
      <3> QED BY <2>1, <3>1 DEF ProbeInv, Progress, Probe!ScanIsComplete
    <2> QED BY <2>2, <2>3, <2>4 DEF Probe!ReportIsTrue
  <1> QED BY <1>1, MCInvInit, MCInvStep, PTL DEF MCSpec
=============================================================================
