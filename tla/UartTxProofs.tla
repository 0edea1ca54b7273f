---------------------------- MODULE UartTxProofs ----------------------------
(***************************************************************************)
(* Proofs about UartTx: for any ring, FIFO and length of a write, the FIFO *)
(* is not overrun, no byte is left without a wakeup, and the line carries  *)
(* the accepted bytes in order.  What the ring does by itself is taken     *)
(* from RingBufProofs.                                                     *)
(***************************************************************************)
EXTENDS UartTx, SequenceTheorems, TLAPS

R == INSTANCE RingBufProofs

(* What the handler is about to write to TXDATA is a byte of the ring. *)
HandByte == isr_pc = "put" => pop_result \in Byte

(* The FIFO has had room since the handler tested it: only the handler     *)
(* fills it.                                                               *)
RoomSeen == isr_pc \in {"pop", "put"} => Len(txfifo) < FifoDepth

(* TXINT is unmasked, and is raised or has a level to fall through. *)
Awake == imask /\ (nvic \/ ris \/ Len(txfifo) > FifoLevel)

(* A byte in the ring is covered by the handler that runs, the kick its    *)
(* writer has not given yet, or a wakeup to come.  A latched request       *)
(* is still raised: only the handler clears TXINT, and the request first.  *)
Covered ==
  /\ isr_pc = "off" => Ring!Used = 0 \/ (main_pc = "push" /\ accepted) \/ Awake
  /\ isr_pc \in {"test", "pop", "put"} => imask
  /\ isr_pc = "disable" => Ring!Used = 0
  /\ nvic => ris

IInv == R!IInv /\ TypeOK /\ HandByte /\ RoomSeen /\ Covered
-----------------------------------------------------------------------------
(* UartTx names the ring's definitions through an instance of RingBuf,     *)
(* the lemmas through one of RingBufProofs.                                *)
LEMMA SameTypes == R!TypeOK <=> Ring!TypeOK
  BY DEF R!TypeOK, Ring!TypeOK, R!Indices, Ring!Indices, R!Slots, Ring!Slots

LEMMA SameUsed == R!Used = Ring!Used /\ (R!IsEmpty <=> Ring!IsEmpty)
  BY DEF R!Used, Ring!Used, R!Distance, Ring!Distance, R!IsEmpty, Ring!IsEmpty

LEMMA SamePushes ==
  /\ Ring!PushRejected => R!PushRejected
  /\ \A b \in Byte : Ring!PushTest(b) => R!PushTest(b)
  /\ Ring!PushStore => R!PushStore
  /\ Ring!PushPublish => R!PushPublish
  BY SameUsed
  DEF R!PushRejected, Ring!PushRejected, R!PushTest, Ring!PushTest, R!PushStore,
      Ring!PushStore, R!PushPublish, Ring!PushPublish, R!IsFull, Ring!IsFull,
      R!Increment, Ring!Increment, R!Slot, Ring!Slot, R!consumerVars,
      Ring!consumerVars

LEMMA SamePops ==
  /\ Ring!PopEmpty => R!PopEmpty
  /\ Ring!PopTest => R!PopTest
  /\ Ring!PopCopy => R!PopCopy
  /\ Ring!PopAdvance => R!PopAdvance
  BY SameUsed
  DEF R!PopEmpty, Ring!PopEmpty, R!PopTest, Ring!PopTest, R!PopCopy, Ring!PopCopy,
      R!PopAdvance, Ring!PopAdvance, R!Increment, Ring!Increment, R!Slot, Ring!Slot,
      R!producerVars, Ring!producerVars

(* A step of the ring, or one that leaves it alone. *)
LEMMA RingStep ==
  ASSUME R!IInv, R!Next \/ UNCHANGED ring
  PROVE  R!IInv' /\ Ring!TypeOK'
  <1>1. [R!Next]_(R!vars)
    BY DEF R!vars, R!producerVars, R!consumerVars, ring
  <1>2. R!TypeOK'
    BY <1>1, R!TypeStep, UartAssumption DEF R!IInv
  <1>3. R!IInv'
    BY <1>1, <1>2, R!IInvStep, UartAssumption
  <1>4. Ring!TypeOK'
    BY <1>2, SameTypes, PTL
  <1> QED BY <1>3, <1>4

(* Steps that move no index leave as many bytes in the ring. *)
LEMMA UsedKept ==
  ASSUME UNCHANGED <<write_index, read_index>>
  PROVE  Ring!Used' = Ring!Used
  BY DEF Ring!Used, Ring!Distance

LEMMA EmptyIsZero == ASSUME TypeOK, Ring!IsEmpty PROVE Ring!Used = 0
  <1>1. R!TypeOK
    BY SameTypes DEF TypeOK
  <1> QED BY <1>1, R!UsedFacts, SameUsed, UartAssumption
-----------------------------------------------------------------------------
LEMMA IInvInit == Init => IInv
  <1> SUFFICES ASSUME Init PROVE IInv
    OBVIOUS
  <1>1. R!Init
    BY DEF Init, Ring!Init, R!Init, Ring!Slots, R!Slots
  <1>2. R!IInv
    BY <1>1, R!IInvInit, UartAssumption
  <1>3. Ring!TypeOK
    BY <1>2, SameTypes DEF R!IInv
  <1>4. TypeOK
    <2>1. txfifo \in Seq(Byte) /\ Len(txfifo) = 0
      BY EmptySeq DEF Init
    <2>2. Len(txfifo) <= FifoDepth /\ remaining \in 0 .. MaxWrite
      BY <2>1, UartAssumption DEF Init
    <2> QED BY <1>3, <2>1, <2>2, Zenon DEF Init, TypeOK
  <1>5. Ring!IsEmpty
    BY DEF Init, Ring!Init, Ring!IsEmpty
  <1>6. Ring!Used = 0
    BY <1>4, <1>5, EmptyIsZero
  <1> QED BY <1>2, <1>4, <1>6 DEF Init, IInv, HandByte, RoomSeen, Covered

(* A write begins, with nothing accepted yet. *)
LEMMA WriteBeginStep ==
  ASSUME IInv, NEW n \in 0 .. MaxWrite, WriteBegin(n)
  PROVE  IInv'
  <1>1. R!IInv' /\ Ring!TypeOK'
    BY RingStep DEF IInv, WriteBegin
  <1>2. TypeOK'
    BY <1>1 DEF IInv, TypeOK, WriteBegin, irq
  <1>3. Ring!Used' = Ring!Used
    BY UsedKept DEF WriteBegin, ring
  <1>4. Covered'
    BY <1>3 DEF IInv, TypeOK, Covered, Awake, WriteBegin, irq
  <1> QED
    BY <1>1, <1>2, <1>4 DEF IInv, HandByte, RoomSeen, WriteBegin, ring

(* Before the byte is published it does not count; from then on the kick   *)
(* of WriteEnd covers it.                                                  *)
LEMMA WritePushStep == ASSUME IInv, WritePush PROVE IInv'
  <1>1. R!IInv' /\ Ring!TypeOK'
    <2>1. R!Next
      BY SamePushes DEF WritePush, R!Next, R!Producer
    <2> QED BY <2>1, RingStep DEF IInv
  <1>2. TypeOK'
    <2>1. remaining' \in 0 .. MaxWrite
      BY UartAssumption DEF IInv, TypeOK, WritePush, thread
    <2>2. main_pc' = main_pc /\ accepted' \in BOOLEAN
      BY DEF IInv, TypeOK, WritePush, thread
    <2> QED BY <1>1, <2>1, <2>2 DEF IInv, TypeOK, WritePush, irq
  <1>3. Covered'
    <2>1. CASE Ring!PushPublish /\ accepted' = TRUE /\ UNCHANGED main_pc
      BY <2>1 DEF IInv, Covered, WritePush, irq
    <2>2. CASE ((\E b \in Byte : Ring!PushTest(b)) \/ Ring!PushStore)
               /\ UNCHANGED thread
      <3>1. UNCHANGED <<write_index, read_index>>
        BY <2>2 DEF Ring!PushTest, Ring!PushStore
      <3>2. Ring!Used' = Ring!Used
        BY <3>1, UsedKept
      <3> QED BY <2>2, <3>2 DEF IInv, Covered, Awake, WritePush, irq, thread
    <2> QED BY <2>1, <2>2 DEF WritePush
  <1> QED BY <1>1, <1>2, <1>3 DEF IInv, HandByte, RoomSeen, WritePush

(* A refused push moves no index. *)
LEMMA WriteRejectedStep == ASSUME IInv, WriteRejected PROVE IInv'
  <1>1. R!IInv' /\ Ring!TypeOK'
    <2>1. R!Next
      BY SamePushes DEF WriteRejected, R!Next, R!Producer
    <2> QED BY <2>1, RingStep DEF IInv
  <1>2. TypeOK'
    BY <1>1, UartAssumption DEF IInv, TypeOK, WriteRejected, irq
  <1>3. Ring!Used' = Ring!Used
    BY UsedKept DEF WriteRejected, Ring!PushRejected
  <1>4. Covered'
    BY <1>3 DEF IInv, Covered, Awake, WriteRejected, irq
  <1> QED BY <1>1, <1>2, <1>4 DEF IInv, HandByte, RoomSeen, WriteRejected

(* The kick: an accepted byte finds TXINT unmasked and raised. *)
LEMMA WriteEndStep == ASSUME IInv, WriteEnd PROVE IInv'
  <1>1. R!IInv' /\ Ring!TypeOK'
    BY RingStep DEF IInv, WriteEnd
  <1>2. TypeOK'
    BY <1>1 DEF IInv, TypeOK, WriteEnd, EnableInterrupt, Signal, irq
  <1>3. Ring!Used' = Ring!Used
    BY UsedKept DEF WriteEnd, ring
  <1>4. Covered'
    <2>1. CASE accepted
      BY <2>1 DEF WriteEnd, EnableInterrupt, Signal, Covered, Awake
    <2>2. CASE ~ accepted
      BY <1>3, <2>2 DEF IInv, Covered, Awake, WriteEnd, irq
    <2> QED BY <2>1, <2>2
  <1> QED BY <1>1, <1>2, <1>4 DEF IInv, HandByte, RoomSeen, WriteEnd, ring
-----------------------------------------------------------------------------
(* A handler that finds nothing raised had no request to lose. *)
LEMMA IsrEnterStep == ASSUME IInv, IsrEnter PROVE IInv'
  <1>1. R!IInv' /\ Ring!TypeOK'
    BY RingStep DEF IInv, IsrEnter
  <1>2. TypeOK'
    BY <1>1 DEF IInv, TypeOK, IsrEnter, thread
  <1>3. Ring!Used' = Ring!Used
    BY UsedKept DEF IsrEnter, ring
  <1>4. Covered'
    <2>1. CASE imask /\ ris
      BY <2>1 DEF IsrEnter, Covered
    <2>2. CASE ~ (imask /\ ris)
      BY <1>3, <2>2 DEF IInv, Covered, Awake, IsrEnter, thread
    <2> QED BY <2>1, <2>2
  <1> QED BY <1>1, <1>2, <1>4 DEF IInv, HandByte, RoomSeen, IsrEnter, ring

(* A full FIFO wakes the handler again when it drains. *)
LEMMA IsrTestStep == ASSUME IInv, IsrTest PROVE IInv'
  <1>1. R!IInv' /\ Ring!TypeOK'
    BY RingStep DEF IInv, IsrTest
  <1>2. TypeOK'
    BY <1>1 DEF IInv, TypeOK, IsrTest, thread, irq
  <1>3. RoomSeen'
    <2>1. Len(txfifo) \in Nat /\ Len(txfifo) <= FifoDepth
      BY LenProperties DEF IInv, TypeOK
    <2> QED BY <2>1, UartAssumption DEF RoomSeen, IsrTest
  <1>4. Covered'
    BY UartAssumption DEF IInv, Covered, Awake, IsrTest, irq
  <1> QED BY <1>1, <1>2, <1>3, <1>4 DEF IInv, HandByte, IsrTest

(* The handler gives up only on an empty ring, and takes away only what it *)
(* goes on to send.                                                        *)
LEMMA IsrPopStep == ASSUME IInv, IsrPop PROVE IInv'
  <1>1. R!IInv' /\ Ring!TypeOK'
    <2>1. R!Next
      BY SamePops DEF IsrPop, R!Next, R!Consumer
    <2> QED BY <2>1, RingStep DEF IInv
  <1>2. TypeOK'
    BY <1>1 DEF IInv, TypeOK, IsrPop, thread, irq
  <1>3. HandByte'
    <2>1. CASE Ring!PopAdvance
      <3>1. R!TypeOK /\ R!Used > 0 /\ pop_byte = storage[R!UnreadSlot(0)]
        <4>1. pop_pc = "advance"
          BY <2>1 DEF Ring!PopAdvance
        <4> QED
          BY <4>1, R!UsedFacts, UartAssumption
          DEF IInv, R!IInv, R!NeverOverfull, R!InFlightBytes
      <3>2. R!Used \in Int
        BY <3>1, R!UsedFacts, UartAssumption DEF R!Indices
      <3>3. pop_byte \in Byte
        BY <3>1, <3>2 DEF IInv, R!IInv, R!InFlightBytes
      <3> QED BY <2>1, <3>3 DEF HandByte, Ring!PopAdvance
    <2>2. CASE ~ Ring!PopAdvance
      BY <2>2 DEF HandByte, IsrPop
    <2> QED BY <2>1, <2>2
  <1>4. Covered'
    <2>1. CASE Ring!PopEmpty /\ isr_pc' = "disable"
      <3>1. Ring!Used = 0 /\ UNCHANGED <<write_index, read_index>>
        BY <2>1, EmptyIsZero DEF IInv, Ring!PopEmpty
      <3>2. Ring!Used' = 0
        BY <3>1, UsedKept
      <3> QED BY <2>1, <3>2 DEF IInv, Covered, IsrPop, irq
    <2>2. CASE isr_pc' \in {"pop", "put"}
      BY <2>2 DEF IInv, Covered, IsrPop, irq
    <2> QED BY <2>1, <2>2 DEF IsrPop
  <1>5. RoomSeen'
    BY DEF IInv, RoomSeen, IsrPop
  <1> QED BY <1>1, <1>2, <1>3, <1>4, <1>5 DEF IInv

(* The byte fits, because there was room at the test. *)
LEMMA IsrPutStep == ASSUME IInv, IsrPut PROVE IInv'
  <1>1. R!IInv' /\ Ring!TypeOK'
    BY RingStep DEF IInv, IsrPut
  <1>2. txfifo' \in Seq(Byte) /\ Len(txfifo') = Len(txfifo) + 1
    BY DEF IInv, TypeOK, HandByte, IsrPut
  <1>3. Len(txfifo') <= FifoDepth
    BY <1>2, UartAssumption, LenProperties DEF IInv, TypeOK, RoomSeen, IsrPut
  <1>4. TypeOK'
    BY <1>1, <1>2, <1>3 DEF IInv, TypeOK, IsrPut, thread, irq
  <1>5. Covered'
    BY DEF IInv, Covered, IsrPut, irq
  <1> QED BY <1>1, <1>4, <1>5 DEF IInv, HandByte, RoomSeen, IsrPut

(* TXINT is masked while the ring is still as empty as it was found. *)
LEMMA IsrDisableStep == ASSUME IInv, IsrDisable PROVE IInv'
  <1>1. R!IInv' /\ Ring!TypeOK'
    BY RingStep DEF IInv, IsrDisable
  <1>2. TypeOK'
    BY <1>1 DEF IInv, TypeOK, IsrDisable, DisableInterrupt, Signal, thread
  <1>3. Ring!Used' = Ring!Used
    BY UsedKept DEF IsrDisable, ring
  <1>4. Covered'
    BY <1>3 DEF IInv, TypeOK, Covered, IsrDisable, DisableInterrupt, Signal
  <1> QED BY <1>1, <1>2, <1>4 DEF IInv, HandByte, RoomSeen, IsrDisable

(* Draining past the level raises TXINT. *)
LEMMA TransmitStep == ASSUME IInv, Transmit PROVE IInv'
  <1>1. R!IInv' /\ Ring!TypeOK'
    BY RingStep DEF IInv, Transmit
  <1>2. /\ txfifo \in Seq(Byte) /\ txfifo # << >>
        /\ txfifo' \in Seq(Byte) /\ line' \in Byte
        /\ Len(txfifo) \in Nat /\ Len(txfifo') = Len(txfifo) - 1
    BY EmptySeq, HeadTailProperties, LenProperties DEF IInv, TypeOK, Transmit
  <1>3. /\ UNCHANGED <<main_pc, remaining, accepted, isr_pc, imask>>
        /\ \/ ris' = TRUE /\ nvic' = (nvic \/ (imask /\ TRUE))
           \/ Len(txfifo) - 1 # FifoLevel /\ UNCHANGED <<ris, nvic>>
    BY DEF Transmit, Signal, irq, thread
  <1>4. ris' \in BOOLEAN /\ nvic' \in BOOLEAN
    BY <1>3, Zenon DEF IInv, TypeOK
  <1>5. FifoDepth \in Nat /\ FifoLevel \in Nat
    BY UartAssumption
  <1>6. TypeOK'
    BY <1>1, <1>2, <1>3, <1>4, <1>5 DEF IInv, TypeOK
  <1>7. RoomSeen'
    BY <1>2, <1>3, <1>5 DEF IInv, RoomSeen
  <1>8. Ring!Used' = Ring!Used
    BY UsedKept DEF Transmit, ring
  <1>9. Covered'
    <2>1. nvic' => ris'
      BY <1>3 DEF IInv, Covered
    <2>2. Awake => Awake'
      <3>1. CASE ris' = TRUE
        BY <1>3, <3>1 DEF Awake
      <3>2. CASE Len(txfifo) - 1 # FifoLevel /\ UNCHANGED <<ris, nvic>>
        BY <1>2, <1>3, <1>5, <3>2 DEF Awake
      <3> QED BY <1>3, <3>1, <3>2
    <2> QED BY <1>3, <1>8, <2>1, <2>2 DEF IInv, Covered
  <1> QED BY <1>1, <1>3, <1>6, <1>7, <1>9 DEF IInv, HandByte, Transmit, ring

LEMMA StutterStep == ASSUME IInv, UNCHANGED vars PROVE IInv'
  <1>1. R!IInv' /\ Ring!TypeOK'
    BY RingStep DEF IInv, vars
  <1>2. Ring!Used' = Ring!Used
    BY UsedKept DEF vars, ring
  <1> QED
    BY <1>1, <1>2
    DEF IInv, TypeOK, HandByte, RoomSeen, Covered, Awake, vars, ring, thread, irq

LEMMA IInvHolds == Spec => []IInv
  <1>1. IInv /\ [Next]_vars => IInv'
    BY WriteBeginStep, WritePushStep, WriteRejectedStep, WriteEndStep, IsrEnterStep,
       IsrTestStep, IsrPopStep, IsrPutStep, IsrDisableStep, TransmitStep, StutterStep
    DEF Next, Thread, Isr
  <1> QED BY <1>1, IInvInit, PTL DEF Spec
-----------------------------------------------------------------------------
(* The handler never writes to a full FIFO, for every ring and FIFO.       *)
THEOREM FifoSafety == Spec => []NoFifoOverrun
  <1>1. IInv => NoFifoOverrun
    BY DEF IInv, RoomSeen, NoFifoOverrun
  <1> QED BY <1>1, IInvHolds, PTL

(* No accepted byte waits in the ring without a wakeup to come, wherever   *)
(* the handler preempts the write and however far the FIFO drains.         *)
THEOREM NoWakeupIsLost == Spec => []NoLostWakeup
  <1>1. IInv => NoLostWakeup
    <2>1. TypeOK => R!Used \in Int
      BY SameTypes, R!UsedFacts, UartAssumption DEF TypeOK, R!Indices
    <2> QED BY <2>1, SameUsed DEF IInv, Covered, Awake, NoLostWakeup
  <1> QED BY <1>1, IInvHolds, PTL
-----------------------------------------------------------------------------
(* How the parts of Line's pending change when a byte moves from one to    *)
(* the next.                                                               *)
LEMMA PendingFacts ==
  ASSUME NEW t \in Seq(Byte), NEW c \in Seq(Byte)
  PROVE  /\ t \o << >> \o c \in Seq(Byte)
         /\ Len(t \o << >> \o c) = Len(t) + Len(c)
         /\ \A b \in Byte : t \o << >> \o Append(c, b) = Append(t \o << >> \o c, b)
         /\ c # << >> => t \o <<Head(c)>> \o Tail(c) = t \o << >> \o c
         /\ \A b \in Byte : Append(t, b) \o << >> \o c = t \o <<b>> \o c
  <1>1. t \o << >> = t
    BY ConcatEmptySeq
  <1>2. t \o c \in Seq(Byte) /\ Len(t \o c) = Len(t) + Len(c)
    BY ConcatProperties
  <1>3. ASSUME NEW b \in Byte PROVE t \o Append(c, b) = Append(t \o c, b)
    <2>1. <<b>> \in Seq(Byte)
      OBVIOUS
    <2>2. t \o (c \o <<b>>) = (t \o c) \o <<b>>
      BY <2>1, ConcatAssociative
    <2> QED BY <1>2, <2>2, AppendIsConcat
  <1>4. ASSUME NEW b \in Byte PROVE Append(t, b) = t \o <<b>> /\ Append(t, b) \in Seq(Byte)
    BY AppendIsConcat, AppendProperties
  <1>5. ASSUME c # << >> PROVE (t \o <<Head(c)>>) \o Tail(c) = t \o c
    <2>1. Head(c) \in Byte /\ Tail(c) \in Seq(Byte)
      BY <1>5, HeadTailProperties
    <2>2. <<Head(c)>> \in Seq(Byte)
      BY <2>1
    <2>3. <<Head(c)>> \o Tail(c) = c
      BY <1>5, <2>1
    <2> QED BY <2>1, <2>2, <2>3, ConcatAssociative
  <1>6. ASSUME NEW b \in Byte PROVE Append(t, b) \o << >> = Append(t, b)
    BY <1>4, ConcatEmptySeq
  <1> QED BY <1>1, <1>2, <1>3, <1>4, <1>5, <1>6

(* The first byte of the FIFO is the first of all that is pending. *)
LEMMA FirstPending ==
  ASSUME NEW t \in Seq(Byte), t # << >>, NEW s \in Seq(Byte)
  PROVE  /\ t \o s # << >>
         /\ Head(t \o s) = Head(t)
         /\ Tail(t \o s) = Tail(t) \o s
  <1>1. /\ t \o s \in Seq(Byte) /\ Len(t \o s) = Len(t) + Len(s)
        /\ \A i \in 1 .. Len(t) + Len(s) :
             (t \o s)[i] = IF i <= Len(t) THEN t[i] ELSE s[i - Len(t)]
    BY ConcatProperties
  <1>2. Len(t) \in Nat \ {0} /\ Len(s) \in Nat
    BY EmptySeq, LenProperties
  <1>3. t \o s # << >>
    BY <1>1, <1>2
  <1>4. Head(t \o s) = Head(t)
    BY <1>1, <1>2
  <1>5. /\ Tail(t) \in Seq(Byte) /\ Len(Tail(t)) = Len(t) - 1
        /\ \A i \in 1 .. Len(t) - 1 : Tail(t)[i] = t[i + 1]
    BY HeadTailProperties
  <1>6. /\ Tail(t \o s) \in Seq(Byte) /\ Len(Tail(t \o s)) = Len(t) + Len(s) - 1
        /\ \A i \in 1 .. Len(t) + Len(s) - 1 : Tail(t \o s)[i] = (t \o s)[i + 1]
    BY <1>1, <1>3, HeadTailProperties
  <1>7. /\ Tail(t) \o s \in Seq(Byte) /\ Len(Tail(t) \o s) = Len(t) + Len(s) - 1
        /\ \A i \in 1 .. Len(t) + Len(s) - 1 :
             (Tail(t) \o s)[i] = IF i <= Len(t) - 1 THEN Tail(t)[i]
                                                    ELSE s[i - (Len(t) - 1)]
    <2>1. Len(Tail(t)) + Len(s) = Len(t) + Len(s) - 1
      BY <1>2, <1>5
    <2> QED BY <1>5, <2>1, ConcatProperties
  <1>8. ASSUME NEW i \in 1 .. Len(t) + Len(s) - 1
        PROVE  Tail(t \o s)[i] = (Tail(t) \o s)[i]
    <2>1. i + 1 \in 1 .. Len(t) + Len(s) /\ (i + 1) - Len(t) = i - (Len(t) - 1)
      BY <1>2
    <2>2. Tail(t \o s)[i] = IF i + 1 <= Len(t) THEN t[i + 1] ELSE s[(i + 1) - Len(t)]
      BY <1>1, <1>6, <2>1
    <2>3. i <= Len(t) - 1 => Tail(t)[i] = t[i + 1]
      BY <1>2, <1>5
    <2> QED BY <1>2, <1>7, <2>1, <2>2, <2>3
  <1>9. Tail(t \o s) = Tail(t) \o s
    BY <1>6, <1>7, <1>8, SeqEqual
  <1> QED BY <1>3, <1>4, <1>9
-----------------------------------------------------------------------------
SameContents == R!Used = Ring!Used /\ R!Contents = Ring!Contents

LEMMA ContentsAgree == SameContents /\ SameContents'
  <1>1. SameContents
    BY SameUsed
    DEF SameContents, R!Contents, Ring!Contents, R!UnreadSlot, Ring!UnreadSlot,
        R!Slot, Ring!Slot
  <1> QED BY <1>1, PTL

(* How many bytes a step of the ring leaves tells what it did. *)
LEMMA ContentsStep ==
  ASSUME R!IInv, R!Next \/ UNCHANGED ring
  PROVE  /\ Ring!Contents \in Seq(Byte) /\ Len(Ring!Contents) = Ring!Used
         /\ Ring!Used' = Ring!Used => Ring!Contents' = Ring!Contents
         /\ Ring!Used' = Ring!Used + 1 =>
              /\ Len(Ring!Contents) < Capacity
              /\ \E b \in Byte : Ring!Contents' = Append(Ring!Contents, b)
         /\ Ring!Used' = Ring!Used - 1 =>
              /\ Ring!Contents # << >>
              /\ pop_result' = Head(Ring!Contents)
              /\ Ring!Contents' = Tail(Ring!Contents)
  <1>1. R!IInv'
    BY RingStep
  <1>2. R!ContentsFacts /\ R!ContentsFacts'
    BY <1>1, R!ContentsIsSeq, R!ContentsIsSeqNext, UartAssumption
  <1>3. [R!Next]_(R!vars)
    BY DEF R!vars, R!producerVars, R!consumerVars, ring
  <1>4. [R!Fifo!Next]_(R!Fifo!vars)
    BY <1>1, <1>3, R!RefinedStep, UartAssumption
  <1> DEFINE c == R!Contents
  <1>5. /\ c \in Seq(Byte) /\ Len(c) = R!Used /\ R!Used \in Nat
        /\ Len(c') = R!Used' /\ R!Used' \in Nat
    BY <1>2 DEF R!ContentsFacts
  <1>6. \/ c' = c
        \/ Len(c) < Capacity /\ \E b \in Byte : c' = Append(c, b)
        \/ Len(c) > 0 /\ pop_result' = Head(c) /\ c' = Tail(c)
    BY <1>4
    DEF R!Fifo!Next, R!Fifo!vars, R!Fifo!Push, R!Fifo!PushRejected, R!Fifo!Pop,
        R!Fifo!PopEmpty
  <1>7. /\ \A b \in Byte : Len(Append(c, b)) = Len(c) + 1
        /\ Len(c) > 0 => c # << >> /\ Len(Tail(c)) = Len(c) - 1
    BY <1>5, AppendProperties, EmptySeq, HeadTailProperties
  <1>8. c = Ring!Contents /\ c' = Ring!Contents'
         /\ R!Used = Ring!Used /\ R!Used' = Ring!Used'
    BY ContentsAgree DEF SameContents
  <1> HIDE DEF c
  <1> QED BY <1>5, <1>6, <1>7, <1>8

(* Steps that move no byte. *)
LEMMA Unseen ==
  ASSUME IInv, R!Next \/ UNCHANGED ring, UNCHANGED <<txfifo, line>>,
         UNCHANGED <<write_index, read_index>>,
         isr_pc # "put", isr_pc' # "put"
  PROVE  UNCHANGED Line!vars
  <1>1. Ring!Contents' = Ring!Contents
    BY UsedKept, ContentsStep DEF IInv
  <1> QED BY <1>1 DEF Line!vars, InHand

(* The publish of a push is the acceptance of its byte. *)
LEMMA PublishAccepts ==
  ASSUME IInv, WritePush, Ring!PushPublish
  PROVE  Line!Next
  <1> DEFINE c == Ring!Contents
  <1>1. R!PushPublish /\ R!Next
    BY SamePushes DEF R!Next, R!Producer
  <1>2. Ring!Used' = Ring!Used + 1
    <2>1. R!Used < Capacity
      BY <1>1 DEF IInv, R!IInv, R!NeverOverfull, R!PushPublish
    <2>2. R!Used' = R!Used + 1
      BY <1>1, <2>1, R!PublishFacts, UartAssumption DEF IInv, R!IInv
    <2> QED BY <2>2, ContentsAgree DEF SameContents
  <1>3. c \in Seq(Byte) /\ Len(c) < Capacity
    BY <1>1, <1>2, ContentsStep DEF IInv
  <1>4. PICK b \in Byte : c' = Append(c, b)
    BY <1>1, <1>2, ContentsStep DEF IInv
  <1>5. InHand = << >> /\ InHand' = << >> /\ UNCHANGED <<txfifo, line>>
    BY DEF InHand, WritePush
  <1>6. txfifo \in Seq(Byte) /\ Len(txfifo) \in Nat /\ Len(txfifo) <= FifoDepth
    BY LenProperties DEF IInv, TypeOK
  <1>7. Len(c) \in Nat
    BY <1>3, LenProperties
  <1> HIDE DEF c
  <1>8. /\ Len(txfifo \o << >> \o c) < Capacity + FifoDepth
        /\ txfifo \o << >> \o Append(c, b) = Append(txfifo \o << >> \o c, b)
    BY <1>3, <1>6, <1>7, PendingFacts, UartAssumption
  <1>9. Line!Accept(b)
    BY <1>4, <1>5, <1>8 DEF Line!Accept, c
  <1> QED BY <1>9 DEF Line!Next

(* The popped byte is in the handler's hand before it leaves the ring. *)
LEMMA AdvanceUnseen ==
  ASSUME IInv, IsrPop, Ring!PopAdvance, isr_pc' = "put"
  PROVE  UNCHANGED Line!vars
  <1> DEFINE c == Ring!Contents
  <1>1. R!PopAdvance /\ R!Next
    BY SamePops DEF R!Next, R!Consumer
  <1>2. Ring!Used' = Ring!Used - 1
    <2>1. R!Used > 0
      BY <1>1 DEF IInv, R!IInv, R!NeverOverfull, R!PopAdvance
    <2>2. R!Used' = R!Used - 1
      BY <1>1, <2>1, R!AdvanceFacts, UartAssumption DEF IInv, R!IInv
    <2> QED BY <2>2, ContentsAgree DEF SameContents
  <1>3. c \in Seq(Byte) /\ c # << >> /\ pop_result' = Head(c) /\ c' = Tail(c)
    BY <1>1, <1>2, ContentsStep DEF IInv
  <1>4. InHand = << >> /\ InHand' = <<pop_result'>> /\ UNCHANGED <<txfifo, line>>
    BY DEF InHand, IsrPop
  <1>5. txfifo \in Seq(Byte)
    BY DEF IInv, TypeOK
  <1> HIDE DEF c
  <1>6. txfifo \o <<Head(c)>> \o Tail(c) = txfifo \o << >> \o c
    BY <1>3, <1>5, PendingFacts
  <1> QED BY <1>3, <1>4, <1>6 DEF Line!vars, c

(* Writing TXDATA moves it on. *)
LEMMA PutUnseen == ASSUME IInv, IsrPut PROVE UNCHANGED Line!vars
  <1> DEFINE c == Ring!Contents
  <1>1. c \in Seq(Byte) /\ c' = c
    BY UsedKept, ContentsStep DEF IInv, IsrPut, ring
  <1>2. /\ InHand = <<pop_result>> /\ InHand' = << >> /\ UNCHANGED line
        /\ txfifo' = Append(txfifo, pop_result)
        /\ pop_result \in Byte /\ txfifo \in Seq(Byte)
    BY DEF InHand, IsrPut, IInv, HandByte, TypeOK
  <1> HIDE DEF c
  <1>3. Append(txfifo, pop_result) \o << >> \o c = txfifo \o <<pop_result>> \o c
    BY <1>1, <1>2, PendingFacts
  <1> QED BY <1>1, <1>2, <1>3 DEF Line!vars, c

(* The oldest pending byte goes out. *)
LEMMA TransmitSends == ASSUME IInv, Transmit PROVE Line!Send
  <1> DEFINE s == InHand \o Ring!Contents
  <1>1. Ring!Contents \in Seq(Byte) /\ Ring!Contents' = Ring!Contents
    BY UsedKept, ContentsStep DEF IInv, Transmit, ring
  <1>2. InHand \in Seq(Byte) /\ InHand' = InHand
    BY EmptySeq DEF InHand, IInv, HandByte, Transmit, ring
  <1>3. /\ txfifo \in Seq(Byte) /\ txfifo # << >>
        /\ line' = Head(txfifo) /\ txfifo' = Tail(txfifo)
    BY DEF Transmit, IInv, TypeOK
  <1>4. Tail(txfifo) \in Seq(Byte)
    BY <1>3, HeadTailProperties
  <1>5. s \in Seq(Byte)
    BY <1>1, <1>2, ConcatProperties
  <1>6. txfifo \o InHand \o Ring!Contents = txfifo \o s
    BY <1>1, <1>2, <1>3, ConcatAssociative
  <1>7. (txfifo \o InHand \o Ring!Contents)' = Tail(txfifo) \o s
    <2>1. Tail(txfifo) \o InHand \o Ring!Contents = Tail(txfifo) \o s
      BY <1>1, <1>2, <1>4, ConcatAssociative
    <2> QED BY <1>1, <1>2, <1>3, <2>1
  <1> HIDE DEF s
  <1>8. txfifo \o s # << >> /\ Head(txfifo \o s) = Head(txfifo)
         /\ Tail(txfifo \o s) = Tail(txfifo) \o s
    BY <1>3, <1>5, FirstPending
  <1> QED BY <1>3, <1>6, <1>7, <1>8 DEF Line!Send

(* Every step of the driver is one of the line or none. *)
LEMMA LineStep == ASSUME IInv, [Next]_vars PROVE [Line!Next]_(Line!vars)
  <1>1. ASSUME NEW n \in 0 .. MaxWrite, WriteBegin(n) PROVE UNCHANGED Line!vars
    BY <1>1, Unseen DEF WriteBegin, ring
  <1>2. CASE WritePush
    <2>1. CASE Ring!PushPublish
      BY <1>2, <2>1, PublishAccepts
    <2>2. CASE (\E b \in Byte : Ring!PushTest(b)) \/ Ring!PushStore
      <3>1. R!Next
        BY <2>2, SamePushes DEF R!Next, R!Producer
      <3>2. UNCHANGED <<write_index, read_index>>
        BY <2>2 DEF Ring!PushTest, Ring!PushStore
      <3> QED BY <1>2, <3>1, <3>2, Unseen DEF WritePush
    <2> QED BY <1>2, <2>1, <2>2 DEF WritePush
  <1>3. CASE WriteRejected
    <2>1. R!Next
      BY <1>3, SamePushes DEF WriteRejected, R!Next, R!Producer
    <2> QED BY <1>3, <2>1, Unseen DEF WriteRejected, Ring!PushRejected
  <1>4. CASE WriteEnd
    BY <1>4, Unseen DEF WriteEnd, ring
  <1>5. CASE IsrEnter
    BY <1>5, Unseen DEF IsrEnter, ring
  <1>6. CASE IsrTest
    BY <1>6, Unseen DEF IsrTest, ring
  <1>7. CASE IsrPop
    <2>1. CASE Ring!PopAdvance /\ isr_pc' = "put"
      BY <1>7, <2>1, AdvanceUnseen
    <2>2. CASE (Ring!PopTest \/ Ring!PopCopy \/ Ring!PopEmpty)
               /\ isr_pc' \in {"pop", "disable"}
      <3>1. R!Next
        BY <2>2, SamePops DEF R!Next, R!Consumer
      <3>2. UNCHANGED <<write_index, read_index>>
        BY <2>2 DEF Ring!PopTest, Ring!PopCopy, Ring!PopEmpty
      <3> QED BY <1>7, <2>2, <3>1, <3>2, Unseen DEF IsrPop
    <2> QED BY <1>7, <2>1, <2>2 DEF IsrPop
  <1>8. CASE IsrPut
    BY <1>8, PutUnseen
  <1>9. CASE IsrDisable
    BY <1>9, Unseen DEF IsrDisable, ring
  <1>10. CASE Transmit
    BY <1>10, TransmitSends DEF Line!Next
  <1>11. CASE UNCHANGED vars
    <2>1. Ring!Contents' = Ring!Contents
      BY <1>11, UsedKept, ContentsStep DEF IInv, vars, ring
    <2> QED BY <1>11, <2>1 DEF Line!vars, InHand, vars, ring
  <1> QED
    BY <1>1, <1>2, <1>3, <1>4, <1>5, <1>6, <1>7, <1>8, <1>9, <1>10, <1>11
    DEF Next, Thread, Isr

(* The bytes hal_uart0_tx_write accepts go out on the line once each and   *)
(* in order, for every ring, FIFO and length of a write: the part of       *)
(* ImplementsLine that is not about fairness.                              *)
THEOREM LineInOrder == Spec => Line!InOrder
  <1>1. Init => Line!Init
    <2> SUFFICES ASSUME Init PROVE Line!Init
      OBVIOUS
    <2>1. R!Init
      BY DEF Init, Ring!Init, R!Init, Ring!Slots, R!Slots
    <2>2. R!Contents = << >>
      BY <2>1, R!RefinedInit, UartAssumption DEF R!Fifo!Init
    <2>3. Ring!Contents = << >> /\ txfifo = << >> /\ InHand = << >>
      BY <2>2, ContentsAgree DEF Init, InHand, SameContents
    <2> QED BY <2>3, ConcatEmptySeq, EmptySeq DEF Init, Line!Init
  <1>2. IInv /\ [Next]_vars => [Line!Next]_(Line!vars)
    BY LineStep
  <1> QED BY <1>1, <1>2, IInvHolds, PTL DEF Spec, Line!InOrder
=============================================================================
