--------------------------- MODULE RingBufProofs ----------------------------
(***************************************************************************)
(* Proofs about lib/lib_ringbuf.c for every Capacity and Modulus: type     *)
(* correctness, the safety invariants, and that the ring implements the    *)
(* bounded queue of RingFifo.                                              *)
(***************************************************************************)
EXTENDS RingBuf, TLAPS

(* A remainder lies below its divisor. *)
LEMMA ModRange ==
  ASSUME NEW x \in Int, NEW n \in Nat \ {0}
  PROVE  x % n \in 0 .. n - 1
  OBVIOUS

(* Division with remainder. *)
LEMMA ModQuotient ==
  ASSUME NEW x \in Int, NEW n \in Nat \ {0}
  PROVE  x = n * (x \div n) + (x % n) /\ (x \div n) \in Int
  OBVIOUS

(* The only multiple of n strictly between -n and n is zero. *)
LEMMA MulBound ==
  ASSUME NEW q \in Int, NEW n \in Nat \ {0}, n * q < n, n * q > -n
  PROVE  q = 0
  <1>1. CASE q >= 1
    BY <1>1, n * q >= n
  <1>2. CASE q <= -1
    BY <1>2, n * q <= -n
  <1> QED BY <1>1, <1>2

(* A remainder is determined by any decomposition x = n*q + r. *)
LEMMA ModUnique ==
  ASSUME NEW n \in Nat \ {0}, NEW q \in Int, NEW r \in 0 .. n - 1
  PROVE  (n * q + r) % n = r
  <1> DEFINE x == n * q + r
  <1>0. x \in Int OBVIOUS
  <1>1. x = n * (x \div n) + (x % n) /\ (x \div n) \in Int
    BY <1>0, ModQuotient
  <1>2. x % n \in 0 .. n - 1
    BY <1>0, ModRange
  <1>3. n * (q - (x \div n)) = (x % n) - r
    BY <1>1, <1>2
  <1>4. q - (x \div n) = 0
    BY <1>1, <1>2, <1>3, MulBound
  <1> QED BY <1>1, <1>2, <1>3, <1>4
-----------------------------------------------------------------------------
(* index + 1 on a uint32_t wraps exactly once, at Modulus. *)
LEMMA IncrementValue ==
  ASSUME NEW a \in Indices
  PROVE  /\ Increment(a) = IF a + 1 = Modulus THEN 0 ELSE a + 1
         /\ Increment(a) \in Indices
  <1>1. CASE a + 1 = Modulus
    <2>1. (Modulus * 1 + 0) % Modulus = 0
      BY CapacityAssumption, ModUnique
    <2> QED BY <1>1, <2>1, CapacityAssumption DEF Increment, Indices
  <1>2. CASE a + 1 # Modulus
    <2>1. (Modulus * 0 + (a + 1)) % Modulus = a + 1
      BY <1>2, CapacityAssumption, ModUnique DEF Indices
    <2> QED BY <1>2, <2>1, CapacityAssumption DEF Increment, Indices
  <1> QED BY <1>1, <1>2

(* The unsigned difference of two indices, wrapped or not. *)
LEMMA DistanceValue ==
  ASSUME NEW a \in Indices, NEW b \in Indices
  PROVE  /\ Distance(a, b) = IF b >= a THEN b - a ELSE b - a + Modulus
         /\ Distance(a, b) \in Indices
  <1>1. CASE b >= a
    <2>1. (Modulus * 0 + (b - a)) % Modulus = b - a
      BY <1>1, CapacityAssumption, ModUnique DEF Indices
    <2> QED BY <1>1, <2>1, CapacityAssumption DEF Distance, Indices
  <1>2. CASE b < a
    <2>1. (Modulus * (-1) + (b - a + Modulus)) % Modulus = b - a + Modulus
      BY <1>2, CapacityAssumption, ModUnique DEF Indices
    <2> QED BY <1>2, <2>1, CapacityAssumption DEF Distance, Indices
  <1> QED BY <1>1, <1>2 DEF Indices

(* Stepping an index forward by at most Modulus wraps at most once. *)
LEMMA ForwardValue ==
  ASSUME NEW a \in Indices, NEW k \in 0 .. Modulus
  PROVE  /\ (a + k) % Modulus = IF a + k < Modulus THEN a + k ELSE a + k - Modulus
         /\ (a + k) % Modulus \in Indices
  <1>1. CASE a + k < Modulus
    <2>1. (Modulus * 0 + (a + k)) % Modulus = a + k
      BY <1>1, CapacityAssumption, ModUnique DEF Indices
    <2> QED BY <1>1, <2>1, CapacityAssumption DEF Indices
  <1>2. CASE a + k >= Modulus
    <2>1. (Modulus * 1 + (a + k - Modulus)) % Modulus = a + k - Modulus
      BY <1>2, CapacityAssumption, ModUnique DEF Indices
    <2> QED BY <1>2, <2>1, CapacityAssumption DEF Indices
  <1> QED BY <1>1, <1>2, CapacityAssumption DEF Indices

(* index & mask is a valid index into storage. *)
LEMMA SlotRange ==
  ASSUME NEW a \in Int
  PROVE  Slot(a) \in Slots
  BY CapacityAssumption, ModRange DEF Slot, Slots

(* Slots repeat across the wrap of the index, since Capacity divides Modulus. *)
LEMMA SlotPeriod ==
  ASSUME NEW a \in Int
  PROVE  Slot(a - Modulus) = Slot(a)
  <1>0. Modulus = Capacity * (Modulus \div Capacity) + (Modulus % Capacity)
           /\ (Modulus \div Capacity) \in Int
    BY CapacityAssumption, ModQuotient
  <1>1. PICK n \in Int : Modulus = Capacity * n
    BY <1>0, CapacityAssumption
  <1>2. PICK q \in Int : a = Capacity * q + Slot(a)
    BY CapacityAssumption, ModQuotient DEF Slot
  <1>3. a - Modulus = Capacity * (q - n) + Slot(a)
    BY <1>1, <1>2, SlotRange, CapacityAssumption DEF Slots
  <1>4. (Capacity * (q - n) + Slot(a)) % Capacity = Slot(a)
    <2>1. q - n \in Int /\ Slot(a) \in 0 .. Capacity - 1
      BY SlotRange DEF Slots
    <2> QED BY <2>1, CapacityAssumption, ModUnique
  <1> QED BY <1>3, <1>4 DEF Slot

(* Wrapping an index does not move its slot. *)
LEMMA SlotForward ==
  ASSUME NEW a \in Indices, NEW k \in 0 .. Modulus
  PROVE  Slot((a + k) % Modulus) = Slot(a + k)
  <1>1. CASE a + k < Modulus
    BY <1>1, ForwardValue
  <1>2. CASE ~(a + k < Modulus)
    <2>0. (a + k) % Modulus = IF a + k < Modulus THEN a + k ELSE a + k - Modulus
      BY ForwardValue
    <2>1. (a + k) % Modulus = (a + k) - Modulus
      BY <1>2, <2>0, CapacityAssumption DEF Indices
    <2>2. a + k \in Int
      BY CapacityAssumption DEF Indices
    <2> QED BY <2>1, <2>2, SlotPeriod
  <1> QED BY <1>1, <1>2

(* Capacity consecutive indices, wrapped or not, have distinct slots. *)
LEMMA SlotsDiffer ==
  ASSUME NEW a \in Indices, NEW i \in Slots, NEW j \in Slots, i # j
  PROVE  Slot((a + i) % Modulus) # Slot((a + j) % Modulus)
  <1>0. a + i \in Int /\ a + j \in Int /\ i \in 0 .. Modulus /\ j \in 0 .. Modulus
    BY CapacityAssumption DEF Indices, Slots
  <1>1. PICK p \in Int : a + i = Capacity * p + Slot(a + i)
    BY <1>0, CapacityAssumption, ModQuotient DEF Slot
  <1>2. PICK q \in Int : a + j = Capacity * q + Slot(a + j)
    BY <1>0, CapacityAssumption, ModQuotient DEF Slot
  <1>3. SUFFICES ASSUME Slot(a + i) = Slot(a + j) PROVE FALSE
    BY <1>0, SlotForward
  <1>4. Slot(a + i) \in Slots /\ Slot(a + j) \in Slots
    BY <1>0, SlotRange
  <1>5. Capacity * (p - q) = i - j
    BY <1>1, <1>2, <1>3, <1>4, CapacityAssumption DEF Indices, Slots
  <1>6. p - q = 0
    BY <1>5, MulBound, CapacityAssumption DEF Slots
  <1> QED BY <1>5, <1>6, CapacityAssumption DEF Slots
-----------------------------------------------------------------------------
(* Publishing increases the used count by one while it is below Capacity. *)
LEMMA UsedAfterPublish ==
  ASSUME NEW r \in Indices, NEW w \in Indices, Distance(r, w) < Capacity
  PROVE  Distance(r, Increment(w)) = Distance(r, w) + 1
  <1>1. Increment(w) \in Indices
          /\ Increment(w) = IF w + 1 = Modulus THEN 0 ELSE w + 1
    BY IncrementValue
  <1>2. Distance(r, w) = IF w >= r THEN w - r ELSE w - r + Modulus
    BY DistanceValue
  <1>3. Distance(r, Increment(w)) =
          IF Increment(w) >= r THEN Increment(w) - r ELSE Increment(w) - r + Modulus
    BY <1>1, DistanceValue
  <1> QED BY <1>1, <1>2, <1>3, CapacityAssumption DEF Indices

(* Advancing read_index decreases a positive used count by one. *)
LEMMA UsedAfterAdvance ==
  ASSUME NEW r \in Indices, NEW w \in Indices, Distance(r, w) > 0
  PROVE  Distance(Increment(r), w) = Distance(r, w) - 1
  <1>1. Increment(r) \in Indices
          /\ Increment(r) = IF r + 1 = Modulus THEN 0 ELSE r + 1
    BY IncrementValue
  <1>2. Distance(r, w) = IF w >= r THEN w - r ELSE w - r + Modulus
    BY DistanceValue
  <1>3. Distance(Increment(r), w) =
          IF w >= Increment(r) THEN w - Increment(r) ELSE w - Increment(r) + Modulus
    BY <1>1, DistanceValue
  <1> QED BY <1>1, <1>2, <1>3, CapacityAssumption DEF Indices

(* write_index lies the used count past read_index. *)
LEMMA WriteEndsUnread ==
  ASSUME NEW r \in Indices, NEW w \in Indices
  PROVE  (r + Distance(r, w)) % Modulus = w
  <1> DEFINE d == Distance(r, w)
  <1>1. d = (IF w >= r THEN w - r ELSE w - r + Modulus) /\ d \in Indices
    BY DistanceValue
  <1>2. d \in 0 .. Modulus
    BY <1>1, CapacityAssumption DEF Indices
  <1>3. (r + d) % Modulus = IF r + d < Modulus THEN r + d ELSE r + d - Modulus
    BY <1>2, ForwardValue
  <1> QED BY <1>1, <1>3, CapacityAssumption DEF Indices

(* Position k after the next index is position k + 1 after this one. *)
LEMMA ForwardFromNext ==
  ASSUME NEW r \in Indices, NEW k \in 0 .. Modulus - 1
  PROVE  (Increment(r) + k) % Modulus = (r + (k + 1)) % Modulus
  <1>1. k \in 0 .. Modulus /\ k + 1 \in 0 .. Modulus
    BY CapacityAssumption
  <1>2. Increment(r) \in Indices
    BY IncrementValue
  <1>3. (Increment(r) + k) % Modulus =
          IF Increment(r) + k < Modulus THEN Increment(r) + k
                                        ELSE Increment(r) + k - Modulus
    BY <1>1, <1>2, ForwardValue
  <1>4. (r + (k + 1)) % Modulus =
          IF r + (k + 1) < Modulus THEN r + (k + 1) ELSE r + (k + 1) - Modulus
    BY <1>1, ForwardValue
  <1> QED BY <1>3, <1>4, IncrementValue, CapacityAssumption DEF Indices

(* The empty test of try_pop, read_index == write_index, says no byte is used. *)
LEMMA EmptyMeansNoneUsed ==
  ASSUME NEW r \in Indices, NEW w \in Indices
  PROVE  r = w <=> Distance(r, w) = 0
  <1>1. Distance(r, w) = IF w >= r THEN w - r ELSE w - r + Modulus
    BY DistanceValue
  <1> QED BY <1>1, CapacityAssumption DEF Indices
-----------------------------------------------------------------------------
(* Each step keeps the variables in their types. *)
LEMMA TypeStep == ASSUME TypeOK, [Next]_vars PROVE TypeOK'
  <1>1. CASE PushRejected
    BY <1>1, IncrementValue DEF TypeOK, PushRejected, consumerVars
  <1>2. ASSUME NEW b \in Byte, PushTest(b) PROVE TypeOK'
    BY <1>2 DEF TypeOK, PushTest, consumerVars
  <1>3. CASE PushStore
    BY <1>3 DEF TypeOK, PushStore, consumerVars
  <1>4. CASE PushPublish
    BY <1>4, IncrementValue DEF TypeOK, PushPublish, consumerVars
  <1>5. CASE PopEmpty
    BY <1>5 DEF TypeOK, PopEmpty, producerVars
  <1>6. CASE PopTest
    BY <1>6 DEF TypeOK, PopTest, producerVars
  <1>7. CASE PopCopy
    <2>1. Slot(read_index) \in Slots
      BY SlotRange, CapacityAssumption DEF TypeOK, Indices
    <2> QED BY <1>7, <2>1 DEF TypeOK, PopCopy, producerVars
  <1>8. CASE PopAdvance
    BY <1>8, IncrementValue DEF TypeOK, PopAdvance, producerVars
  <1>9. CASE UNCHANGED vars
    BY <1>9 DEF TypeOK, vars, producerVars, consumerVars
  <1> QED
    BY <1>1, <1>2, <1>3, <1>4, <1>5, <1>6, <1>7, <1>8, <1>9
    DEF Next, Producer, Consumer

(* Type correctness: indices and counter stay uint32_t values and every
   access to storage is inside it, for every capacity and index width. *)
THEOREM TypeCorrect == Spec => []TypeOK
  <1>1. Init => TypeOK
    <2>1. 0 \in Indices
      BY CapacityAssumption DEF Indices
    <2> QED BY <2>1 DEF Init, TypeOK
  <1>2. TypeOK /\ [Next]_vars => TypeOK'
    BY TypeStep
  <1> QED BY <1>1, <1>2, PTL DEF Spec
-----------------------------------------------------------------------------
(* The inductive invariant.  NeverOverfull alone is not inductive: the slot  *)
(* arithmetic needs the index ranges, and the refinement needs to know that  *)
(* the byte about to be published or delivered is the byte of its slot.      *)
IInv == TypeOK /\ NeverOverfull /\ InFlightBytes

(* What the two indices say about the unread slots. *)
LEMMA UsedFacts ==
  ASSUME TypeOK
  PROVE  /\ Used \in Indices
         /\ IsEmpty <=> Used = 0
         /\ UnreadSlot(Used) = Slot(write_index)
         /\ UnreadSlot(0) = Slot(read_index)
         /\ \A k \in Nat : UnreadSlot(k) \in Slots
  <1>1. read_index \in Indices /\ write_index \in Indices
    BY DEF TypeOK
  <1>2. Used \in Indices
    BY <1>1, DistanceValue DEF Used
  <1>3. IsEmpty <=> Used = 0
    BY <1>1, EmptyMeansNoneUsed DEF Used, IsEmpty
  <1>4. UnreadSlot(Used) = Slot(write_index)
    BY <1>1, WriteEndsUnread DEF Used, UnreadSlot
  <1>5. (read_index + 0) % Modulus = read_index
    <2>1. 0 \in 0 .. Modulus
      BY CapacityAssumption
    <2>2. (read_index + 0) % Modulus =
            IF read_index + 0 < Modulus THEN read_index + 0 ELSE read_index + 0 - Modulus
      BY <1>1, <2>1, ForwardValue
    <2> QED BY <1>1, <2>2, CapacityAssumption DEF Indices
  <1>6. ASSUME NEW k \in Nat PROVE UnreadSlot(k) \in Slots
    <2>1. read_index + k \in Int
      BY <1>1, CapacityAssumption DEF Indices
    <2>2. (read_index + k) % Modulus \in Int
      BY <2>1, ModRange, CapacityAssumption
    <2> QED BY <2>2, SlotRange DEF UnreadSlot
  <1> QED BY <1>2, <1>3, <1>4, <1>5, <1>6 DEF UnreadSlot

(* With a byte of room, the slot try_push writes holds no unread byte. *)
LEMMA FreeSlot ==
  ASSUME TypeOK, Used < Capacity
  PROVE  \A k \in 0 .. Used - 1 : UnreadSlot(k) # Slot(write_index)
  <1> SUFFICES ASSUME NEW k \in 0 .. Used - 1
               PROVE  UnreadSlot(k) # Slot(write_index)
    OBVIOUS
  <1>1. Used \in Indices /\ UnreadSlot(Used) = Slot(write_index)
    BY UsedFacts
  <1>2. Used \in Slots /\ k \in Slots /\ k # Used
    BY <1>1, CapacityAssumption DEF Indices, Slots
  <1>3. read_index \in Indices
    BY DEF TypeOK
  <1>4. UnreadSlot(k) # UnreadSlot(Used)
    BY <1>2, <1>3, SlotsDiffer DEF UnreadSlot
  <1> QED BY <1>1, <1>4

(* The publish step adds one unread slot and moves none. *)
LEMMA PublishFacts ==
  ASSUME TypeOK, Used < Capacity, PushPublish
  PROVE  /\ Used' = Used + 1
         /\ \A k : UnreadSlot(k)' = UnreadSlot(k)
  <1>1. write_index \in Indices /\ read_index \in Indices
    BY DEF TypeOK
  <1>2. Distance(read_index, Increment(write_index)) = Distance(read_index, write_index) + 1
    BY <1>1, UsedAfterPublish DEF Used
  <1> QED BY <1>2 DEF PushPublish, Used, UnreadSlot

(* The advance step removes the oldest unread slot and renumbers the rest. *)
LEMMA AdvanceFacts ==
  ASSUME TypeOK, Used > 0, PopAdvance
  PROVE  /\ Used' = Used - 1
         /\ \A k \in 0 .. Modulus - 1 : UnreadSlot(k)' = UnreadSlot(k + 1)
  <1>1. write_index \in Indices /\ read_index \in Indices
    BY DEF TypeOK
  <1>2. Distance(Increment(read_index), write_index) = Distance(read_index, write_index) - 1
    BY <1>1, UsedAfterAdvance DEF Used
  <1>3. \A k \in 0 .. Modulus - 1 :
          (Increment(read_index) + k) % Modulus = (read_index + (k + 1)) % Modulus
    BY <1>1, ForwardFromNext
  <1> QED BY <1>2, <1>3 DEF PopAdvance, Used, UnreadSlot

(* The inductive invariant holds after lib_ringbuf_init. *)
LEMMA IInvInit == Init => IInv
  <1> SUFFICES ASSUME Init PROVE IInv
    OBVIOUS
  <1>1. 0 \in Indices
    BY CapacityAssumption DEF Indices
  <1>2. TypeOK
    BY <1>1 DEF Init, TypeOK
  <1>3. Used = 0
    BY <1>2, UsedFacts DEF Init, IsEmpty
  <1> QED BY <1>2, <1>3, CapacityAssumption DEF Init, IInv, NeverOverfull, InFlightBytes

(* Every step of either side preserves the inductive invariant. *)
LEMMA IInvStep ==
  ASSUME IInv, TypeOK', [Next]_vars
  PROVE  IInv'
  <1> USE DEF IInv
  <1>0. Used \in Indices /\ write_index \in Indices /\ read_index \in Indices
           /\ Used \in Int
    BY UsedFacts, CapacityAssumption DEF TypeOK, Indices
  <1>1. CASE PushRejected
    <2>1. Used' = Used /\ \A k : UnreadSlot(k)' = UnreadSlot(k)
      BY <1>1 DEF PushRejected, Used, UnreadSlot
    <2> QED BY <1>1, <2>1
        DEF PushRejected, consumerVars, NeverOverfull, InFlightBytes
  <1>2. ASSUME NEW b \in Byte, PushTest(b) PROVE IInv'
    <2>1. Used' = Used /\ \A k : UnreadSlot(k)' = UnreadSlot(k)
      BY <1>2 DEF PushTest, Used, UnreadSlot
    <2>2. Used < Capacity
      BY <1>0, <1>2, CapacityAssumption DEF PushTest, IsFull, NeverOverfull
    <2> QED BY <1>2, <2>1, <2>2
        DEF PushTest, consumerVars, NeverOverfull, InFlightBytes
  <1>3. CASE PushStore
    <2>1. Used' = Used /\ \A k : UnreadSlot(k)' = UnreadSlot(k)
      BY <1>3 DEF PushStore, Used, UnreadSlot
    <2>2. Used < Capacity
      BY <1>3 DEF PushStore, NeverOverfull
    <2>3. NeverOverfull'
      BY <1>3, <2>1, <2>2 DEF PushStore, consumerVars, NeverOverfull
    <2>4. Slot(write_index) \in Slots
      BY <1>0, SlotRange, CapacityAssumption DEF Indices
    <2>5. storage'[Slot(write_index)] = push_byte /\ push_byte \in Byte
      BY <1>3, <2>4 DEF PushStore, TypeOK, InFlightBytes
    <2>6. ASSUME NEW k \in 0 .. Used - 1
          PROVE  storage'[UnreadSlot(k)] = storage[UnreadSlot(k)]
      <3>1. UnreadSlot(k) # Slot(write_index)
        BY <2>2, FreeSlot
      <3>2. UnreadSlot(k) \in Slots
        BY <1>0, UsedFacts
      <3> QED BY <1>3, <3>1, <3>2 DEF PushStore, TypeOK
    <2>7. pop_pc = "advance" => storage'[Slot(read_index)] = storage[Slot(read_index)]
      <3>1. pop_pc = "advance" => 0 \in 0 .. Used - 1
        BY <1>0 DEF NeverOverfull
      <3> QED BY <2>6, <3>1, UsedFacts
    <2>8. InFlightBytes'
      <3>1. push_pc' # "idle" => push_byte' \in Byte
        BY <1>3, <2>5 DEF PushStore
      <3>2. push_pc' = "publish" => storage'[Slot(write_index')] = push_byte'
        BY <1>3, <2>5 DEF PushStore
      <3>3. pop_pc' = "advance" => pop_byte' = storage'[Slot(read_index')]
        BY <1>3, <2>7 DEF PushStore, consumerVars, InFlightBytes
      <3>4. \A k \in 0 .. Used' - 1 : storage'[UnreadSlot(k)'] \in Byte
        BY <2>1, <2>6 DEF InFlightBytes
      <3> QED BY <3>1, <3>2, <3>3, <3>4 DEF InFlightBytes
    <2> QED BY <2>3, <2>8
  <1>4. CASE PushPublish
    <2>0. Used < Capacity
      BY <1>4 DEF PushPublish, NeverOverfull
    <2>1. Used' = Used + 1 /\ \A k : UnreadSlot(k)' = UnreadSlot(k)
      BY <1>4, <2>0, PublishFacts
    <2>2. NeverOverfull'
      BY <1>0, <1>4, <2>0, <2>1, CapacityAssumption
      DEF PushPublish, consumerVars, NeverOverfull
    <2>3. storage[UnreadSlot(Used)] \in Byte
      BY <1>4, UsedFacts DEF PushPublish, InFlightBytes
    <2>4. \A k \in 0 .. Used' - 1 : storage'[UnreadSlot(k)'] \in Byte
      BY <1>0, <1>4, <2>1, <2>3 DEF PushPublish, InFlightBytes
    <2> QED BY <1>4, <2>2, <2>4 DEF PushPublish, consumerVars, InFlightBytes
  <1>5. CASE PopEmpty
    <2>1. Used' = Used /\ \A k : UnreadSlot(k)' = UnreadSlot(k)
      BY <1>5 DEF PopEmpty, Used, UnreadSlot
    <2> QED BY <1>5, <2>1 DEF PopEmpty, producerVars, NeverOverfull, InFlightBytes
  <1>6. CASE PopTest
    <2>1. Used' = Used /\ \A k : UnreadSlot(k)' = UnreadSlot(k)
      BY <1>6 DEF PopTest, Used, UnreadSlot
    <2>2. Used > 0
      BY <1>0, <1>6, UsedFacts, CapacityAssumption DEF PopTest, Indices
    <2> QED BY <1>6, <2>1, <2>2 DEF PopTest, producerVars, NeverOverfull, InFlightBytes
  <1>7. CASE PopCopy
    <2>1. Used' = Used /\ \A k : UnreadSlot(k)' = UnreadSlot(k)
      BY <1>7 DEF PopCopy, Used, UnreadSlot
    <2> QED BY <1>7, <2>1 DEF PopCopy, producerVars, NeverOverfull, InFlightBytes
  <1>8. CASE PopAdvance
    <2>0. Used > 0
      BY <1>8 DEF PopAdvance, NeverOverfull
    <2>1. Used' = Used - 1
             /\ \A k \in 0 .. Modulus - 1 : UnreadSlot(k)' = UnreadSlot(k + 1)
      BY <1>8, <2>0, AdvanceFacts
    <2>2. NeverOverfull'
      BY <1>0, <1>8, <2>0, <2>1, CapacityAssumption
      DEF PopAdvance, producerVars, NeverOverfull
    <2>3. ASSUME NEW k \in 0 .. Used' - 1 PROVE storage'[UnreadSlot(k)'] \in Byte
      <3>1. k \in 0 .. Modulus - 1 /\ k + 1 \in 0 .. Used - 1
        BY <1>0, <2>1, CapacityAssumption DEF Indices
      <3> QED BY <1>8, <2>1, <3>1 DEF PopAdvance, InFlightBytes
    <2> QED BY <1>8, <2>2, <2>3 DEF PopAdvance, producerVars, InFlightBytes
  <1>9. CASE UNCHANGED vars
    <2>1. Used' = Used /\ \A k : UnreadSlot(k)' = UnreadSlot(k)
      BY <1>9 DEF vars, Used, UnreadSlot
    <2> QED BY <1>9, <2>1
        DEF vars, producerVars, consumerVars, NeverOverfull, InFlightBytes
  <1> QED
    BY <1>1, <1>2, <1>3, <1>4, <1>5, <1>6, <1>7, <1>8, <1>9
    DEF Next, Producer, Consumer

(* The inductive invariant holds in every reachable state. *)
LEMMA IInvHolds == Spec => []IInv
  <1>1. IInv /\ TypeOK' /\ [Next]_vars => IInv'
    BY IInvStep
  <1> QED BY <1>1, IInvInit, TypeCorrect, PTL DEF Spec

(* However try_push and try_pop interrupt each other, the ring is never
   overfull, an unread byte is never overwritten, and the bytes in flight are
   those of their slots; for every capacity that divides the index range. *)
THEOREM RingSafety == Spec => []RingSafe
  <1>1. IInv => NeverOverfull /\ NoOverwrite /\ InFlightBytes
    BY FreeSlot DEF IInv, NeverOverfull, NoOverwrite
  <1>2. IInv => RingSafe
    BY <1>1 DEF IInv, RingSafe
  <1> QED BY <1>2, IInvHolds, PTL
-----------------------------------------------------------------------------
(* A function on 1 .. n is a sequence of length n. *)
LEMMA FunctionIsSeq ==
  ASSUME NEW S, NEW n \in Nat, NEW f \in [1 .. n -> S]
  PROVE  f \in Seq(S) /\ Len(f) = n
  OBVIOUS

(* Sequences that agree position by position are equal. *)
LEMMA SeqEqual ==
  ASSUME NEW S, NEW s \in Seq(S), NEW t \in Seq(S), Len(s) = Len(t),
         \A k \in 1 .. Len(s) : s[k] = t[k]
  PROVE  s = t
  OBVIOUS

(* Contents, a function on 1 .. Used, is a sequence of bytes. *)
ContentsFacts ==
  /\ Contents \in Seq(Byte)
  /\ Len(Contents) = Used
  /\ Used \in Nat
  /\ \A k \in 1 .. Used : Contents[k] = storage[UnreadSlot(k - 1)]

(* The invariant makes Contents a sequence of bytes of length Used: no slot  *)
(* between the two indices is an unwritten one.                              *)
LEMMA ContentsIsSeq == IInv => ContentsFacts
  <1> SUFFICES ASSUME IInv PROVE ContentsFacts
    OBVIOUS
  <1>1. Used \in Nat
    BY UsedFacts, CapacityAssumption DEF IInv, Indices
  <1>2. Contents \in [1 .. Used -> Byte]
    BY <1>1 DEF Contents, IInv, InFlightBytes
  <1>3. Contents \in Seq(Byte) /\ Len(Contents) = Used
    BY <1>1, <1>2, FunctionIsSeq
  <1> QED BY <1>1, <1>3 DEF Contents, ContentsFacts

(* The same fact about the next state. *)
LEMMA ContentsIsSeqNext == IInv' => ContentsFacts'
  BY ContentsIsSeq, PTL

(* The initialised ring is the empty queue. *)
LEMMA RefinedInit == Init => Fifo!Init
  <1> SUFFICES ASSUME Init PROVE Fifo!Init
    OBVIOUS
  <1>1. IInv
    BY IInvInit
  <1>2. Used = 0
    BY <1>1, UsedFacts DEF Init, IsEmpty, IInv
  <1>3. Contents = << >>
    BY <1>1, <1>2, ContentsIsSeq DEF ContentsFacts
  <1> QED BY <1>3 DEF Init, Fifo!Init

(* Each step of the ring is one step of the queue or none: the publish, the
   advance and the two failing tests are where the operations take effect. *)
LEMMA RefinedStep ==
  ASSUME IInv, IInv', [Next]_vars
  PROVE  [Fifo!Next]_(Fifo!vars)
  <1>0. ContentsFacts /\ ContentsFacts'
    BY ContentsIsSeq, ContentsIsSeqNext
  <1> USE DEF ContentsFacts
  <1>1. CASE PushRejected
    <2>1. Contents' = Contents
      BY <1>1 DEF PushRejected, Contents, Used, UnreadSlot
    <2>2. Fifo!PushRejected
      BY <1>0, <1>1, <2>1
      DEF PushRejected, consumerVars, IsFull, Increment, Fifo!PushRejected
    <2> QED BY <2>2 DEF Fifo!Next
  <1>2. ASSUME NEW b \in Byte, PushTest(b) PROVE UNCHANGED Fifo!vars
    BY <1>2 DEF PushTest, consumerVars, Contents, Used, UnreadSlot, Fifo!vars
  <1>3. CASE PushStore
    <2>1. Used' = Used /\ \A k : UnreadSlot(k)' = UnreadSlot(k)
      BY <1>3 DEF PushStore, Used, UnreadSlot
    <2>2. Used < Capacity
      BY <1>3 DEF IInv, PushStore, NeverOverfull
    <2>3. ASSUME NEW k \in 1 .. Used PROVE Contents'[k] = Contents[k]
      <3>1. k - 1 \in 0 .. Used - 1
        BY <1>0
      <3>2. UnreadSlot(k - 1) # Slot(write_index) /\ UnreadSlot(k - 1) \in Slots
        BY <2>2, <3>1, FreeSlot, UsedFacts DEF IInv
      <3> QED BY <1>0, <1>3, <2>1, <3>2 DEF PushStore, IInv, TypeOK
    <2>4. Contents' = Contents
      BY <1>0, <2>1, <2>3, SeqEqual
    <2> QED BY <1>3, <2>4 DEF PushStore, consumerVars, Fifo!vars
  <1>4. CASE PushPublish
    <2>0. Used < Capacity /\ push_byte \in Byte /\ storage[Slot(write_index)] = push_byte
      BY <1>4 DEF IInv, PushPublish, NeverOverfull, InFlightBytes
    <2>1. Used' = Used + 1 /\ \A k : UnreadSlot(k)' = UnreadSlot(k)
      BY <1>4, <2>0, PublishFacts DEF IInv
    <2>2. ASSUME NEW k \in 1 .. Used + 1
          PROVE  Contents'[k] = Append(Contents, push_byte)[k]
      <3>1. CASE k \in 1 .. Used
        BY <1>0, <1>4, <2>0, <2>1, <3>1 DEF PushPublish
      <3>2. CASE k = Used + 1
        <4>1. UnreadSlot(k - 1) = Slot(write_index)
          BY <1>0, <3>2, UsedFacts DEF IInv
        <4> QED BY <1>0, <1>4, <2>0, <2>1, <3>2, <4>1 DEF PushPublish
      <3> QED BY <1>0, <3>1, <3>2
    <2>3. Append(Contents, push_byte) \in Seq(Byte)
             /\ Len(Append(Contents, push_byte)) = Used + 1
      BY <1>0, <2>0
    <2>4. Contents' = Append(Contents, push_byte)
      BY <1>0, <2>1, <2>2, <2>3, SeqEqual
    <2>5. Fifo!Push(push_byte)
      BY <1>0, <1>4, <2>0, <2>4 DEF PushPublish, consumerVars, Fifo!Push
    <2> QED BY <2>0, <2>5 DEF Fifo!Next
  <1>5. CASE PopEmpty
    <2>1. Contents' = Contents
      BY <1>5 DEF PopEmpty, Contents, Used, UnreadSlot
    <2>2. Used = 0
      BY <1>5, UsedFacts DEF PopEmpty, IInv
    <2>3. Fifo!PopEmpty
      BY <1>0, <1>5, <2>1, <2>2 DEF PopEmpty, producerVars, Fifo!PopEmpty
    <2> QED BY <2>3 DEF Fifo!Next
  <1>6. CASE PopTest
    BY <1>6 DEF PopTest, producerVars, Contents, Used, UnreadSlot, Fifo!vars
  <1>7. CASE PopCopy
    BY <1>7 DEF PopCopy, producerVars, Contents, Used, UnreadSlot, Fifo!vars
  <1>8. CASE PopAdvance
    <2>0. Used > 0 /\ pop_byte = storage[Slot(read_index)]
      BY <1>8 DEF IInv, PopAdvance, NeverOverfull, InFlightBytes
    <2>1. Used' = Used - 1
             /\ \A k \in 0 .. Modulus - 1 : UnreadSlot(k)' = UnreadSlot(k + 1)
      BY <1>8, <2>0, AdvanceFacts DEF IInv
    <2>2. ASSUME NEW k \in 1 .. Used - 1
          PROVE  Contents'[k] = Tail(Contents)[k]
      <3>1. k - 1 \in 0 .. Modulus - 1 /\ (k - 1) + 1 = k /\ k \in 1 .. Used'
               /\ k + 1 \in 1 .. Used /\ (k + 1) - 1 = k
        BY <1>0, <2>1, UsedFacts, CapacityAssumption DEF IInv, Indices
      <3>2. Contents'[k] = storage'[UnreadSlot(k - 1)']
        BY <1>0, <3>1
      <3>3. UnreadSlot(k - 1)' = UnreadSlot(k)
        BY <2>1, <3>1
      <3>4. Contents[k + 1] = storage[UnreadSlot(k)]
        BY <1>0, <3>1
      <3>5. Tail(Contents)[k] = Contents[k + 1]
        BY <1>0, <2>0
      <3> QED BY <1>8, <3>2, <3>3, <3>4, <3>5 DEF PopAdvance
    <2>3. Tail(Contents) \in Seq(Byte) /\ Len(Tail(Contents)) = Used - 1
      BY <1>0, <2>0
    <2>4. Contents' = Tail(Contents)
      BY <1>0, <2>1, <2>2, <2>3, SeqEqual
    <2>5. Head(Contents) = pop_byte
      <3>1. Head(Contents) = Contents[1] /\ 1 \in 1 .. Used
        BY <1>0, <2>0
      <3>2. Contents[1] = storage[UnreadSlot(0)]
        BY <1>0, <3>1
      <3> QED BY <2>0, <3>1, <3>2, UsedFacts DEF IInv
    <2>6. Fifo!Pop
      BY <1>0, <1>8, <2>0, <2>4, <2>5 DEF PopAdvance, producerVars, Fifo!Pop
    <2> QED BY <2>6 DEF Fifo!Next
  <1>9. CASE UNCHANGED vars
    BY <1>9 DEF vars, producerVars, consumerVars, Contents, Used, UnreadSlot, Fifo!vars
  <1> QED
    BY <1>1, <1>2, <1>3, <1>4, <1>5, <1>6, <1>7, <1>8, <1>9
    DEF Next, Producer, Consumer

(* lib_ringbuf implements the bounded queue RingFifo for every capacity,
   index width and byte set: order, loss-freedom, the full and empty answers
   and the drop count. *)
THEOREM RingImplementsFifo == Spec => ImplementsFifo
  <1>1. IInv /\ IInv' /\ [Next]_vars => [Fifo!Next]_(Fifo!vars)
    BY RefinedStep
  <1> QED BY <1>1, RefinedInit, IInvHolds, PTL DEF Spec, ImplementsFifo, Fifo!Spec
=============================================================================
