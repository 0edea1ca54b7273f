------------------------ MODULE RegmapSnapshotProofs ------------------------
(***************************************************************************)
(* Proofs about the page snapshot of lib/lib_regmap.c for every number of  *)
(* readers, page length, byte set and width of the reader counts.          *)
(***************************************************************************)
EXTENDS RegmapSnapshot, FiniteSetTheorems, TLAPS

(* A remainder lies below its divisor. *)
LEMMA ModRange ==
  ASSUME NEW x \in Int, NEW n \in Nat \ {0}
  PROVE  x % n \in 0 .. n - 1
  OBVIOUS

(* Division with remainder. *)
LEMMA ModQuotient ==
  ASSUME NEW x \in Int, NEW n \in Nat \ {0}
  PROVE  x = n * (x \div n) + (x % n) /\ (x \div n) \in Int
  OBVIOUS

(* The only multiple of n strictly between -n and n is zero. *)
LEMMA MulBound ==
  ASSUME NEW q \in Int, NEW n \in Nat \ {0}, n * q < n, n * q > -n
  PROVE  q = 0
  <1>1. CASE q >= 1
    BY <1>1, n * q >= n
  <1>2. CASE q <= -1
    BY <1>2, n * q <= -n
  <1> QED BY <1>1, <1>2

(* A remainder is determined by any decomposition x = n*q + r. *)
LEMMA ModUnique ==
  ASSUME NEW n \in Nat \ {0}, NEW q \in Int, NEW r \in 0 .. n - 1
  PROVE  (n * q + r) % n = r
  <1> DEFINE x == n * q + r
  <1>0. x \in Int OBVIOUS
  <1>1. x = n * (x \div n) + (x % n) /\ (x \div n) \in Int
    BY <1>0, ModQuotient
  <1>2. x % n \in 0 .. n - 1
    BY <1>0, ModRange
  <1>3. n * (q - (x \div n)) = (x % n) - r
    BY <1>1, <1>2
  <1>4. q - (x \div n) = 0
    BY <1>1, <1>2, <1>3, MulBound
  <1> QED BY <1>1, <1>2, <1>3, <1>4

(* ... and so is the quotient. *)
LEMMA DivUnique ==
  ASSUME NEW n \in Nat \ {0}, NEW q \in Int, NEW r \in 0 .. n - 1
  PROVE  (n * q + r) \div n = q
  <1> DEFINE x == n * q + r
  <1>0. x \in Int OBVIOUS
  <1>1. x = n * (x \div n) + (x % n) /\ (x \div n) \in Int
    BY <1>0, ModQuotient
  <1>2. x % n = r
    BY ModUnique
  <1>3. n * (q - (x \div n)) = 0
    BY <1>1, <1>2
  <1>4. q - (x \div n) = 0
    BY <1>1, <1>3, MulBound
  <1> QED BY <1>1, <1>4
-----------------------------------------------------------------------------
(* The word whose active bit is a and whose reader counts are c0 and c1. *)
Pack(a, c0, c1) == a + 2 * c0 + 2 * Field * c1

(* Packing and unpacking are inverse while the counts fit their fields, so *)
(* the shifts and masks of the code select what was packed.                *)
LEMMA Decode ==
  ASSUME NEW a \in 0 .. 1, NEW c0 \in 0 .. ReaderMax, NEW c1 \in 0 .. ReaderMax
  PROVE  /\ Pack(a, c0, c1) \in Nat
         /\ Active(Pack(a, c0, c1)) = a
         /\ ReaderCount(Pack(a, c0, c1), 0) = c0
         /\ ReaderCount(Pack(a, c0, c1), 1) = c1
         /\ Flip(Pack(a, c0, c1)) = Pack(Other(a), c0, c1)
  <1> DEFINE w == Pack(a, c0, c1)
  <1>0. Field \in Nat \ {0} /\ 2 * Field \in Nat \ {0} /\ ReaderMax \in Nat
    BY SnapshotAssumption DEF Field
  <1>1. Field * c1 \in Nat
    BY <1>0
  <1>2. w \in Nat
    BY <1>0, <1>1 DEF Pack
  <1>3. w = 2 * (c0 + Field * c1) + a
    BY <1>0, <1>1 DEF Pack
  <1>4. w % 2 = a /\ w \div 2 = c0 + Field * c1
    BY <1>0, <1>1, <1>3, ModUnique, DivUnique
  <1>5. (Field * c1 + c0) % Field = c0
    <2>1. c0 \in 0 .. Field - 1
      BY <1>0 DEF Field
    <2> QED BY <1>0, <2>1, ModUnique
  <1>6. w = (2 * Field) * c1 + (a + 2 * c0)
    BY <1>0, <1>1 DEF Pack
  <1>7. w \div (2 * Field) = c1
    <2>1. a + 2 * c0 \in 0 .. (2 * Field) - 1
      BY <1>0 DEF Field
    <2> QED BY <1>0, <1>6, <2>1, DivUnique
  <1>8. c1 % Field = c1
    <2>1. c1 \in 0 .. Field - 1
      BY <1>0 DEF Field
    <2>2. (Field * 0 + c1) % Field = c1
      BY <1>0, <2>1, ModUnique
    <2>3. Field * 0 + c1 = c1
      BY <1>0
    <2> QED BY <2>2, <2>3
  <1>9. Flip(w) = Pack(Other(a), c0, c1)
    BY <1>0, <1>1, <1>4 DEF Flip, Pack, Other
  <1> QED
    BY <1>0, <1>1, <1>2, <1>4, <1>5, <1>7, <1>8, <1>9
    DEF Active, ReaderCount, ReaderOne
-----------------------------------------------------------------------------
(* Where the publisher is in its copy, and that acquire runs only without  *)
(* a latch.                                                                *)
ControlOK ==
  /\ pub_pc = "copy" => index < Length
  /\ pub_pc = "exchange" => index = Length
  /\ \A r \in Readers : read_pc[r] = "exchange" => held[r] = NoBuffer

(* The inductive invariant. *)
IInv == TypeOK /\ CountsExact /\ CopyUndisturbed /\ ControlOK

Count(b) == Cardinality(Holders(b))

(* What the packed word says in a state in which the counts are exact. *)
LEMMA WordFacts ==
  ASSUME TypeOK, CountsExact
  PROVE  /\ Active(state) \in 0 .. 1
         /\ Count(0) \in 0 .. ReaderMax /\ Count(1) \in 0 .. ReaderMax
         /\ \A b : IsFiniteSet(Holders(b))
         /\ state = Pack(Active(state), Count(0), Count(1))
         /\ ReaderCount(state, 0) = Count(0) /\ ReaderCount(state, 1) = Count(1)
         /\ Flip(state) = Pack(Other(Active(state)), Count(0), Count(1))
  <1>1. Active(state) \in 0 .. 1
    BY ModRange DEF TypeOK, Active
  <1>2. ASSUME NEW b PROVE IsFiniteSet(Holders(b))
    BY SnapshotAssumption, FS_Subset DEF Holders
  <1>3. Count(0) \in 0 .. ReaderMax /\ Count(1) \in 0 .. ReaderMax
    BY <1>2, FS_CardinalityType, SnapshotAssumption DEF Count, CountsExact
  <1>4. state = Pack(Active(state), Count(0), Count(1))
    BY DEF CountsExact, Pack, Count
  <1>5. /\ ReaderCount(Pack(Active(state), Count(0), Count(1)), 0) = Count(0)
        /\ ReaderCount(Pack(Active(state), Count(0), Count(1)), 1) = Count(1)
        /\ Flip(Pack(Active(state), Count(0), Count(1)))
             = Pack(Other(Active(state)), Count(0), Count(1))
    BY <1>1, <1>3, Decode
  <1> QED BY <1>1, <1>2, <1>3, <1>4, <1>5

(* A word packed from counts in range is exact for the holders it counts.  *)
LEMMA PackedIsExact ==
  ASSUME NEW a \in 0 .. 1, NEW c0 \in 0 .. ReaderMax, NEW c1 \in 0 .. ReaderMax,
         state' = Pack(a, c0, c1), Count(0)' = c0, Count(1)' = c1
  PROVE  CountsExact' /\ Active(state') = a /\ state' \in Nat
  <1>1. Active(Pack(a, c0, c1)) = a /\ Pack(a, c0, c1) \in Nat
    BY Decode
  <1>2. Active(state') = a /\ state' \in Nat
    BY <1>1
  <1>3. \A b \in 0 .. 1 : Cardinality(Holders(b)') <= ReaderMax
    BY SnapshotAssumption DEF Count
  <1> QED BY <1>2, <1>3 DEF CountsExact, Pack, Count

(* The successful acquire adds its reader to the holders of the active     *)
(* buffer and to nothing else.                                             *)
LEMMA AcquireFacts ==
  ASSUME IInv, NEW r \in Readers, AcquireExchange(r), state = seen[r],
         NEW a \in 0 .. 1, a = Active(state)
  PROVE  /\ CountsExact' /\ Active(state') = a /\ state' \in Nat
         /\ Holders(a)' = Holders(a) \cup {r}
         /\ Holders(Other(a))' = Holders(Other(a))
  <1>1. /\ a \in 0 .. 1
        /\ Count(0) \in 0 .. ReaderMax /\ Count(1) \in 0 .. ReaderMax
        /\ \A b : IsFiniteSet(Holders(b))
        /\ state = Pack(a, Count(0), Count(1))
        /\ ReaderCount(state, 0) = Count(0) /\ ReaderCount(state, 1) = Count(1)
    BY WordFacts DEF IInv
  <1>2. held[r] = NoBuffer /\ held' = [held EXCEPT ![r] = a]
           /\ state' = state + ReaderOne(a) /\ held \in [Readers -> {0, 1, NoBuffer}]
    BY DEF IInv, ControlOK, TypeOK, AcquireExchange
  <1>3. Holders(a)' = Holders(a) \cup {r} /\ r \notin Holders(a)
    <2>1. a # NoBuffer
      BY SnapshotAssumption
    <2>2. r \notin Holders(a)
      BY <1>2, <2>1 DEF Holders
    <2> QED BY <1>2, <2>2 DEF Holders
  <1>4. Holders(Other(a))' = Holders(Other(a))
    <2>1. Other(a) # a /\ Other(a) # NoBuffer
      BY SnapshotAssumption DEF Other
    <2> QED BY <1>2, <2>1 DEF Holders
  <1>5. Count(a)' = Count(a) + 1 /\ Count(Other(a))' = Count(Other(a))
    <2>1. Cardinality(Holders(a) \cup {r}) = Cardinality(Holders(a)) + 1
      BY <1>1, <1>3, FS_AddElement
    <2> QED BY <1>3, <1>4, <2>1 DEF Count
  <1>6. Count(a) # ReaderMax
    BY <1>1 DEF AcquireExchange, Saturated
  <1>7. CASE a = 0
    <2>1. Count(0) + 1 \in 0 .. ReaderMax
      BY <1>1, <1>6, <1>7, SnapshotAssumption
    <2>2. 2 * Field * Count(1) \in Int
      BY <1>1, SnapshotAssumption DEF Field
    <2>3. state' = Pack(a, Count(0) + 1, Count(1))
      BY <1>1, <1>2, <1>7, <2>2, SnapshotAssumption DEF Pack, ReaderOne
    <2> QED BY <1>1, <1>3, <1>4, <1>5, <1>7, <2>1, <2>3, PackedIsExact DEF Other
  <1>8. CASE a = 1
    <2>1. Count(1) + 1 \in 0 .. ReaderMax
      BY <1>1, <1>6, <1>8, SnapshotAssumption
    <2>2. 2 * Field * (Count(1) + 1) = 2 * Field * Count(1) + 2 * Field
             /\ 2 * Field * Count(1) \in Int /\ 2 * Field \in Int
      BY <1>1, SnapshotAssumption DEF Field
    <2>3. state' = Pack(a, Count(0), Count(1) + 1)
      BY <1>1, <1>2, <1>8, <2>2, SnapshotAssumption DEF Pack, ReaderOne
    <2> QED BY <1>1, <1>3, <1>4, <1>5, <1>8, <2>1, <2>3, PackedIsExact DEF Other
  <1> QED BY <1>1, <1>7, <1>8

(* Releasing takes the reader out of the count of the buffer it holds.     *)
LEMMA ReleaseFacts ==
  ASSUME IInv, NEW r \in Readers, Release(r), NEW h \in 0 .. 1, h = held[r],
         NEW a \in 0 .. 1, a = Active(state)
  PROVE  /\ CountsExact' /\ Active(state') = a /\ state' \in Nat
         /\ \A b : b # NoBuffer => Holders(b)' \subseteq Holders(b)
  <1>1. /\ a \in 0 .. 1
        /\ Count(0) \in 0 .. ReaderMax /\ Count(1) \in 0 .. ReaderMax
        /\ \A b : IsFiniteSet(Holders(b))
        /\ state = Pack(a, Count(0), Count(1))
    BY WordFacts DEF IInv
  <1>2. h \in 0 .. 1 /\ held' = [held EXCEPT ![r] = NoBuffer]
           /\ state' = state - ReaderOne(h) /\ held \in [Readers -> {0, 1, NoBuffer}]
    BY DEF IInv, TypeOK, Release
  <1>3. Holders(h)' = Holders(h) \ {r} /\ r \in Holders(h)
    BY <1>1, <1>2, SnapshotAssumption DEF Holders
  <1>4. Holders(Other(h))' = Holders(Other(h))
    <2>1. Other(h) # h /\ Other(h) # NoBuffer
      BY SnapshotAssumption DEF Other
    <2> QED BY <1>2, <2>1 DEF Holders
  <1>5. Count(h)' = Count(h) - 1 /\ Count(Other(h))' = Count(Other(h))
    BY <1>1, <1>3, <1>4, FS_RemoveElement DEF Count
  <1>6. Count(h) # 0
    BY <1>1, <1>3, FS_EmptySet DEF Count
  <1>8. \A b : b # NoBuffer => Holders(b)' \subseteq Holders(b)
    BY <1>2 DEF Holders
  <1>9. CASE h = 0
    <2>1. Count(0) - 1 \in 0 .. ReaderMax
      BY <1>1, <1>6, <1>9, SnapshotAssumption
    <2>2. 2 * Field * Count(1) \in Int
      BY <1>1, SnapshotAssumption DEF Field
    <2>3. state' = Pack(a, Count(0) - 1, Count(1))
      BY <1>1, <1>2, <1>9, <2>2, SnapshotAssumption DEF Pack, ReaderOne
    <2>4. Count(0)' = Count(0) - 1 /\ Count(1)' = Count(1)
      BY <1>5, <1>9 DEF Other
    <2>5. CountsExact' /\ Active(state') = a /\ state' \in Nat
      BY <1>1, <2>1, <2>3, <2>4, PackedIsExact
    <2> QED BY <1>8, <2>5
  <1>10. CASE h = 1
    <2>1. Count(1) - 1 \in 0 .. ReaderMax
      BY <1>1, <1>6, <1>10, SnapshotAssumption
    <2>2. 2 * Field * (Count(1) - 1) = 2 * Field * Count(1) - 2 * Field
             /\ 2 * Field * Count(1) \in Int /\ 2 * Field \in Int
      BY <1>1, SnapshotAssumption DEF Field
    <2>3. state' = Pack(a, Count(0), Count(1) - 1)
      BY <1>1, <1>2, <1>10, <2>2, SnapshotAssumption DEF Pack, ReaderOne
    <2>4. Count(0)' = Count(0) /\ Count(1)' = Count(1) - 1
      BY <1>5, <1>10 DEF Other
    <2>5. CountsExact' /\ Active(state') = a /\ state' \in Nat
      BY <1>1, <2>1, <2>3, <2>4, PackedIsExact
    <2> QED BY <1>8, <2>5
  <1> QED BY <1>2, <1>9, <1>10
-----------------------------------------------------------------------------
(* A step that leaves the word and the latches alone keeps the counts.     *)
LEMMA CountsUnchanged ==
  ASSUME CountsExact, UNCHANGED <<state, held>>
  PROVE  CountsExact' /\ \A b : Holders(b)' = Holders(b)
  <1>1. \A b : Holders(b)' = Holders(b)
    BY DEF Holders
  <1> QED BY <1>1 DEF CountsExact, Active

(* The invariant holds after lib_regmap_snapshot_init. *)
LEMMA IInvInit == Init => IInv
  <1> SUFFICES ASSUME Init PROVE IInv
    OBVIOUS
  <1>1. Holders(0) = {} /\ Holders(1) = {}
    BY SnapshotAssumption DEF Init, Holders
  <1>2. Cardinality(Holders(0)) = 0 /\ Cardinality(Holders(1)) = 0
    BY <1>1, FS_EmptySet
  <1>3. Active(state) = 0
    BY DEF Init, Active
  <1>4. CountsExact
    BY <1>2, <1>3, SnapshotAssumption DEF Init, CountsExact, Field
  <1>5. TypeOK
    BY SnapshotAssumption DEF Init, TypeOK
  <1> QED BY <1>4, <1>5 DEF Init, IInv, CopyUndisturbed, ControlOK

(* Every step of the publisher preserves the invariant. *)
LEMMA PublisherStep ==
  ASSUME IInv, Publisher
  PROVE  IInv'
  <1> USE DEF IInv
  <1>0. /\ Active(state) \in 0 .. 1
        /\ Count(0) \in 0 .. ReaderMax /\ Count(1) \in 0 .. ReaderMax
        /\ \A b : IsFiniteSet(Holders(b))
        /\ ReaderCount(state, 0) = Count(0) /\ ReaderCount(state, 1) = Count(1)
        /\ Flip(state) = Pack(Other(Active(state)), Count(0), Count(1))
    BY WordFacts
  <1>1. CASE PublishRejected
    <2>1. CountsExact' /\ \A b : Holders(b)' = Holders(b)
      BY <1>1, CountsUnchanged DEF PublishRejected
    <2>2. TypeOK'
      BY <1>1, ModRange, SnapshotAssumption DEF PublishRejected, publisher, TypeOK
    <2> QED BY <1>1, <2>1, <2>2
        DEF PublishRejected, publisher, CopyUndisturbed, ControlOK
  <1>2. ASSUME NEW d \in Image, PublishBegin(d) PROVE IInv'
    <2>1. CountsExact' /\ \A b : Holders(b)' = Holders(b)
      BY <1>2, CountsUnchanged DEF PublishBegin
    <2>2. PICK f \in 0 .. 1 : f = Other(Active(state))
      BY <1>0 DEF Other
    <2>3. Count(f) = 0
      BY <1>0, <1>2, <2>2 DEF PublishBegin
    <2>4. Holders(f) = {}
      BY <1>0, <2>3, FS_EmptySet DEF Count
    <2>5. TypeOK'
      BY <1>2, <2>2, SnapshotAssumption DEF PublishBegin, TypeOK
    <2>6. CopyUndisturbed'
      BY <1>2, <2>1, <2>2, <2>4 DEF PublishBegin, CopyUndisturbed
    <2> QED BY <1>2, <2>1, <2>5, <2>6, SnapshotAssumption DEF PublishBegin, ControlOK
  <1>3. CASE PublishCopy
    <2>1. CountsExact' /\ \A b : Holders(b)' = Holders(b)
      BY <1>3, CountsUnchanged DEF PublishCopy
    <2>2. index \in Offsets /\ index \in Nat
      BY <1>3, SnapshotAssumption DEF PublishCopy, TypeOK, ControlOK, Offsets
    <2>3. buffers'[inactive] = [buffers[inactive] EXCEPT ![index] = data[index]]
             /\ buffers' \in [0 .. 1 -> Image]
      BY <1>3, <2>2 DEF PublishCopy, TypeOK, Image
    <2>4. TypeOK'
      BY <1>3, <2>2, <2>3, SnapshotAssumption DEF PublishCopy, TypeOK, Offsets
    <2>5. \A o \in 0 .. index' - 1 : buffers'[inactive'][o] = data'[o]
      <3> SUFFICES ASSUME NEW o \in 0 .. index
                   PROVE  buffers'[inactive][o] = data[o]
        BY <1>3, <2>2 DEF PublishCopy
      <3>1. buffers[inactive] \in Image /\ o \in Offsets
        BY <2>2, SnapshotAssumption DEF TypeOK, Offsets
      <3>2. CASE o = index
        BY <2>2, <2>3, <3>1, <3>2 DEF Image
      <3>3. CASE o # index
        <4>1. o \in 0 .. index - 1
          BY <2>2, <3>3
        <4> QED BY <1>3, <2>3, <3>1, <3>3, <4>1 DEF Image, PublishCopy, CopyUndisturbed
      <3> QED BY <3>2, <3>3
    <2>6. CopyUndisturbed'
      BY <1>3, <2>1, <2>5 DEF PublishCopy, CopyUndisturbed
    <2>7. ControlOK'
      BY <1>3, <2>2, SnapshotAssumption DEF PublishCopy, ControlOK, Offsets
    <2> QED BY <2>1, <2>4, <2>6, <2>7
  <1>4. CASE PublishExchange
    <2>1. Other(Active(pub_seen)) = inactive
      BY <1>4 DEF PublishExchange, CopyUndisturbed
    <2>2. CASE state = pub_seen
      <3>1. PICK f \in 0 .. 1 : f = Other(Active(state))
        BY <1>0 DEF Other
      <3>2. state' = Pack(f, Count(0), Count(1)) /\ held' = held
               /\ pub_pc' = "idle" /\ pub_seen' = state
        BY <1>0, <1>4, <2>1, <2>2, <3>1 DEF PublishExchange
      <3>3. Count(0)' = Count(0) /\ Count(1)' = Count(1)
        BY <3>2 DEF Count, Holders
      <3>4. CountsExact' /\ state' \in Nat
        BY <1>0, <3>2, <3>3, PackedIsExact
      <3>5. TypeOK'
        BY <1>4, <2>1, <3>2, <3>4 DEF PublishExchange, TypeOK
      <3> QED BY <1>4, <3>2, <3>4, <3>5 DEF PublishExchange, CopyUndisturbed, ControlOK
    <2>3. CASE state # pub_seen
      <3>1. state' = state /\ held' = held /\ pub_pc' = pub_pc /\ pub_seen' = state
               /\ rejected_count' = rejected_count
        BY <1>4, <2>1, <2>3 DEF PublishExchange
      <3>2. CountsExact' /\ \A b : Holders(b)' = Holders(b)
        BY <3>1, CountsUnchanged
      <3>3. TypeOK'
        BY <1>4, <3>1 DEF PublishExchange, TypeOK
      <3> QED BY <1>4, <3>1, <3>2, <3>3 DEF PublishExchange, CopyUndisturbed, ControlOK
    <2> QED BY <2>2, <2>3
  <1> QED BY <1>1, <1>2, <1>3, <1>4 DEF Publisher

(* Every step of a reader preserves the invariant. *)
LEMMA ReaderStep ==
  ASSUME IInv, NEW r \in Readers, Reader(r)
  PROVE  IInv'
  <1> USE DEF IInv
  <1>0. PICK a \in 0 .. 1 : a = Active(state)
    BY WordFacts
  <1>1. CASE AcquireLoad(r)
    <2>1. CountsExact' /\ \A b : Holders(b)' = Holders(b)
      BY <1>1, CountsUnchanged DEF AcquireLoad
    <2>2. TypeOK'
      BY <1>1 DEF AcquireLoad, publisher, TypeOK
    <2> QED BY <1>1, <2>1, <2>2
        DEF AcquireLoad, publisher, CopyUndisturbed, ControlOK, TypeOK
  <1>2. CASE AcquireFail(r)
    <2>1. CountsExact' /\ \A b : Holders(b)' = Holders(b)
      BY <1>2, CountsUnchanged DEF AcquireFail
    <2>2. TypeOK'
      BY <1>2 DEF AcquireFail, publisher, TypeOK
    <2> QED BY <1>2, <2>1, <2>2
        DEF AcquireFail, publisher, CopyUndisturbed, ControlOK, TypeOK
  <1>3. CASE AcquireExchange(r) /\ state = seen[r]
    <2>1. /\ CountsExact' /\ Active(state') = a /\ state' \in Nat
          /\ Holders(Other(a))' = Holders(Other(a))
      BY <1>0, <1>3, AcquireFacts
    <2>2. TypeOK'
      BY <1>0, <1>3, <2>1 DEF AcquireExchange, publisher, TypeOK
    <2>3. CopyUndisturbed'
      <3>1. pub_pc # "idle" => inactive = Other(a)
        BY <1>0 DEF CopyUndisturbed
      <3> QED BY <1>0, <1>3, <2>1, <3>1 DEF AcquireExchange, publisher, CopyUndisturbed
    <2>4. ControlOK'
      BY <1>3 DEF AcquireExchange, publisher, ControlOK, TypeOK
    <2> QED BY <2>1, <2>2, <2>3, <2>4
  <1>4. CASE AcquireExchange(r) /\ state # seen[r]
    <2>1. CountsExact' /\ \A b : Holders(b)' = Holders(b)
      BY <1>4, CountsUnchanged DEF AcquireExchange
    <2>2. TypeOK'
      BY <1>4 DEF AcquireExchange, publisher, TypeOK
    <2> QED BY <1>4, <2>1, <2>2
        DEF AcquireExchange, publisher, CopyUndisturbed, ControlOK
  <1>5. ASSUME NEW o \in Offsets, ReadByte(r, o) PROVE IInv'
    <2>1. CountsExact' /\ \A b : Holders(b)' = Holders(b)
      BY <1>5, CountsUnchanged DEF ReadByte
    <2>2. buffers[held[r]][o] \in Value
      BY <1>5 DEF ReadByte, TypeOK, Image
    <2>3. TypeOK'
      BY <1>5, <2>2 DEF ReadByte, publisher, TypeOK
    <2> QED BY <1>5, <2>1, <2>3 DEF ReadByte, publisher, CopyUndisturbed, ControlOK
  <1>6. CASE Release(r)
    <2>0. PICK h \in 0 .. 1 : h = held[r]
      BY <1>6 DEF Release, TypeOK
    <2>1. /\ CountsExact' /\ Active(state') = a /\ state' \in Nat
          /\ \A b : b # NoBuffer => Holders(b)' \subseteq Holders(b)
      BY <1>0, <1>6, <2>0, ReleaseFacts
    <2>2. TypeOK'
      BY <1>6, <2>1 DEF Release, publisher, TypeOK
    <2>3. CopyUndisturbed'
      <3>1. PICK f \in 0 .. 1 : f = inactive /\ f # NoBuffer
        BY SnapshotAssumption DEF TypeOK
      <3> QED BY <1>0, <1>6, <2>1, <3>1 DEF Release, publisher, CopyUndisturbed
    <2>4. ControlOK'
      BY <1>6 DEF Release, publisher, ControlOK, TypeOK
    <2> QED BY <2>1, <2>2, <2>3, <2>4
  <1> QED BY <1>1, <1>2, <1>3, <1>4, <1>5, <1>6 DEF Reader

(* The inductive invariant holds in every reachable state. *)
LEMMA IInvHolds == Spec => []IInv
  <1>1. IInv /\ [Next]_vars => IInv'
    <2> SUFFICES ASSUME IInv, [Next]_vars PROVE IInv'
      OBVIOUS
    <2>1. CASE UNCHANGED vars
      <3>1. CountsExact' /\ \A b : Holders(b)' = Holders(b)
        BY <2>1, CountsUnchanged DEF vars, IInv
      <3> QED BY <2>1, <3>1
          DEF vars, publisher, IInv, TypeOK, CopyUndisturbed, ControlOK
    <2> QED BY <2>1, PublisherStep, ReaderStep DEF Next
  <1> QED BY <1>1, IInvInit, PTL DEF Spec

(* Type correctness and, for any number of readers and any count width,    *)
(* exact reader counts in the packed word and an undisturbed copy.         *)
THEOREM SnapshotSafety == Spec => []SnapshotSafe
  <1>1. IInv => SnapshotSafe
    BY DEF IInv, SnapshotSafe
  <1> QED BY <1>1, IInvHolds, PTL

(* No step changes a buffer that a reader holds: only publish's copy loop  *)
(* writes, and only to the buffer that CopyUndisturbed keeps free.         *)
LEMMA HeldStep ==
  ASSUME IInv, [Next]_vars, NEW r \in Readers, held[r] # NoBuffer
  PROVE  buffers'[held[r]] = buffers[held[r]]
  <1>1. CASE PublishCopy
    <2>1. held[r] # inactive
      BY <1>1 DEF IInv, CopyUndisturbed, Holders, PublishCopy
    <2>2. held[r] \in 0 .. 1 /\ buffers \in [0 .. 1 -> Image]
      BY DEF IInv, TypeOK
    <2> QED BY <1>1, <2>1, <2>2 DEF PublishCopy
  <1>2. ASSUME ~ PublishCopy PROVE buffers' = buffers
    <2>1. CASE Publisher
      BY <1>2, <2>1 DEF Publisher, PublishRejected, PublishBegin, PublishExchange
    <2>2. ASSUME NEW q \in Readers, Reader(q) PROVE buffers' = buffers
      BY <2>2 DEF Reader, AcquireLoad, AcquireFail, AcquireExchange, ReadByte,
                  Release
    <2>3. CASE UNCHANGED vars
      BY <2>3 DEF vars
    <2> QED BY <2>1, <2>2, <2>3 DEF Next
  <1> QED BY <1>1, <1>2

(* The image a transaction has latched never changes under it, for any     *)
(* number of readers, page length and count width.                         *)
THEOREM HeldImagesAreStable == Spec => HeldImageStable
  <1>1. IInv /\ [Next]_vars =>
          [\A r \in Readers :
             held[r] # NoBuffer => buffers'[held[r]] = buffers[held[r]]]_vars
    BY HeldStep
  <1> QED BY <1>1, IInvHolds, PTL DEF Spec, HeldImageStable
-----------------------------------------------------------------------------
(* What a reader's latch and the published image are in SnapshotRegister.  *)
Published == buffers[Active(state)]

Entry(r) ==
  IF held[r] = NoBuffer THEN NoBuffer
  ELSE [image |-> buffers[held[r]], current |-> held[r] = Active(state)]

Latch == [r \in Readers |-> Entry(r)]

LEMMA EntryFacts ==
  ASSUME TypeOK, NEW r \in Readers
  PROVE  /\ Entry(r) = NoBuffer <=> held[r] = NoBuffer
         /\ held[r] # NoBuffer =>
              /\ Entry(r).image = buffers[held[r]]
              /\ Entry(r).current <=> held[r] = Active(state)
  <1>1. CASE held[r] = NoBuffer
    BY <1>1 DEF Entry
  <1>2. CASE held[r] # NoBuffer
    <2>1. buffers[held[r]] \in Image /\ (held[r] = Active(state)) \in BOOLEAN
      BY <1>2 DEF TypeOK
    <2>2. Entry(r) \in [image : Image, current : BOOLEAN]
      BY <1>2, <2>1 DEF Entry
    <2>3. Entry(r) # NoBuffer
      BY <2>2, SnapshotAssumption DEF Image, Offsets
    <2> QED BY <1>2, <2>3 DEF Entry
  <1> QED BY <1>1, <1>2

(* The superseded images of the register are those of the other buffer. *)
LEMMA SupersededFacts ==
  ASSUME TypeOK, CountsExact
  PROVE  Snapshot!Superseded = Holders(Other(Active(state)))
  <1>1. Snapshot!Superseded = {r \in Readers : Entry(r) # NoBuffer /\ ~ Entry(r).current}
    BY DEF Snapshot!Superseded, Entry
  <1>2. Active(state) \in 0 .. 1
    BY WordFacts
  <1>3. ASSUME NEW r \in Readers
        PROVE  (Entry(r) # NoBuffer /\ ~ Entry(r).current)
                 <=> held[r] = Other(Active(state))
    <2>1. held[r] \in {0, 1, NoBuffer}
      BY DEF TypeOK
    <2> QED BY <1>2, <2>1, EntryFacts, SnapshotAssumption DEF Other
  <1> QED BY <1>1, <1>3 DEF Holders

(* A step that keeps the image, the entries, the values and the counter is *)
(* none of the register's.                                                 *)
LEMMA RegisterStutters ==
  ASSUME Published' = Published, \A r \in Readers : Entry(r)' = Entry(r),
         UNCHANGED <<value, rejected_count>>
  PROVE  UNCHANGED Snapshot!vars
  BY DEF Snapshot!vars, Published, Entry

(* One reader's entry changes, the image does not. *)
LEMMA OneEntry ==
  ASSUME TypeOK, NEW r \in Readers, NEW h \in {0, 1, NoBuffer},
         held' = [held EXCEPT ![r] = h], buffers' = buffers,
         Active(state') = Active(state)
  PROVE  /\ Published' = Published
         /\ \A q \in Readers \ {r} : Entry(q)' = Entry(q)
         /\ held'[r] = h
  <1>1. held'[r] = h /\ \A q \in Readers \ {r} : held'[q] = held[q]
    BY DEF TypeOK
  <1> QED BY <1>1 DEF Published, Entry

LEMMA PublisherRefines ==
  ASSUME IInv, Publisher
  PROVE  Snapshot!Next \/ UNCHANGED Snapshot!vars
  <1> USE DEF IInv
  <1>0. /\ Active(state) \in 0 .. 1
        /\ \A b : IsFiniteSet(Holders(b))
        /\ ReaderCount(state, 0) = Count(0) /\ ReaderCount(state, 1) = Count(1)
        /\ Flip(state) = Pack(Other(Active(state)), Count(0), Count(1))
        /\ Count(0) \in 0 .. ReaderMax /\ Count(1) \in 0 .. ReaderMax
    BY WordFacts
  <1>1. CASE PublishRejected
    <2>1. PICK f \in 0 .. 1 : f = Other(Active(state))
      BY <1>0 DEF Other
    <2>2. Count(f) # 0
      BY <1>0, <1>1, <2>1 DEF PublishRejected
    <2>3. Snapshot!Superseded # {}
      BY <2>1, <2>2, SupersededFacts, FS_EmptySet DEF Count
    <2> QED
      BY <1>1, <2>3 DEF PublishRejected, Snapshot!Next, Snapshot!PublishRejected
  <1>2. ASSUME NEW d \in Image, PublishBegin(d) PROVE UNCHANGED Snapshot!vars
    BY <1>2, RegisterStutters DEF PublishBegin, Published, Entry
  <1>3. CASE PublishCopy
    <2>1. /\ inactive \in 0 .. 1 /\ inactive = Other(Active(state))
          /\ Holders(inactive) = {}
          /\ \A b \in 0 .. 1 : b # inactive => buffers'[b] = buffers[b]
      BY <1>3 DEF PublishCopy, CopyUndisturbed, TypeOK
    <2>2. Published' = Published
      BY <1>0, <1>3, <2>1 DEF Published, PublishCopy, Other
    <2>3. ASSUME NEW r \in Readers PROVE Entry(r)' = Entry(r)
      <3>1. held[r] \in {0, 1, NoBuffer} /\ held[r] # inactive
        BY <2>1 DEF TypeOK, Holders
      <3> QED BY <1>3, <2>1, <3>1 DEF Entry, PublishCopy
    <2> QED BY <1>3, <2>2, <2>3, RegisterStutters DEF PublishCopy
  <1>4. CASE PublishExchange
    <2>1. /\ inactive = Other(Active(state)) /\ inactive = Other(Active(pub_seen))
          /\ Holders(inactive) = {}
      BY <1>4 DEF PublishExchange, CopyUndisturbed
    <2>2. CASE state = pub_seen
      <3>1. PICK f \in 0 .. 1 : f = inactive /\ f # Active(state)
        BY <1>0, <2>1 DEF Other
      <3>2. state' = Pack(f, Count(0), Count(1))
        BY <1>0, <1>4, <2>1, <2>2, <3>1 DEF PublishExchange
      <3>3. Active(state') = f
        BY <1>0, <3>2, Decode
      <3>4. Published' = data /\ data \in Image
        <4>1. buffers[f] \in Image /\ data \in Image /\ index = Length
          BY <1>4, <3>1 DEF TypeOK, PublishExchange, ControlOK
        <4>2. \A o \in Offsets : buffers[f][o] = data[o]
          BY <1>4, <3>1, <4>1 DEF PublishExchange, CopyUndisturbed, Offsets
        <4>3. buffers[f] = data
          BY <4>1, <4>2 DEF Image
        <4> QED BY <1>4, <3>3, <4>1, <4>3 DEF Published, PublishExchange
      <3>5. ASSUME NEW r \in Readers
            PROVE  Entry(r)' = IF Entry(r) = NoBuffer THEN NoBuffer
                                ELSE [Entry(r) EXCEPT !.current = FALSE]
        <4>1. held[r] # f /\ held'[r] = held[r] /\ buffers' = buffers
          BY <1>4, <2>1, <3>1 DEF Holders, PublishExchange
        <4>2. CASE held[r] = NoBuffer
          BY <4>1, <4>2 DEF Entry
        <4>3. CASE held[r] # NoBuffer
          <5>1. Entry(r) # NoBuffer
            BY <4>3, EntryFacts
          <5>2. Entry(r)' = [image |-> buffers[held[r]], current |-> FALSE]
            BY <3>3, <4>1, <4>3 DEF Entry
          <5> QED BY <4>3, <5>1, <5>2 DEF Entry
        <4> QED BY <4>2, <4>3
      <3>6. Snapshot!Superseded = {}
        BY <2>1, SupersededFacts
      <3>7. UNCHANGED <<value, rejected_count>>
        BY <1>4, <2>1 DEF PublishExchange
      <3>8. PICK d \in Image : d = data
        BY <3>4
      <3>9. Snapshot!Publish(d)
        <4>1. Latch' = [r \in Readers |->
                          IF Latch[r] = NoBuffer THEN NoBuffer
                          ELSE [Latch[r] EXCEPT !.current = FALSE]]
          BY <3>5 DEF Latch
        <4> QED
          BY <3>4, <3>6, <3>7, <3>8, <4>1, ZenonT(30)
          DEF Snapshot!Publish, Published, Latch, Entry
      <3> QED BY <3>9 DEF Snapshot!Next
    <2>3. CASE state # pub_seen
      <3>1. UNCHANGED <<state, held, buffers, value, rejected_count>>
        BY <1>4, <2>1, <2>3 DEF PublishExchange
      <3> QED BY <3>1, RegisterStutters DEF Published, Entry
    <2> QED BY <2>2, <2>3
  <1> QED BY <1>1, <1>2, <1>3, <1>4 DEF Publisher

LEMMA ReaderRefines ==
  ASSUME IInv, NEW r \in Readers, Reader(r)
  PROVE  Snapshot!Next \/ UNCHANGED Snapshot!vars
  <1> USE DEF IInv
  <1>0. PICK a \in 0 .. 1 : a = Active(state)
    BY WordFacts
  <1>1. CASE AcquireLoad(r) \/ (AcquireExchange(r) /\ state # seen[r])
    <2>1. UNCHANGED <<state, held, buffers, value, rejected_count>>
      BY <1>1 DEF AcquireLoad, AcquireExchange
    <2> QED BY <2>1, RegisterStutters DEF Published, Entry
  <1>2. CASE AcquireFail(r)
    <2>1. held[r] = NoBuffer
      BY <1>2 DEF AcquireFail, ControlOK
    <2>2. Snapshot!AcquireFailed(r)
      BY <1>2, <2>1 DEF AcquireFail, Snapshot!AcquireFailed
    <2> QED BY <2>2 DEF Snapshot!Next
  <1>3. CASE AcquireExchange(r) /\ state = seen[r]
    <2>1. /\ held[r] = NoBuffer /\ held' = [held EXCEPT ![r] = a]
          /\ UNCHANGED <<buffers, value, rejected_count>>
      BY <1>0, <1>3 DEF AcquireExchange, ControlOK
    <2>2. Active(state') = Active(state)
      BY <1>0, <1>3, AcquireFacts
    <2>3. /\ Published' = Published /\ held'[r] = a
          /\ \A q \in Readers \ {r} : Entry(q)' = Entry(q)
      <3>1. a \in {0, 1, NoBuffer}
        OBVIOUS
      <3> QED BY <2>1, <2>2, <3>1, OneEntry
    <2>4. Entry(r)' = [image |-> Published, current |-> TRUE]
      <3>1. held'[r] # NoBuffer /\ (held'[r] = Active(state')) = TRUE
        BY <1>0, <2>2, <2>3, SnapshotAssumption
      <3> QED BY <1>0, <2>1, <2>3, <3>1 DEF Entry, Published
    <2>5. Entry(r) = NoBuffer
      BY <2>1 DEF Entry
    <2>6. Latch' = [Latch EXCEPT ![r] = [image |-> Published, current |-> TRUE]]
      BY <2>3, <2>4 DEF Latch
    <2>7. Snapshot!Acquire(r)
      BY <2>1, <2>3, <2>5, <2>6 DEF Snapshot!Acquire, Published, Latch, Entry
    <2> QED BY <2>7 DEF Snapshot!Next
  <1>4. ASSUME NEW o \in Offsets, ReadByte(r, o)
        PROVE  Snapshot!Next
    <2>1. Entry(r) # NoBuffer /\ Entry(r).image = buffers[held[r]]
      BY <1>4, EntryFacts DEF ReadByte
    <2>2. Snapshot!Read(r, o)
      BY <1>4, <2>1 DEF ReadByte, Snapshot!Read, Entry
    <2> QED BY <2>2 DEF Snapshot!Next
  <1>5. CASE Release(r)
    <2>1. /\ held[r] # NoBuffer /\ held' = [held EXCEPT ![r] = NoBuffer]
          /\ UNCHANGED <<buffers, value, rejected_count>>
      BY <1>5 DEF Release
    <2>2. PICK h \in 0 .. 1 : h = held[r]
      BY <2>1 DEF TypeOK
    <2>3. Active(state') = Active(state)
      BY <1>0, <1>5, <2>2, ReleaseFacts
    <2>4. /\ Published' = Published /\ held'[r] = NoBuffer
          /\ \A q \in Readers \ {r} : Entry(q)' = Entry(q)
      BY <2>1, <2>3, OneEntry
    <2>5. Entry(r)' = NoBuffer /\ Entry(r) # NoBuffer
      BY <2>1, <2>4, EntryFacts DEF Entry
    <2>6. Latch' = [Latch EXCEPT ![r] = NoBuffer]
      BY <2>4, <2>5 DEF Latch
    <2>7. Snapshot!Release(r)
      BY <2>1, <2>4, <2>5, <2>6 DEF Snapshot!Release, Published, Latch, Entry
    <2> QED BY <2>7 DEF Snapshot!Next
  <1> QED BY <1>1, <1>2, <1>3, <1>4, <1>5 DEF Reader

LEMMA RegisterInit == Init => Snapshot!Init
  <1> SUFFICES ASSUME Init PROVE Snapshot!Init
    OBVIOUS
  <1>1. Active(state) \in 0 .. 1 /\ buffers[Active(state)] \in Image
    <2>1. Active(state) = 0
      BY DEF Init, Active
    <2> QED BY <2>1 DEF Init
  <1> QED BY <1>1 DEF Init, Snapshot!Init

(* The page implements the snapshot register, whatever interrupts whatever *)
(* and however many readers there are: the step of publish that is seen is *)
(* its exchange, that of a reader its compare-exchange or fetch-sub.       *)
THEOREM SnapshotImplementsRegister == Spec => ImplementsRegister
  <1>1. IInv /\ [Next]_vars => [Snapshot!Next]_(Snapshot!vars)
    <2> SUFFICES ASSUME IInv, [Next]_vars
                 PROVE  Snapshot!Next \/ UNCHANGED Snapshot!vars
      OBVIOUS
    <2>1. CASE UNCHANGED vars
      BY <2>1, RegisterStutters DEF vars, Published, Entry
    <2> QED BY <2>1, PublisherRefines, ReaderRefines DEF Next
  <1> QED
    BY <1>1, RegisterInit, IInvHolds, PTL DEF Spec, ImplementsRegister, Snapshot!Spec
=============================================================================
