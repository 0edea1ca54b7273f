-------------------------- MODULE PrimitivesProofs --------------------------
(***************************************************************************)
(* Proofs about the primitives below the drivers, for any number of        *)
(* contexts, any word, memory and queue: the atomic helpers are atomic and *)
(* leave PRIMASK as they found it, the memory functions do what C says of  *)
(* them, and the command queue is the bounded queue.  The byte ring has    *)
(* its own module, RingBufProofs.                                          *)
(***************************************************************************)
EXTENDS MCPrimitives, SequenceTheorems, TLAPS

(* A remainder lies below its divisor. *)
LEMMA ModRange ==
  ASSUME NEW x \in Int, NEW n \in Nat \ {0}
  PROVE  x % n \in 0 .. n - 1
  OBVIOUS

(* Between setting PRIMASK and restoring it nothing else runs, and what    *)
(* was loaded is still the word.                                           *)
Exclusive ==
  \A c \in Context :
    /\ pc[c] \in {"load", "store", "exit"} => c = Top /\ primask
    /\ pc[c] = "store" => observed[c] = word

(* A caller's own section is open only for the context that runs, and only *)
(* the first one: no exception is taken inside it.                         *)
OuterIsTop == \A c \in Context : outer[c] # "none" => c = Top /\ outer[c] = "open"

(* What a helper restores is the mask its caller runs with. *)
SavedIsCallers ==
  \A c \in Context :
    pc[c] \in {"mask", "load", "store", "exit"} => saved[c] = (outer[c] # "none")

Busy == \A c \in Context : pc[c] # "idle" => op[c] \in Operation

AtomicInv ==
  AtomicTypeOK /\ Exclusive /\ OuterIsTop /\ SavedIsCallers /\ Busy /\ MaskedIffInside

(* A nonempty sequence of contexts has a last one. *)
LEMMA LastInContext ==
  ASSUME NEW s \in Seq(Context), s # << >>
  PROVE  s[Len(s)] \in Context /\ Len(s) \in Nat \ {0}
  <1>1. Len(s) \in Nat \ {0}
    BY EmptySeq
  <1>2. Len(s) \in 1 .. Len(s)
    BY <1>1
  <1> QED BY <1>1, <1>2, ElementOfSeq

LEMMA TopInContext ==
  ASSUME AtomicTypeOK
  PROVE  Top \in Context /\ Len(running) \in Nat \ {0}
  BY LastInContext DEF AtomicTypeOK, Top

LEMMA AtomicInvInit == AtomicInit => AtomicInv
  <1> SUFFICES ASSUME AtomicInit PROVE AtomicInv
    OBVIOUS
  <1>1. running \in Seq(Context) /\ running # << >>
    BY AtomicAssumption DEF AtomicInit
  <1>2. 0 \in Word
    BY AtomicAssumption DEF Word
  <1>3. AtomicTypeOK
    BY <1>1, <1>2 DEF AtomicInit, AtomicTypeOK
  <1>4. Top \in Context
    BY <1>3, TopInContext
  <1> QED
    BY <1>3, <1>4 DEF AtomicInit, AtomicInv, Exclusive, OuterIsTop, SavedIsCallers, Busy,
       MaskedIffInside

(* Exceptions are taken only with PRIMASK clear, when nobody is inside. *)
LEMMA PreemptStep ==
  ASSUME AtomicInv, NEW c \in Context, Preempt(c)
  PROVE  AtomicInv'
  <1> USE DEF Preempt, local
  <1>1. running' = Append(running, c) /\ running \in Seq(Context)
    BY DEF AtomicInv, AtomicTypeOK
  <1>2. running' \in Seq(Context) /\ running' # << >>
    BY <1>1
  <1>3. AtomicTypeOK'
    BY <1>2 DEF AtomicInv, AtomicTypeOK
  <1>4. \A d \in Context : pc[d] \notin {"load", "store", "exit"} /\ outer[d] = "none"
    BY DEF AtomicInv, Exclusive, MaskedIffInside
  <1>5. Top' \in Context
    BY <1>2, LastInContext DEF Top
  <1> QED
    BY <1>3, <1>4, <1>5
    DEF AtomicInv, Exclusive, OuterIsTop, SavedIsCallers, Busy, MaskedIffInside

(* ... and return with nothing of theirs open. *)
LEMMA ReturnStep ==
  ASSUME AtomicInv, Return
  PROVE  AtomicInv'
  <1> USE DEF Return, local
  <1>1. running \in Seq(Context) /\ Len(running) \in Nat /\ Len(running) > 1
    BY TopInContext DEF AtomicInv, AtomicTypeOK
  <1>2. \A i \in 1 .. Len(running) - 1 : running[i] \in Context
    BY <1>1, ElementOfSeq
  <1>3. running' \in Seq(Context) /\ Len(running') = Len(running) - 1
    BY <1>1, <1>2, SubSeqProperties
  <1>4. running' # << >>
    <2>1. Len(running') # 0
      BY <1>1, <1>3
    <2> QED BY <2>1, EmptySeq
  <1>5. AtomicTypeOK'
    BY <1>3, <1>4 DEF AtomicInv, AtomicTypeOK
  <1>6. Top \in Context /\ pc[Top] = "idle" /\ outer[Top] = "none"
    BY TopInContext DEF AtomicInv
  <1>7. \A d \in Context : pc[d] \notin {"load", "store", "exit"} /\ outer[d] = "none"
    BY <1>6 DEF AtomicInv, Exclusive, OuterIsTop
  <1>8. Top' \in Context
    BY <1>3, <1>4, LastInContext DEF Top
  <1> QED
    BY <1>5, <1>6, <1>7, <1>8
    DEF AtomicInv, Exclusive, OuterIsTop, SavedIsCallers, Busy, MaskedIffInside

(* The results of the two operations are words. *)
LEMMA ResultIsWord ==
  ASSUME AtomicTypeOK, NEW o \in Operation, NEW value \in Word
  PROVE  Result(o, value) \in Word
  <1>1. CASE o.kind = "exchange"
    BY <1>1 DEF Result, Operation, AtomicTypeOK
  <1>2. CASE o.kind = "sub"
    <2>1. /\ o.operand \in Int /\ value \in Int
          /\ Result(o, value) = (value - o.operand) % WordModulus
      BY <1>2 DEF Result, Operation, Difference, Word
    <2>2. value - o.operand \in Int
      BY <2>1
    <2>3. (value - o.operand) % WordModulus \in 0 .. WordModulus - 1
      BY <2>2, ModRange, AtomicAssumption
    <2> QED BY <2>1, <2>3 DEF Word
  <1> QED BY <1>1, <1>2 DEF Operation

(* The steps of the context that runs. *)
LEMMA TopStep ==
  ASSUME AtomicInv,
         \/ OuterEnter \/ OuterExit \/ \E o \in Operation : Call(o)
         \/ SavePrimask \/ Mask \/ Load \/ Store \/ Exit
  PROVE  AtomicInv'
  <1>0. PICK t \in Context : t = Top
    BY TopInContext DEF AtomicInv
  <1> USE DEF AtomicInv, Exclusive, OuterIsTop, SavedIsCallers, Busy, MaskedIffInside, AtomicTypeOK,
              At, local
  <1>1. CASE OuterEnter
    <2>1. t = Top' /\ ~ primask
      BY <1>0, <1>1 DEF OuterEnter, Top
    <2> QED BY <1>0, <1>1, <2>1 DEF OuterEnter
  <1>2. CASE OuterExit
    <2>1. t = Top'
      BY <1>0, <1>2 DEF OuterExit, Top
    <2> QED BY <1>0, <1>2, <2>1 DEF OuterExit
  <1>3. ASSUME NEW o \in Operation, Call(o) PROVE AtomicInv'
    <2>1. t = Top'
      BY <1>0, <1>3 DEF Call, Top
    <2> QED BY <1>0, <1>3, <2>1 DEF Call
  <1>4. CASE SavePrimask
    <2>1. t = Top' /\ t = Top
      BY <1>0, <1>4 DEF SavePrimask, Top
    <2>2. primask = (outer[t] # "none")
      BY <1>4, <2>1 DEF SavePrimask
    <2>3. saved' = [saved EXCEPT ![t] = primask] /\ pc' = [pc EXCEPT ![t] = "mask"]
      BY <1>4, <2>1 DEF SavePrimask
    <2>4. SavedIsCallers'
      BY <1>4, <2>2, <2>3 DEF SavePrimask
    <2>5. AtomicTypeOK'
      BY <1>4, <2>3 DEF SavePrimask
    <2>6. (Exclusive /\ OuterIsTop /\ Busy /\ MaskedIffInside)'
      BY <1>4, <2>1, <2>3 DEF SavePrimask
    <2> QED BY <2>4, <2>5, <2>6
  <1>5. CASE Mask
    <2>1. t = Top'
      BY <1>0, <1>5 DEF Mask, Top
    <2> QED BY <1>0, <1>5, <2>1 DEF Mask, Masked
  <1>6. CASE Load
    <2>1. t = Top'
      BY <1>0, <1>6 DEF Load, Top
    <2> QED BY <1>0, <1>6, <2>1 DEF Load
  <1>7. CASE Store
    <2>1. t = Top'
      BY <1>0, <1>7 DEF Store, Top
    <2>2. word' \in Word
      BY <1>0, <1>7, ResultIsWord DEF Store
    <2> QED BY <1>0, <1>7, <2>1, <2>2 DEF Store
  <1>8. CASE Exit
    <2>1. t = Top' /\ 0 \in Word
      BY <1>0, <1>8, AtomicAssumption DEF Exit, Top, Word
    <2> QED BY <1>0, <1>8, <2>1 DEF Exit, Restored
  <1> QED BY <1>1, <1>2, <1>3, <1>4, <1>5, <1>6, <1>7, <1>8

LEMMA AtomicInvStep == AtomicInv /\ [AtomicNext]_atomic_vars => AtomicInv'
  <1> SUFFICES ASSUME AtomicInv, [AtomicNext]_atomic_vars PROVE AtomicInv'
    OBVIOUS
  <1>1. CASE UNCHANGED atomic_vars
    BY <1>1 DEF AtomicInv, Exclusive, OuterIsTop, SavedIsCallers, Busy, MaskedIffInside, AtomicTypeOK,
       Top, atomic_vars, local
  <1> QED
    BY <1>1, PreemptStep, ReturnStep, TopStep DEF AtomicNext

(* arch/arch_critical.h and arch_atomic_cm0.c: interrupts are masked       *)
(* exactly while a section is open, however sections and exceptions nest.  *)
THEOREM MaskingBalanced == AtomicSpec => [](AtomicTypeOK /\ MaskedIffInside)
  <1>1. AtomicInv => AtomicTypeOK /\ MaskedIffInside
    BY DEF AtomicInv
  <1> QED BY <1>1, AtomicInvInit, AtomicInvStep, PTL DEF AtomicSpec

(* A helper's store is one atomic operation on the word as it then is, and *)
(* nothing else touches the word.                                          *)
LEMMA StepIsAtomic == AtomicInv /\ [AtomicNext]_atomic_vars => [Atomic!Next]_<<word, seen>>
  <1> SUFFICES ASSUME AtomicInv, [AtomicNext]_atomic_vars, <<word, seen>>' # <<word, seen>>
               PROVE  Atomic!Next
    OBVIOUS
  <1>1. Store
    BY DEF AtomicNext, atomic_vars, local, Preempt, Return, OuterEnter, OuterExit, Call, SavePrimask,
       Mask, Load, Exit
  <1>2. PICK t \in Context : t = Top
    BY TopInContext DEF AtomicInv
  <1>3. observed[t] = word /\ op[t] \in Operation
    BY <1>1, <1>2 DEF Store, At, AtomicInv, Exclusive, Busy
  <1>4. word' = Result(op[t], word) /\ seen' = [seen EXCEPT ![t] = word]
    BY <1>1, <1>2, <1>3 DEF Store
  <1>5. CASE op[t].kind = "exchange"
    <2>1. op[t].expected \in Word /\ op[t].desired \in Word
      BY <1>3, <1>5 DEF Operation
    <2>2. Atomic!CompareExchange(t, op[t].expected, op[t].desired)
      BY <1>4, <1>5 DEF Result, Atomic!CompareExchange
    <2> QED BY <2>1, <2>2 DEF Atomic!Next, Atomic!Word, Word
  <1>6. CASE op[t].kind = "sub"
    <2>1. op[t].operand \in Word
      BY <1>3, <1>6 DEF Operation
    <2>2. Atomic!FetchSub(t, op[t].operand)
      BY <1>4, <1>6 DEF Result, Difference, Atomic!FetchSub
    <2> QED BY <2>1, <2>2 DEF Atomic!Next, Atomic!Word, Word
  <1> QED BY <1>3, <1>5, <1>6 DEF Operation

(* The helpers are the read-modify-write operations of C11 that            *)
(* lib_regmap's snapshot protocol takes them for.                          *)
THEOREM HelpersAreAtomic == AtomicSpec => ImplementsAtomicWord
  <1>1. AtomicInit => Atomic!Init
    BY AtomicAssumption DEF AtomicInit, Atomic!Init, Atomic!Word
  <1> QED
    BY <1>1, AtomicInvInit, AtomicInvStep, StepIsAtomic, PTL
    DEF AtomicSpec, ImplementsAtomicWord, Atomic!Spec, Atomic!vars
-----------------------------------------------------------------------------
(* Each loop runs for the functions that enter it; memmove copies upwards  *)
(* only when its target lies below its source.                             *)
LoopOfOp ==
  /\ place = "up" =>
       \/ request.op = "memcpy"
       \/ request.op = "memmove" /\ request.destination < request.source
  /\ place = "down" =>
       request.op = "memmove" /\ request.destination >= request.source
  /\ place = "fill" => request.op = "memset"
  /\ place = "compare" => request.op = "memcmp"

(* The indices of the target a copy or fill loop has been at. *)
Written ==
  IF place = "down" THEN offset .. request.length - 1 ELSE 0 .. offset - 1

(* What has been written is as wanted, the rest as the call found it. *)
Progress ==
  /\ place \in {"up", "down", "fill"} =>
       \A a \in MemoryAddress :
         memory[a] = IF a - request.destination \in Written
                       THEN Wanted(a) ELSE before[a]
  /\ place = "compare" =>
       /\ memory = before
       /\ \A k \in 0 .. offset - 1 : Left(k) = Right(k)

MemoryInv == MemoryRight /\ LoopOfOp /\ Progress

(* The fields of a request, and the bounds its legality puts on them. *)
LEMMA Fields ==
  ASSUME MemoryTypeOK
  PROVE  /\ request.length \in Nat /\ request.destination \in Nat
         /\ request.source \in Nat /\ request.value \in Nat
         /\ request.destination + request.length <= MemorySize
         /\ request.source + request.length <= MemorySize
         /\ offset \in 0 .. request.length /\ MemorySize \in Nat \ {0}
         /\ request.op = "memcpy" =>
              \/ request.destination + request.length <= request.source
              \/ request.source + request.length <= request.destination
  BY MemoryAssumption DEF MemoryTypeOK, Request, Legal

LEMMA Shifted ==
  ASSUME NEW a \in Int, NEW d \in Int, NEW n \in Int
  PROVE  a - d \in 0 .. n - 1 <=> a \in d .. d + n - 1
  OBVIOUS

LEMMA MemoryInvInit == MemoryInit => MemoryInv
  <1> SUFFICES ASSUME MemoryInit PROVE MemoryInv
    OBVIOUS
  <1>1. request \in Request /\ Legal(request)
    BY MemoryAssumption DEF MemoryInit, Request, Legal
  <1>2. MemoryTypeOK
    BY <1>1 DEF MemoryInit, MemoryTypeOK
  <1>3. \A a \in MemoryAddress : a \notin Target
    BY DEF MemoryInit, Target, MemoryAddress
  <1> QED
    BY <1>2, <1>3 DEF MemoryInit, MemoryInv, MemoryRight, LoopOfOp, Progress, Wanted

(* A call starts with nothing written and nothing compared. *)
LEMMA CallStep ==
  ASSUME MemoryInv, NEW r \in Request, CallMemory(r)
  PROVE  MemoryInv'
  <1>1. r.length \in 0 .. MemorySize /\ MemorySize \in Nat
    BY MemoryAssumption DEF Request
  <1>2. offset' \in 0 .. request'.length
    BY <1>1 DEF CallMemory
  <1>3. /\ place' \in {"up", "down", "fill", "compare"}
        /\ LoopOfOp'
    BY DEF CallMemory, Loop, Upward, LoopOfOp, Request
  <1>4. MemoryTypeOK'
    BY <1>2, <1>3 DEF CallMemory, MemoryInv, MemoryRight, MemoryTypeOK
  <1>5. Written' = {}
    BY <1>1 DEF CallMemory, Written
  <1>6. Progress'
    <2>1. memory' = before'
      BY DEF CallMemory
    <2>2. place' = "compare" => \A k \in 0 .. offset' - 1 : FALSE
      BY <1>1 DEF CallMemory
    <2> QED BY <1>5, <2>1, <2>2 DEF Progress, Left, Right
  <1> QED BY <1>3, <1>4, <1>6 DEF MemoryInv, MemoryRight

(* One byte of the target is written with what is wanted there.            *)
LEMMA PutStep ==
  ASSUME MemoryInv, place \in {"up", "down", "fill"},
         NEW index \in 0 .. request.length - 1, NEW octet \in Octet,
         Put(index, octet), octet = Wanted(request.destination + index),
         UNCHANGED <<before, request, place, answer>>,
         offset' \in 0 .. request.length,
         Written' = Written \cup {index}
  PROVE  MemoryInv'
  <1> USE Fields DEF MemoryInv, MemoryRight
  <1>1. request.destination + index \in MemoryAddress
    BY DEF MemoryAddress
  <1>2. memory' = [memory EXCEPT ![request.destination + index] = octet]
    BY DEF Put
  <1>3. MemoryTypeOK'
    BY <1>2 DEF MemoryTypeOK
  <1>4. \A a \in MemoryAddress : Wanted(a)' = Wanted(a)
    BY DEF Wanted, Target
  <1>5. ASSUME NEW a \in MemoryAddress
        PROVE  memory'[a] = IF a - request'.destination \in Written'
                              THEN Wanted(a)' ELSE before'[a]
    <2>1. CASE a = request.destination + index
      <3>1. a - request.destination = index
        BY <2>1
      <3>2. memory'[a] = octet
        BY <1>2, <2>1 DEF MemoryTypeOK
      <3> QED BY <1>4, <2>1, <3>1, <3>2
    <2>2. CASE a # request.destination + index
      <3>1. a - request.destination # index
        BY <2>2 DEF MemoryAddress
      <3>2. memory'[a] = memory[a]
        BY <1>2, <2>2 DEF MemoryTypeOK
      <3> QED BY <1>4, <3>1, <3>2 DEF Progress
    <2> QED BY <2>1, <2>2
  <1>6. LoopOfOp'
    BY DEF LoopOfOp
  <1>7. Progress'
    BY <1>5 DEF Progress
  <1> QED BY <1>3, <1>6, <1>7

(* The source byte an upward copy is about to read is still the original:  *)
(* what it has written lies below it, or does not meet the source at all.  *)
LEMMA UpStep == ASSUME MemoryInv, CopyUp PROVE MemoryInv'
  <1> USE Fields DEF MemoryInv, MemoryRight
  <1>1. /\ offset \in 0 .. request.length - 1 /\ place = "up"
        /\ Put(offset, From(offset)) /\ offset' = offset + 1
        /\ UNCHANGED <<before, request, place, answer>>
    BY DEF CopyUp
  <1>2. request.source + offset \in MemoryAddress
    BY <1>1 DEF MemoryAddress
  <1>3. request.source + offset - request.destination \notin Written
    BY <1>1 DEF Written, LoopOfOp
  <1>4. From(offset) = before[request.source + offset]
    BY <1>1, <1>2, <1>3 DEF From, Progress
  <1>5. From(offset) = Wanted(request.destination + offset)
    BY <1>1, <1>4 DEF Wanted, Target, LoopOfOp
  <1>6. From(offset) \in Octet
    BY <1>2, <1>4 DEF MemoryTypeOK
  <1>7. Written' = Written \cup {offset}
    BY <1>1 DEF Written
  <1>8. offset' \in 0 .. request.length
    BY <1>1
  <1> QED BY <1>1, <1>5, <1>6, <1>7, <1>8, PutStep

(* The same downwards: what it has written lies above what it reads. *)
LEMMA DownStep == ASSUME MemoryInv, CopyDown PROVE MemoryInv'
  <1> USE Fields DEF MemoryInv, MemoryRight
  <1> DEFINE i == offset - 1
  <1>1. /\ i \in 0 .. request.length - 1 /\ place = "down"
        /\ Put(i, From(i)) /\ offset' = i
        /\ UNCHANGED <<before, request, place, answer>>
    BY DEF CopyDown
  <1>2. request.source + i \in MemoryAddress
    BY <1>1 DEF MemoryAddress
  <1>3. request.source + i - request.destination \notin Written
    BY <1>1 DEF Written, LoopOfOp
  <1>4. From(i) = before[request.source + i]
    BY <1>1, <1>2, <1>3 DEF From, Progress
  <1>5. From(i) = Wanted(request.destination + i)
    BY <1>1, <1>4 DEF Wanted, Target, LoopOfOp
  <1>6. From(i) \in Octet
    BY <1>2, <1>4 DEF MemoryTypeOK
  <1>7. Written' = Written \cup {i}
    BY <1>1 DEF Written
  <1>8. offset' \in 0 .. request.length
    BY <1>1
  <1> HIDE DEF i
  <1> QED BY <1>1, <1>5, <1>6, <1>7, <1>8, PutStep

(* memset truncates its value to a byte. *)
LEMMA FillStep == ASSUME MemoryInv, Fill PROVE MemoryInv'
  <1> USE Fields DEF MemoryInv, MemoryRight
  <1> DEFINE octet == request.value % OctetValues
  <1>1. /\ offset \in 0 .. request.length - 1 /\ place = "fill"
        /\ Put(offset, octet) /\ offset' = offset + 1
        /\ UNCHANGED <<before, request, place, answer>>
    BY DEF Fill
  <1>2. octet = Wanted(request.destination + offset)
    BY <1>1 DEF Wanted, Target, LoopOfOp
  <1>3. octet \in Octet
    BY MemoryAssumption DEF Octet
  <1>4. Written' = Written \cup {offset}
    BY <1>1 DEF Written
  <1>5. offset' \in 0 .. request.length
    BY <1>1
  <1> HIDE DEF octet
  <1> QED BY <1>1, <1>2, <1>3, <1>4, <1>5, PutStep

(* memcmp goes on over an equal byte and stops at the first that differs. *)
LEMMA CompareStep ==
  ASSUME MemoryInv, CompareEqual \/ CompareDiffers
  PROVE  MemoryInv'
  <1> USE Fields DEF MemoryInv, MemoryRight
  <1>1. /\ place = "compare" /\ offset \in 0 .. request.length - 1
        /\ UNCHANGED <<memory, before, request>> /\ memory = before
    BY DEF CompareEqual, CompareDiffers, Progress
  <1>2. /\ Left(offset) = memory[request.destination + offset]
        /\ Right(offset) = From(offset)
    BY <1>1 DEF Left, Right, From
  <1>3. CASE CompareEqual
    <2>1. Left(offset) = Right(offset)
      BY <1>2, <1>3 DEF CompareEqual, Differs
    <2>2. \A k \in 0 .. offset : Left(k) = Right(k)
      BY <1>1, <2>1 DEF Progress
    <2>3. Progress'
      BY <1>1, <1>3, <2>2 DEF CompareEqual, Progress, Left, Right
    <2> QED
      BY <1>1, <1>3, <2>3 DEF CompareEqual, MemoryTypeOK, LoopOfOp
  <1>4. CASE CompareDiffers
    <2>1. Left(offset) \in Octet /\ Right(offset) \in Octet
      <3>1. /\ request.destination + offset \in MemoryAddress
            /\ request.source + offset \in MemoryAddress
        BY <1>1 DEF MemoryAddress
      <3>2. before \in [MemoryAddress -> Octet]
        BY DEF MemoryTypeOK
      <3> QED BY <3>1, <3>2 DEF Left, Right
    <2>2. Left(offset) # Right(offset)
      BY <1>2, <1>4 DEF CompareDiffers, Differs
    <2>3. \/ answer' = -1 /\ Left(offset) < Right(offset)
          \/ answer' = 1 /\ Left(offset) > Right(offset)
      BY <1>2, <1>4, <2>1, <2>2, MemoryAssumption DEF CompareDiffers, Octet
    <2>4. \A k \in 0 .. offset - 1 : Left(k) = Right(k)
      BY <1>1 DEF Progress
    <2>5. AnswerRight'
      BY <1>1, <2>3, <2>4 DEF AnswerRight, Left, Right
    <2>6. \A a \in MemoryAddress : memory'[a] = Wanted(a)'
      BY <1>1 DEF Wanted, LoopOfOp
    <2>7. MemoryTypeOK' /\ place' = "returned"
      BY <1>1, <1>4 DEF CompareDiffers, MemoryTypeOK
    <2> QED BY <2>5, <2>6, <2>7 DEF LoopOfOp, Progress
  <1> QED BY <1>3, <1>4

(* A loop that ends has been at every index. *)
LEMMA FinishStep == ASSUME MemoryInv, Finish PROVE MemoryInv'
  <1> USE Fields DEF MemoryInv, MemoryRight
  <1>1. /\ place \in {"up", "down", "fill", "compare"} /\ place' = "returned"
        /\ UNCHANGED <<memory, before, request, offset>>
        /\ answer' = IF place = "compare" THEN 0 ELSE answer
    BY DEF Finish
  <1>2. MemoryTypeOK' /\ LoopOfOp' /\ Progress'
    BY <1>1 DEF MemoryTypeOK, LoopOfOp, Progress
  <1>3. CASE place = "compare"
    <2>1. \A k \in 0 .. request.length - 1 : Left(k) = Right(k)
      BY <1>3 DEF Finish, Progress
    <2>2. AnswerRight'
      BY <1>1, <1>3, <2>1 DEF AnswerRight, Left, Right
    <2>3. \A a \in MemoryAddress : memory'[a] = Wanted(a)'
      BY <1>1, <1>3 DEF Wanted, LoopOfOp, Progress
    <2> QED BY <1>2, <2>2, <2>3
  <1>4. CASE place # "compare"
    <2>1. Written = 0 .. request.length - 1
      BY <1>1, <1>4 DEF Finish, Written
    <2>2. \A a \in MemoryAddress :
            memory[a] = IF a - request.destination \in Written
                          THEN Wanted(a) ELSE before[a]
      BY <1>1, <1>4 DEF Progress
    <2>3. ASSUME NEW a \in MemoryAddress
          PROVE  memory'[a] = Wanted(a)'
      <3>1. a - request.destination \in Written <=> a \in Target
        <4>1. a \in Int /\ request.destination \in Int /\ request.length \in Int
          BY DEF MemoryAddress
        <4> QED BY <2>1, <4>1, Shifted DEF Target
      <3>2. a \notin Target => Wanted(a) = before[a]
        BY DEF Wanted
      <3>3. memory[a] = IF a \in Target THEN Wanted(a) ELSE before[a]
        BY <2>2, <3>1
      <3>4. Wanted(a)' = Wanted(a)
        BY <1>1 DEF Wanted, Target
      <3> QED BY <1>1, <3>2, <3>3, <3>4
    <2>4. request'.op # "memcmp"
      BY <1>1, <1>4 DEF LoopOfOp
    <2> QED BY <1>2, <2>3, <2>4
  <1> QED BY <1>3, <1>4

LEMMA StutterStep == ASSUME MemoryInv, UNCHANGED memory_vars PROVE MemoryInv'
  BY DEF MemoryInv, memory_vars, MemoryRight, MemoryTypeOK, LoopOfOp, Progress, Written,
         Wanted, Target, AnswerRight, Left, Right

(* memcpy, memmove, memset and memcmp do what C says of them, for every    *)
(* size of memory and every overlap of memmove's operands.                 *)
THEOREM MemoryCorrect == MemorySpec => []MemoryRight
  <1>1. MemoryInv /\ [MemoryNext]_memory_vars => MemoryInv'
    BY CallStep, UpStep, DownStep, FillStep, CompareStep, FinishStep, StutterStep
    DEF MemoryNext
  <1>2. MemoryInv => MemoryRight
    BY DEF MemoryInv
  <1> QED BY MemoryInvInit, <1>1, <1>2, PTL DEF MemorySpec
-----------------------------------------------------------------------------
(* The command queue is a ring whose producer, the interrupt handler, is   *)
(* never interrupted by its consumer: its state is that of a ring between  *)
(* two pushes, so what RingBufProofs shows of the ring's consumer and of   *)
(* the slots holds for it.                                                 *)
CopyPc ==
  IF cq_pop_pc = "idle" THEN "idle" ELSE IF cq_pop_pc = "advance" THEN "advance" ELSE "copy"

Q == INSTANCE RingBufProofs WITH
  Capacity <- QueueCapacity, Byte <- Commands!Command, NoByte <- NoCommand,
  storage <- cq_storage, write_index <- cq_write_index, read_index <- cq_read_index,
  dropped_count <- cq_dropped_count,
  push_pc <- "idle", push_byte <- NoCommand, push_result <- enqueued,
  pop_pc <- CopyPc, pop_byte <- IF cq_pop_pc = "advance" THEN command ELSE NoCommand,
  pop_result <- popped

(* Both fields are copied from the slot the consumer is at. *)
HalfCopied ==
  cq_pop_pc = "value" => command = cq_storage[Commands!Slot(cq_read_index)]

QueueInv == Q!IInv /\ Commands!TypeOK /\ HalfCopied

RingStep == [Q!Next]_(Q!vars)
FifoStep == [Q!Fifo!Next]_(Q!Fifo!vars)

LEMMA QueueSizes ==
  /\ QueueCapacity \in Nat \ {0} /\ Modulus \in Nat
  /\ QueueCapacity < Modulus /\ Modulus % QueueCapacity = 0
  /\ NoCommand \notin Commands!Command
  BY QueueAssumption DEF Commands!SizesFit

LEMMA QueueInvInit == Commands!Init => QueueInv /\ Q!Fifo!Init
  <1> SUFFICES ASSUME Commands!Init PROVE QueueInv /\ Q!Fifo!Init
    OBVIOUS
  <1>1. Q!Init
    BY DEF Commands!Init, Q!Init, Q!Slots, CopyPc
  <1>2. Q!IInv /\ Q!Fifo!Init
    BY <1>1, QueueSizes, Q!IInvInit, Q!RefinedInit
  <1>3. 0 \in Commands!Index
    BY QueueSizes DEF Commands!Index
  <1>4. Commands!TypeOK
    BY <1>3 DEF Commands!Init, Commands!TypeOK
  <1> QED BY <1>2, <1>4 DEF QueueInv, HalfCopied, Commands!Init

(* What the main loop has still to copy or to give back is a command. *)
LEMMA OldestCommand ==
  ASSUME QueueInv, cq_pop_pc # "idle"
  PROVE  /\ cq_storage[Commands!Slot(cq_read_index)] \in Commands!Command
         /\ 0 \in 0 .. Q!Used - 1 /\ Q!UnreadSlot(0) = Commands!Slot(cq_read_index)
  <1>1. Q!Used > 0 /\ Q!Used \in Q!Indices
    BY QueueSizes, Q!UsedFacts DEF QueueInv, Q!IInv, Q!NeverOverfull, CopyPc
  <1>2. Q!Used \in Int
    BY <1>1, QueueSizes DEF Q!Indices
  <1>3. Q!UnreadSlot(0) = Q!Slot(cq_read_index)
    BY QueueSizes, Q!UsedFacts DEF QueueInv, Q!IInv
  <1>4. 0 \in 0 .. Q!Used - 1
    BY <1>1, <1>2
  <1>5. cq_storage[Q!UnreadSlot(0)] \in Commands!Command
    BY <1>4 DEF QueueInv, Q!IInv, Q!InFlightBytes
  <1> QED BY <1>3, <1>4, <1>5 DEF Q!Slot, Commands!Slot

(* The main loop's steps are those of the ring's consumer, the first half  *)
(* of the copy none.                                                       *)
LEMMA PopIsRingStep ==
  ASSUME QueueInv, Commands!PopTest \/ Commands!PopCopy \/ Commands!PopAdvance
  PROVE  RingStep /\ Commands!TypeOK' /\ HalfCopied'
  <1> USE DEF CopyPc, Q!consumerVars, Q!producerVars
  <1>1. CASE Commands!PopTest
    <2>1. Q!PopEmpty \/ Q!PopTest
      BY <1>1 DEF Commands!PopTest, Q!PopEmpty, Q!PopTest, Q!IsEmpty
    <2>2. Commands!TypeOK' /\ HalfCopied'
      BY <1>1 DEF QueueInv, Commands!PopTest, Commands!TypeOK, HalfCopied
    <2> QED BY <2>1, <2>2 DEF RingStep, Q!Next, Q!Consumer
  <1>2. CASE Commands!PopCopy /\ cq_pop_pc = "address"
    <2>1. cq_pop_pc' = "value" /\ command' = cq_storage[Commands!Slot(cq_read_index)]
          /\ UNCHANGED <<cq_storage, cq_write_index, cq_read_index, cq_dropped_count, enqueued,
                         popped>>
      BY <1>2 DEF Commands!PopCopy
    <2>2. Commands!TypeOK' /\ HalfCopied'
      BY <1>2, <2>1, OldestCommand DEF QueueInv, Commands!TypeOK, HalfCopied, Commands!Slot
    <2>3. UNCHANGED Q!vars
      BY <1>2, <2>1 DEF Q!vars
    <2> QED BY <2>2, <2>3 DEF RingStep
  <1>3. CASE Commands!PopCopy /\ cq_pop_pc = "value"
    <2>1. PICK c \in Commands!Command : c = cq_storage[Commands!Slot(cq_read_index)]
      BY <1>3, OldestCommand
    <2>2. command = c
      BY <1>3, <2>1 DEF QueueInv, HalfCopied
    <2>3. [c EXCEPT !.value = c.value] = c
      BY DEF Commands!Command
    <2>4. cq_pop_pc' = "advance" /\ command' = c
          /\ UNCHANGED <<cq_storage, cq_write_index, cq_read_index, cq_dropped_count, enqueued,
                         popped>>
      BY <1>3, <2>1, <2>2, <2>3 DEF Commands!PopCopy
    <2>5. Commands!TypeOK' /\ HalfCopied'
      BY <2>4 DEF QueueInv, Commands!TypeOK, HalfCopied
    <2>6. Q!PopCopy
      BY <1>3, <2>1, <2>4 DEF Q!PopCopy, Q!Slot, Commands!Slot
    <2> QED BY <2>5, <2>6 DEF RingStep, Q!Next, Q!Consumer
  <1>4. CASE Commands!PopAdvance
    <2>1. Q!PopAdvance
      BY <1>4 DEF Commands!PopAdvance, Q!PopAdvance, Commands!Increment, Q!Increment
    <2>2. Commands!Increment(cq_read_index) \in Commands!Index
      BY QueueSizes, Q!IncrementValue DEF QueueInv, Commands!TypeOK, Commands!Index, Q!Indices,
         Commands!Increment, Q!Increment
    <2>3. Commands!TypeOK' /\ HalfCopied'
      BY <1>4, <2>2 DEF QueueInv, Commands!PopAdvance, Commands!TypeOK, HalfCopied
    <2> QED BY <2>1, <2>3 DEF RingStep, Q!Next, Q!Consumer
  <1> QED BY <1>1, <1>2, <1>3, <1>4 DEF Commands!PopCopy

(* A full queue refuses as the ring does. *)
LEMMA RefusalIsRingStep ==
  ASSUME QueueInv, NEW c \in Commands!Command, Commands!Enqueue(c), Commands!Full
  PROVE  RingStep /\ Commands!TypeOK' /\ HalfCopied'
  <1>1. Commands!Used = Q!Used
    BY DEF Commands!Used, Q!Used, Q!Distance
  <1>2. Q!Used \in Int /\ Q!Used <= QueueCapacity
    BY Q!UsedFacts, QueueSizes DEF QueueInv, Q!IInv, Q!NeverOverfull, Q!Indices
  <1>3. Q!IsFull
    BY <1>1, <1>2, QueueSizes DEF Commands!Full, Q!IsFull
  <1>4. Q!PushRejected
    BY <1>3 DEF Commands!Enqueue, Q!PushRejected, Commands!Increment, Q!Increment, CopyPc,
       Q!consumerVars
  <1>5. Commands!Increment(cq_dropped_count) \in Commands!Index
    BY QueueSizes, Q!IncrementValue DEF QueueInv, Commands!TypeOK, Commands!Index, Q!Indices,
       Commands!Increment, Q!Increment
  <1>6. Commands!TypeOK' /\ HalfCopied'
    BY <1>5 DEF QueueInv, Commands!Enqueue, Commands!TypeOK, HalfCopied, Commands!Slot
  <1> QED BY <1>4, <1>6 DEF RingStep, Q!Next, Q!Producer

(* A push takes effect at once: test, store and publish are one step.      *)
LEMMA PushStep ==
  ASSUME QueueInv, NEW c \in Commands!Command, Commands!Enqueue(c), ~ Commands!Full
  PROVE  QueueInv' /\ Q!Fifo!Push(c)
  <1> DEFINE slot == Q!Slot(cq_write_index)
             n == Q!Used
  <1>0. /\ Q!TypeOK /\ cq_write_index \in Q!Indices /\ cq_read_index \in Q!Indices
        /\ n \in Nat /\ slot \in Q!Slots
    <2>1. Q!TypeOK /\ cq_write_index \in Q!Indices /\ cq_read_index \in Q!Indices
      BY DEF QueueInv, Q!IInv, Q!TypeOK
    <2>2. n \in Nat
      BY <2>1, Q!UsedFacts, QueueSizes DEF Q!Indices
    <2>3. cq_write_index \in Int
      BY <2>1, QueueSizes DEF Q!Indices
    <2> QED BY <2>1, <2>2, <2>3, QueueSizes, Q!SlotRange
  <1>1. /\ cq_storage' = [cq_storage EXCEPT ![slot] = c]
        /\ cq_write_index' = Q!Increment(cq_write_index)
        /\ enqueued' = TRUE
        /\ UNCHANGED <<cq_read_index, cq_dropped_count, cq_pop_pc, command, popped>>
    BY DEF Commands!Enqueue, Q!Slot, Commands!Slot, Q!Increment, Commands!Increment
  <1>2. n < QueueCapacity
    <2>1. Commands!Used = n
      BY DEF Commands!Used, Q!Used, Q!Distance
    <2> QED BY <1>0, <2>1, QueueSizes DEF Commands!Full
  <1>3. Q!Used' = n + 1
    BY <1>0, <1>1, <1>2, QueueSizes, Q!UsedAfterPublish DEF Q!Used
  <1>4. \A k : Q!UnreadSlot(k)' = Q!UnreadSlot(k)
    BY <1>1 DEF Q!UnreadSlot, Q!Slot
  <1>5. Q!UnreadSlot(n) = slot
    BY <1>0, QueueSizes, Q!UsedFacts
  <1>6. cq_storage \in [Q!Slots -> Commands!Command \cup {NoCommand}]
    BY <1>0 DEF Q!TypeOK
  <1>7. cq_storage'[slot] = c
    BY <1>0, <1>1, <1>6
  <1>8. ASSUME NEW k \in 0 .. n - 1
        PROVE  /\ cq_storage'[Q!UnreadSlot(k)] = cq_storage[Q!UnreadSlot(k)]
               /\ cq_storage[Q!UnreadSlot(k)] \in Commands!Command
    <2>1. Q!UnreadSlot(k) # slot
      BY <1>0, <1>2, <1>8, QueueSizes, Q!FreeSlot
    <2>2. k \in Nat
      BY <1>0
    <2>3. Q!UnreadSlot(k) \in Q!Slots
      BY <1>0, <2>2, QueueSizes, Q!UsedFacts
    <2>4. cq_storage'[Q!UnreadSlot(k)] = cq_storage[Q!UnreadSlot(k)]
      BY <1>1, <1>6, <2>1, <2>3
    <2> QED BY <2>4 DEF QueueInv, Q!IInv, Q!InFlightBytes
  <1> HIDE DEF slot, n
  <1>9. Q!TypeOK' /\ Commands!TypeOK'
    <2>1. cq_write_index' \in Q!Indices
      BY <1>0, <1>1, QueueSizes, Q!IncrementValue
    <2>2. cq_storage' \in [Q!Slots -> Commands!Command \cup {NoCommand}]
      BY <1>0, <1>1, <1>6
    <2>3. Q!TypeOK'
      BY <1>0, <1>1, <2>1, <2>2 DEF Q!TypeOK, CopyPc
    <2>4. Commands!TypeOK'
      BY <1>1, <2>1, <2>2 DEF QueueInv, Commands!TypeOK, Q!Slots, Q!Indices, Commands!Index
    <2> QED BY <2>3, <2>4
  <1>10. cq_pop_pc # "idle" =>
           cq_storage'[Commands!Slot(cq_read_index)] = cq_storage[Commands!Slot(cq_read_index)]
    BY <1>8, OldestCommand DEF n
  <1>11. HalfCopied'
    BY <1>1, <1>10 DEF QueueInv, HalfCopied, Commands!Slot
  <1>12. Q!NeverOverfull'
    BY <1>0, <1>1, <1>2, <1>3, QueueSizes DEF Q!NeverOverfull, CopyPc
  <1>13. Q!InFlightBytes'
    <2>1. CopyPc' = "advance" => command' = cq_storage'[Q!Slot(cq_read_index')]
      BY <1>1, <1>10 DEF QueueInv, Q!IInv, Q!InFlightBytes, CopyPc, Q!Slot, Commands!Slot
    <2>2. ASSUME NEW k \in 0 .. Q!Used' - 1
          PROVE  cq_storage'[Q!UnreadSlot(k)'] \in Commands!Command
      <3>1. k \in 0 .. n - 1 \/ k = n
        BY <1>0, <1>3
      <3> QED BY <1>4, <1>5, <1>7, <1>8, <3>1
    <2> QED BY <2>1, <2>2 DEF Q!InFlightBytes, CopyPc
  <1>14. QueueInv'
    BY <1>9, <1>11, <1>12, <1>13 DEF QueueInv, Q!IInv
  <1>15. Q!ContentsFacts /\ Q!ContentsFacts'
    BY <1>14, QueueSizes, Q!ContentsIsSeq, Q!ContentsIsSeqNext DEF QueueInv
  <1>16. Q!Contents' = Append(Q!Contents, c)
    <2>1. /\ Append(Q!Contents, c) \in Seq(Commands!Command)
          /\ Len(Append(Q!Contents, c)) = n + 1
      BY <1>15 DEF Q!ContentsFacts, n
    <2>2. /\ Q!Contents' \in Seq(Commands!Command) /\ Len(Q!Contents') = n + 1
          /\ \A k \in 1 .. n + 1 : Q!Contents'[k] = cq_storage'[Q!UnreadSlot(k - 1)]
      BY <1>3, <1>4, <1>15 DEF Q!ContentsFacts
    <2>3. ASSUME NEW k \in 1 .. n + 1 PROVE Q!Contents'[k] = Append(Q!Contents, c)[k]
      <3>1. CASE k \in 1 .. n
        <4>1. k - 1 \in 0 .. n - 1
          BY <1>0, <3>1
        <4>2. Q!Contents[k] = cq_storage[Q!UnreadSlot(k - 1)]
          BY <1>15, <3>1 DEF Q!ContentsFacts, n
        <4>3. Append(Q!Contents, c)[k] = Q!Contents[k]
          BY <1>15, <3>1 DEF Q!ContentsFacts, n
        <4> QED BY <1>8, <2>2, <4>1, <4>2, <4>3
      <3>2. CASE k = n + 1
        <4>1. Append(Q!Contents, c)[k] = c
          BY <1>15, <3>2 DEF Q!ContentsFacts, n
        <4>2. k - 1 = n
          BY <1>0, <3>2
        <4> QED BY <1>5, <1>7, <2>2, <4>1, <4>2
      <3>3. n \in Nat /\ k \in 1 .. n + 1
        BY <1>0
      <3>4. k \in 1 .. n \/ k = n + 1
        BY <3>3
      <3> QED BY <3>1, <3>2, <3>4
    <2> QED BY <2>1, <2>2, <2>3, QueueSizes, Q!SeqEqual
  <1> QED
    BY <1>1, <1>2, <1>14, <1>15, <1>16 DEF Q!Fifo!Push, Q!ContentsFacts, n

(* The queue as CommandQueue counts it out. *)
Waiting == [k \in 1 .. Commands!Used |->
              cq_storage[Commands!Slot((cq_read_index + k - 1) % Modulus)]]

WaitingContents == Waiting = Q!Contents

LEMMA WaitingIsContents == QueueInv => WaitingContents
  <1> SUFFICES ASSUME QueueInv PROVE WaitingContents
    OBVIOUS
  <1>1. cq_read_index \in Int /\ Q!Used \in Int
    BY QueueSizes, Q!UsedFacts DEF QueueInv, Q!IInv, Q!TypeOK, Q!Indices
  <1>2. Commands!Used = Q!Used
    BY DEF Commands!Used, Q!Used, Q!Distance
  <1>3. ASSUME NEW k \in 1 .. Q!Used
        PROVE  Commands!Slot((cq_read_index + k - 1) % Modulus) = Q!UnreadSlot(k - 1)
    <2>1. cq_read_index + k - 1 = cq_read_index + (k - 1)
      BY <1>1
    <2> QED BY <2>1 DEF Commands!Slot, Q!UnreadSlot, Q!Slot
  <1> QED BY <1>2, <1>3 DEF Waiting, WaitingContents, Q!Contents

LEMMA WaitingIsContentsNext == QueueInv' => WaitingContents'
  BY WaitingIsContents, PTL

(* Two names for one queue of commands. *)
LEMMA SameFifo ==
  ASSUME QueueInv, QueueInv', FifoStep
  PROVE  [Commands!Fifo!Next]_(Commands!Fifo!vars)
  <1>1. Waiting = Q!Contents /\ Waiting' = Q!Contents'
    BY WaitingIsContents, WaitingIsContentsNext DEF WaitingContents
  <1>2. ASSUME NEW c \in Commands!Command, Q!Fifo!Push(c) PROVE Commands!Fifo!Push(c)
    BY <1>1, <1>2 DEF Waiting, Q!Fifo!Push, Commands!Fifo!Push
  <1>3. Q!Fifo!PushRejected => Commands!Fifo!PushRejected
    BY <1>1 DEF Waiting, Q!Fifo!PushRejected, Commands!Fifo!PushRejected
  <1>4. Q!Fifo!Pop => Commands!Fifo!Pop
    BY <1>1 DEF Waiting, Q!Fifo!Pop, Commands!Fifo!Pop
  <1>5. Q!Fifo!PopEmpty => Commands!Fifo!PopEmpty
    BY <1>1 DEF Waiting, Q!Fifo!PopEmpty, Commands!Fifo!PopEmpty
  <1>6. UNCHANGED Q!Fifo!vars => UNCHANGED Commands!Fifo!vars
    BY <1>1 DEF Waiting, Q!Fifo!vars, Commands!Fifo!vars
  <1> QED BY <1>2, <1>3, <1>4, <1>5, <1>6 DEF FifoStep, Q!Fifo!Next, Commands!Fifo!Next

LEMMA SameFifoInit ==
  ASSUME QueueInv, Q!Fifo!Init
  PROVE  Commands!Fifo!Init
  BY WaitingIsContents DEF WaitingContents, Waiting, Q!Fifo!Init, Commands!Fifo!Init

(* What RingBufProofs shows of a step of the ring. *)
LEMMA RingStepFacts ==
  ASSUME QueueInv, RingStep, Commands!TypeOK', HalfCopied'
  PROVE  QueueInv' /\ FifoStep
  <1>1. Q!TypeOK'
    BY QueueSizes, Q!TypeStep DEF RingStep, QueueInv, Q!IInv
  <1>2. Q!IInv'
    BY <1>1, QueueSizes, Q!IInvStep DEF RingStep, QueueInv
  <1>3. FifoStep
    BY <1>2, QueueSizes, Q!RefinedStep DEF RingStep, FifoStep, QueueInv
  <1> QED BY <1>2, <1>3 DEF QueueInv

(* A step of either side of the queue keeps the invariant and is a step of *)
(* the bounded queue, or none.                                             *)
LEMMA QueueStep ==
  ASSUME QueueInv, Commands!Next \/ UNCHANGED queue_vars
  PROVE  QueueInv' /\ [Commands!Fifo!Next]_(Commands!Fifo!vars)
  <1> SUFFICES QueueInv' /\ FifoStep
    BY SameFifo
  <1>1. ASSUME NEW c \in Commands!Command, Commands!Enqueue(c)
        PROVE  QueueInv' /\ FifoStep
    <2>1. CASE Commands!Full
      BY <1>1, <2>1, RefusalIsRingStep, RingStepFacts
    <2>2. CASE ~ Commands!Full
      BY <1>1, <2>2, PushStep DEF FifoStep, Q!Fifo!Next
    <2> QED BY <2>1, <2>2
  <1>2. CASE Commands!PopTest \/ Commands!PopCopy \/ Commands!PopAdvance
    BY <1>2, PopIsRingStep, RingStepFacts
  <1>3. CASE UNCHANGED queue_vars
    <2>1. RingStep
      BY <1>3 DEF queue_vars, RingStep, Q!vars, Q!producerVars, Q!consumerVars, CopyPc
    <2>2. Commands!TypeOK' /\ HalfCopied'
      BY <1>3 DEF queue_vars, QueueInv, Commands!TypeOK, HalfCopied, Commands!Slot
    <2> QED BY <2>1, <2>2, RingStepFacts
  <1> QED BY <1>1, <1>2, <1>3 DEF Commands!Next

(* lib_regmap's command queue implements the bounded one for every capacity,
   index width and set of commands: whatever try_pop was interrupted at, a
   command comes out whole, once and in the order enqueued, a refusal means
   the queue was full, and every refusal is counted. *)
THEOREM QueueImplementsFifo == MCSpec => ImplementsQueue
  <1>1. MCInit => QueueInv /\ Commands!Fifo!Init
    BY QueueInvInit, SameFifoInit DEF MCInit
  <1>2. QueueInv /\ [MCNext]_<<exercised, vars, queue_vars, atomic_vars, memory_vars>>
          => QueueInv' /\ [Commands!Fifo!Next]_(Commands!Fifo!vars)
    BY QueueStep DEF MCNext
  <1>3. QueueInv => Commands!TypeOK
    BY DEF QueueInv
  <1> QED
    BY <1>1, <1>2, <1>3, PTL
    DEF MCSpec, ImplementsQueue, Commands!ImplementsFifo, Commands!Fifo!Spec
=============================================================================
