----------------------------- MODULE MemoryOps -----------------------------
(***************************************************************************)
(* The byte loops of arch/arch_memory.c, one step per iteration.  memmove  *)
(* takes overlapping operands and leaves the upward case to memcpy, which  *)
(* C does not promise to be in any order: here the order decides.          *)
(***************************************************************************)
EXTENDS Integers

CONSTANTS
  MemorySize,   \* bytes of memory
  OctetValues   \* number of values of a byte

ASSUME MemoryAssumption == MemorySize \in Nat \ {0} /\ OctetValues \in Nat \ {0}

MemoryAddress == 0 .. MemorySize - 1
Octet == 0 .. OctetValues - 1

VARIABLES
  memory,
  before,   \* memory as the call found it
  request,  \* the arguments of the call
  offset,   \* index, and memmove's remaining length
  place,    \* the loop the program is in
  answer    \* what memcmp returned

memory_vars == <<memory, before, request, offset, place, answer>>

Request ==
  [op : {"memcpy", "memmove", "memset", "memcmp"}, length : 0 .. MemorySize,
   destination : 0 .. MemorySize, source : 0 .. MemorySize,
   value : 0 .. OctetValues]

(* Both operands lie in memory; memcpy's do not overlap.  An argument that *)
(* a function lacks is 0.                                                  *)
Legal(r) ==
  /\ r.destination + r.length <= MemorySize /\ r.source + r.length <= MemorySize
  /\ r.op = "memcpy" => \/ r.destination + r.length <= r.source
                        \/ r.source + r.length <= r.destination
  /\ IF r.op = "memset" THEN r.source = 0 ELSE r.value = 0

Target == request.destination .. request.destination + request.length - 1

MemoryInit ==
  /\ memory \in [MemoryAddress -> Octet] /\ before = memory
  /\ request = [op |-> "memcpy", length |-> 0, destination |-> 0, source |-> 0,
                value |-> 0]
  /\ offset = 0 /\ place = "returned" /\ answer = 0
-----------------------------------------------------------------------------
Mut_UpwardNever(r) == FALSE

(* memmove's comparison: below its source it is a memcpy. *)
Upward(r) == r.destination < r.source

Loop(r) ==
  CASE r.op = "memset" -> "fill"
    [] r.op = "memcmp" -> "compare"
    [] r.op = "memcpy" \/ (r.op = "memmove" /\ Upward(r)) -> "up"
    [] OTHER -> "down"

CallMemory(r) ==
  /\ place = "returned" /\ Legal(r)
  /\ request' = r /\ before' = memory
  /\ place' = Loop(r)
  /\ offset' = IF Loop(r) = "down" THEN r.length ELSE 0
  /\ UNCHANGED <<memory, answer>>

Put(index, octet) ==
  memory' = [memory EXCEPT ![request.destination + index] = octet]
From(index) == memory[request.source + index]

CopyUp ==
  /\ place = "up" /\ offset < request.length
  /\ Put(offset, From(offset))
  /\ offset' = offset + 1
  /\ UNCHANGED <<before, request, place, answer>>

CopyDown ==
  /\ place = "down" /\ offset # 0
  /\ offset' = offset - 1
  /\ Put(offset - 1, From(offset - 1))
  /\ UNCHANGED <<before, request, place, answer>>

(* memset stores its int argument as a uint8_t. *)
Fill ==
  /\ place = "fill" /\ offset < request.length
  /\ Put(offset, request.value % OctetValues)
  /\ offset' = offset + 1
  /\ UNCHANGED <<before, request, place, answer>>

Differs == memory[request.destination + offset] # From(offset)

CompareEqual ==
  /\ place = "compare" /\ offset < request.length /\ ~ Differs
  /\ offset' = offset + 1
  /\ UNCHANGED <<memory, before, request, place, answer>>

CompareDiffers ==
  /\ place = "compare" /\ offset < request.length /\ Differs
  /\ answer' = IF memory[request.destination + offset] < From(offset) THEN -1 ELSE 1
  /\ place' = "returned"
  /\ UNCHANGED <<memory, before, request, offset>>

Finish ==
  /\ offset = IF place = "down" THEN 0 ELSE request.length
  /\ place \in {"up", "down", "fill", "compare"}
  /\ place' = "returned"
  /\ answer' = IF place = "compare" THEN 0 ELSE answer
  /\ UNCHANGED <<memory, before, request, offset>>

MemoryNext ==
  \/ \E r \in Request : CallMemory(r)
  \/ CopyUp \/ CopyDown \/ Fill \/ CompareEqual \/ CompareDiffers \/ Finish

MemorySpec == MemoryInit /\ [][MemoryNext]_memory_vars
-----------------------------------------------------------------------------
(* The type invariant. *)
MemoryTypeOK ==
  /\ memory \in [MemoryAddress -> Octet] /\ before \in [MemoryAddress -> Octet]
  /\ request \in Request /\ Legal(request)
  /\ offset \in 0 .. request.length
  /\ place \in {"up", "down", "fill", "compare", "returned"}
  /\ answer \in {-1, 0, 1}

(* What the bytes of the target should be: those the source had when the   *)
(* call was made, or memset's value, and nothing else is written.          *)
Wanted(a) ==
  IF a \notin Target \/ request.op = "memcmp" THEN before[a]
  ELSE IF request.op = "memset" THEN request.value % OctetValues
  ELSE before[a - request.destination + request.source]

Left(i) == before[request.destination + i]
Right(i) == before[request.source + i]

(* memcmp orders the operands by their first difference. *)
AnswerRight ==
  \/ /\ answer = 0
     /\ \A i \in 0 .. request.length - 1 : Left(i) = Right(i)
  \/ \E i \in 0 .. request.length - 1 :
       /\ \A k \in 0 .. i - 1 : Left(k) = Right(k)
       /\ \/ answer = -1 /\ Left(i) < Right(i)
          \/ answer = 1 /\ Left(i) > Right(i)

(* A call that returned has done what C says of it, for every overlap of   *)
(* memmove's operands, and has touched no other byte.                      *)
MemoryRight ==
  /\ MemoryTypeOK
  /\ place = "returned" =>
       /\ \A a \in MemoryAddress : memory[a] = Wanted(a)
       /\ request.op = "memcmp" => AnswerRight
=============================================================================
