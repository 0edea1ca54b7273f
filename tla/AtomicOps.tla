----------------------------- MODULE AtomicOps -----------------------------
(***************************************************************************)
(* The atomic helpers of arch/arch_atomic_cm0.c, one step per access to    *)
(* the word or to PRIMASK, on a core where an exception may preempt what   *)
(* runs between any two steps unless PRIMASK is set.  The critical section *)
(* of arch/arch_critical.h may be nested: a caller may hold one already.   *)
(***************************************************************************)
EXTENDS Integers, Sequences

CONSTANTS
  Context,    \* the thread and the interrupt handlers, numbered by urgency:
              \* 0 is the thread, and a higher number preempts a lower one
  WordModulus \* number of values of the word

ASSUME AtomicAssumption ==
  Context \subseteq Nat /\ 0 \in Context /\ WordModulus \in Nat \ {0}

Word == 0 .. WordModulus - 1

VARIABLES
  word,       \* *object
  primask,
  running,    \* what is active, from the thread to the one that runs
  pc,         \* per context: idle, or where in the helper it is
  op,         \* its operation and operands
  saved,      \* the PRIMASK its critical section is to restore
  outer,      \* the same for a section the caller opened, or "none"
  observed,   \* the word it has loaded
  seen        \* what the last call reported: *expected or the return value

local == <<op, saved, outer, observed>>
atomic_vars == <<word, primask, running, pc, local, seen>>

Operation == [kind : {"exchange"}, expected : Word, desired : Word]
               \cup [kind : {"sub"}, operand : Word]
NoOperation == [kind |-> "none"]

AtomicInit ==
  /\ word = 0 /\ primask = FALSE /\ running = <<0>>
  /\ pc = [c \in Context |-> "idle"]
  /\ op = [c \in Context |-> NoOperation]
  /\ saved = [c \in Context |-> FALSE]
  /\ outer = [c \in Context |-> "none"]
  /\ observed = [c \in Context |-> 0]
  /\ seen = [c \in Context |-> 0]
-----------------------------------------------------------------------------
Top == running[Len(running)]

(* An exception is taken, and returns. *)
Preempt(c) ==
  /\ ~ primask
  /\ c > Top
  /\ running' = Append(running, c)
  /\ UNCHANGED <<word, primask, pc, local, seen>>

Return ==
  /\ Len(running) > 1
  /\ pc[Top] = "idle" /\ outer[Top] = "none"
  /\ running' = SubSeq(running, 1, Len(running) - 1)
  /\ UNCHANGED <<word, primask, pc, local, seen>>

(* The context that runs goes from one step of a helper to the next. *)
At(from, to) == pc[Top] = from /\ pc' = [pc EXCEPT ![Top] = to]

(* A caller opens a critical section of its own around its calls, and      *)
(* closes it: arch_critical_enter and arch_critical_exit.                  *)
OuterEnter ==
  /\ pc[Top] = "idle" /\ outer[Top] = "none"
  /\ outer' = [outer EXCEPT ![Top] = IF primask THEN "masked" ELSE "open"]
  /\ primask' = TRUE
  /\ UNCHANGED <<word, running, pc, op, saved, observed, seen>>

OuterExit ==
  /\ pc[Top] = "idle" /\ outer[Top] # "none"
  /\ primask' = (outer[Top] = "masked")
  /\ outer' = [outer EXCEPT ![Top] = "none"]
  /\ UNCHANGED <<word, running, pc, op, saved, observed, seen>>

(* __atomic_compare_exchange_4 or __atomic_fetch_sub_4 is called.          *)
Call(o) ==
  /\ At("idle", "enter")
  /\ op' = [op EXCEPT ![Top] = o]
  /\ UNCHANGED <<word, primask, running, saved, outer, observed, seen>>

(* arch_critical_enter reads PRIMASK and then sets it. *)
SavePrimask ==
  /\ At("enter", "mask")
  /\ saved' = [saved EXCEPT ![Top] = primask]
  /\ UNCHANGED <<word, primask, running, op, outer, observed, seen>>

Mut_MaskedNot == primask
Masked == TRUE

Mask ==
  /\ At("mask", "load")
  /\ primask' = Masked
  /\ UNCHANGED <<word, running, local, seen>>

Load ==
  /\ At("load", "store")
  /\ observed' = [observed EXCEPT ![Top] = word]
  /\ UNCHANGED <<word, primask, running, op, saved, outer, seen>>

Difference(a, b) == (a - b) % WordModulus

(* The word after operation o has observed `value`. *)
Result(o, value) ==
  CASE o.kind = "exchange" -> IF value = o.expected THEN o.desired ELSE word
    [] o.kind = "sub" -> Difference(value, o.operand)

Store ==
  /\ At("store", "exit")
  /\ word' = Result(op[Top], observed[Top])
  /\ seen' = [seen EXCEPT ![Top] = observed[Top]]
  /\ UNCHANGED <<primask, running, local>>

(* arch_critical_exit restores what was saved. *)
Mut_RestoredOpen == FALSE
Restored == saved[Top]

Exit ==
  /\ At("exit", "idle")
  /\ primask' = Restored
  /\ op' = [op EXCEPT ![Top] = NoOperation]
  /\ saved' = [saved EXCEPT ![Top] = FALSE]
  /\ observed' = [observed EXCEPT ![Top] = 0]
  /\ UNCHANGED <<word, running, outer, seen>>

AtomicNext ==
  \/ \E c \in Context : Preempt(c)
  \/ Return
  \/ OuterEnter \/ OuterExit
  \/ \E o \in Operation : Call(o)
  \/ SavePrimask \/ Mask \/ Load \/ Store \/ Exit

AtomicSpec == AtomicInit /\ [][AtomicNext]_atomic_vars
-----------------------------------------------------------------------------
(* The type invariant. *)
AtomicTypeOK ==
  /\ word \in Word /\ primask \in BOOLEAN
  /\ running \in Seq(Context) /\ running # << >>
  /\ pc \in [Context -> {"idle", "enter", "mask", "load", "store", "exit"}]
  /\ op \in [Context -> Operation \cup {NoOperation}]
  /\ saved \in [Context -> BOOLEAN]
  /\ outer \in [Context -> {"none", "open", "masked"}]
  /\ observed \in [Context -> Word]
  /\ seen \in [Context -> Word]

(* Interrupts are masked exactly while some section is open: a section     *)
(* inside another one does not end it, and none is left masked for good.   *)
MaskedIffInside ==
  primask = \/ \E c \in Context : outer[c] # "none"
            \/ pc[Top] \in {"load", "store", "exit"}

(* Every operation takes effect in one step, on the word as it then is,    *)
(* whatever preempted the helper; C11 asks this of it.                     *)
Atomic == INSTANCE AtomicWord
ImplementsAtomicWord == Atomic!Spec
=============================================================================
