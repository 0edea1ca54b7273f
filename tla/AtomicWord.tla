----------------------------- MODULE AtomicWord -----------------------------
(***************************************************************************)
(* What C11 promises of a read-modify-write operation on an atomic word:   *)
(* it happens in one step, and it tells the caller what the word was.      *)
(***************************************************************************)
EXTENDS Integers

CONSTANTS Context, WordModulus

Word == 0 .. WordModulus - 1

VARIABLES
  word,
  seen    \* per context: the word as its last operation found it

vars == <<word, seen>>

Init == word = 0 /\ seen \in [Context -> Word]

CompareExchange(c, expected, desired) ==
  /\ word' = IF word = expected THEN desired ELSE word
  /\ seen' = [seen EXCEPT ![c] = word]

FetchSub(c, operand) ==
  /\ word' = (word - operand) % WordModulus
  /\ seen' = [seen EXCEPT ![c] = word]

Next ==
  \E c \in Context :
    \/ \E expected, desired \in Word : CompareExchange(c, expected, desired)
    \/ \E operand \in Word : FetchSub(c, operand)

Spec == Init /\ [][Next]_vars
=============================================================================
