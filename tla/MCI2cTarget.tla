---------------------------- MODULE MCI2cTarget ----------------------------
(***************************************************************************)
(* I2cTarget for TLC: one-bit bytes, hence four addresses: a read-only     *)
(* page of two bytes, a writable page of one, one unmapped address.        *)
(***************************************************************************)
EXTENDS I2cTarget

TwoPages == <<[first |-> 0, length |-> 2, writable |-> FALSE],
              [first |-> 2, length |-> 1, writable |-> TRUE]>>

(* How late the handler may be.  A byte and an address take nine bit times *)
(* of the bus, so only the START before them may still be pending; START   *)
(* and STOP can follow within one bit time.                                *)
PromptLate == [START   |-> {"STXDONE", "SSTOP"},
               ADDRESS |-> {"STXDONE", "SSTART"},
               BYTE    |-> {"STXDONE", "SSTART"},
               ACK     |-> {"STXDONE"},
               STOP    |-> {"SRXDONE", "STXDONE", "SSTART"}]

(* ... late by a whole byte, it still has the STOP before it to handle. *)
ByteLate == [PromptLate EXCEPT !.ADDRESS = @ \cup {"SSTOP"},
                               !.BYTE = @ \cup {"SSTOP"}]

(* ... and a repeated START may overtake the last received byte too. *)
RestartLate == [PromptLate EXCEPT !.START = @ \cup {"SRXDONE"}]
=============================================================================
