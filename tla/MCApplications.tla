--------------------------- MODULE MCApplications ---------------------------
(***************************************************************************)
(* Applications for TLC.  The writes of the transmit test are the greeting,*)
(* the two bursts and their reports, scaled to a ring of four bytes; the   *)
(* frequencies and the baud rate of bring-up are the board's.              *)
(***************************************************************************)
EXTENDS Applications

FiveWrites == <<[length |-> 3, expect |-> "none"],
                [length |-> 2, expect |-> "lossless"],
                [length |-> 2, expect |-> "none"],
                [length |-> 8, expect |-> "overload"],
                [length |-> 2, expect |-> "none"]>>
=============================================================================
