---------------------------- MODULE CrashRecord ----------------------------
(***************************************************************************)
(* The retained crash record: lib/lib_crash.c with Reset_Handler and the   *)
(* exception handlers of device/mspm0c1106/startup.c.                      *)
(*                                                                         *)
(* The record lives in .noinit SRAM.  It survives a reset, which may come  *)
(* between any two stores to it; a power loss may scramble any part of it; *)
(* and an exception of higher priority may abandon a running capture.  The *)
(* record is not volatile, so the compiler may order the stores to its     *)
(* fields as it likes, but not across the two fences of lib_crash_commit.  *)
(***************************************************************************)
EXTENDS Integers, Sequences

CONSTANTS
  Cause,        \* reset causes of RSTCAUSE
  Junk,         \* a word scrambled by a power loss
  Level,        \* the exceptions considered, by priority
  Losses,       \* the sets of fields a power loss may scramble
  SeqModulus    \* number of values of the uint32_t sequence

(* The fault code stands for the reason, pc and xpsr words of the record.  *)
(* The reason codes UNEXPECTED_EXCEPTION, HARDFAULT and NMI, by priority:  *)
(* a later one preempts an earlier one, and nothing preempts NMI.          *)
Reason == <<3, 2, 1>>

(* LIB_CRASH_MAGIC, and the format version with the record size. *)
Magic == 1
VersionSize == 1

Sequence == 0 .. SeqModulus - 1
Codes == {Reason[l] : l \in Level}

(* A scrambled word is none that the code stores, nor a CRC that matches.  *)
ASSUME CrashAssumption ==
  /\ Level \subseteq 1 .. 3
  /\ SeqModulus \in Nat \ {0}
  /\ Junk \notin Cause \cup {0, Magic}
  /\ Junk \notin {VersionSize} \X (Sequence \cup {Junk}) \X (Cause \cup {0, Junk})
                 \X (Codes \cup {0, Junk})

Fields == {"magic", "format", "sequence", "reset_cause", "reason", "crc"}

ASSUME LossesAssumption == Losses \subseteq SUBSET Fields

VARIABLES
  record,      \* g_crash_record
  todo,        \* stores still to do: per fence, and field, the values in order
  mode,        \* boot (lib_crash_note_boot), run (main), capture (handler)
  level,       \* priority of the running handler, 0 for the thread
  \* What should have been recorded (not program state):
  committed,   \* the protected fields at the last completed commit
  intact,      \* nothing has disturbed the record since then
  captures,    \* captures since the record was last intact from the start
  reason       \* the reason of the last of them

vars == <<record, todo, mode, level, committed, intact, captures, reason>>

(* The fields the CRC covers.  The CRC is taken to be collision free: it   *)
(* is the tuple of what it was computed from.                              *)
Protected(r) == <<r.format, r.sequence, r.reset_cause, r.reason>>

(* lib_crash_reason_code_is_valid: NONE or the code of an exception.  A     *)
(* scrambled word may hold such a code too; the CRC rejects it all the same. *)
ReasonCodeValid(code) == code = 0 \/ \E l \in DOMAIN Reason : code = Reason[l]

(* lib_crash_is_valid *)
Mut_IsValidNoCrc(r) ==
  r.magic = Magic /\ r.format = VersionSize /\ ReasonCodeValid(r.reason)

IsValid(r) ==
  /\ r.magic = Magic
  /\ r.format = VersionSize
  /\ ReasonCodeValid(r.reason)
  /\ r.crc = Protected(r)

(* lib_crash_clear_record; the empty tuple stands for a CRC word of 0. *)
Cleared == [f \in Fields |-> IF f = "crc" THEN << >> ELSE 0]
Clear == [f \in Fields |-> <<Cleared[f]>>]
-----------------------------------------------------------------------------
(* The stores of lib_crash_commit after those in `before`, for a record    *)
(* whose covered fields end up as in r.                                    *)
Commit(before, r) ==
  LET final == [r EXCEPT !.format = VersionSize] IN
  << [before EXCEPT !["magic"] = <<0>>],
     [f \in Fields |-> CASE f = "format" -> <<VersionSize>>
                         [] f = "crc" -> <<Protected(final)>>
                         [] OTHER -> << >>],
     [f \in Fields |-> IF f = "magic" THEN <<Magic>> ELSE << >>] >>

(* lib_crash_note_boot: a valid record keeps all but its reset cause, any  *)
(* other is cleared first.                                                 *)
Mut_NoteBootClears(r, cause) ==
  Commit([Clear EXCEPT !["reset_cause"] = <<0, cause>>],
         [Cleared EXCEPT !.reset_cause = cause])

NoteBoot(r, cause) ==
  IF IsValid(r)
  THEN Commit([f \in Fields |-> IF f = "reset_cause" THEN <<cause>> ELSE << >>],
              [r EXCEPT !.reset_cause = cause])
  ELSE Commit([Clear EXCEPT !["reset_cause"] = <<0, cause>>],
              [Cleared EXCEPT !.reset_cause = cause])

(* lib_crash_capture: sequence and reset cause of a valid record are read, *)
(* then everything is cleared and written anew.                            *)
Capture(why) ==
  LET valid == IsValid(record)
      final == [Cleared EXCEPT
                  !.sequence = ((IF valid THEN record.sequence ELSE 0) + 1) % SeqModulus,
                  !.reset_cause = IF valid THEN record.reset_cause ELSE 0,
                  !.reason = why]
  IN  Commit([f \in Fields |->
                IF f \in {"sequence", "reset_cause", "reason"}
                THEN Append(Clear[f], final[f]) ELSE Clear[f]],
             final)
-----------------------------------------------------------------------------
(* Cold boot: nothing is known about the contents of SRAM. *)
Init ==
  /\ record = [f \in Fields |-> Junk]
  /\ mode = "boot" /\ level = 0
  /\ \E cause \in Cause : todo = NoteBoot(record, cause)
  /\ committed = << >> /\ intact = FALSE /\ captures = 0 /\ reason = 0

Stored(group) == \A f \in Fields : group[f] = << >>

(* The routine stores its next value to field f; the store that leaves     *)
(* nothing to do, that of the magic word, completes the commit.            *)
Store(f) ==
  /\ todo # << >>
  /\ todo[1][f] # << >>
  /\ record' = [record EXCEPT ![f] = Head(todo[1][f])]
  /\ LET rest == [todo[1] EXCEPT ![f] = Tail(@)]
     IN  todo' = IF Stored(rest) THEN Tail(todo) ELSE [todo EXCEPT ![1] = rest]
  /\ IF todo' = << >>
       THEN /\ committed' = Protected(record')
            /\ intact' = TRUE
            /\ captures' = IF ~ intact THEN record'.sequence
                           ELSE IF mode = "capture" THEN (captures + 1) % SeqModulus
                           ELSE captures
            /\ reason' = IF intact /\ mode = "boot" THEN reason ELSE record'.reason
       ELSE UNCHANGED <<committed, intact, captures, reason>>
  /\ UNCHANGED <<mode, level>>

(* note_boot returns: .data and .bss are set up and main runs. *)
EnterMain ==
  /\ mode = "boot"
  /\ todo = << >>
  /\ mode' = "run"
  /\ UNCHANGED <<record, todo, level, committed, intact, captures, reason>>

(* Reset_Handler: RSTCAUSE is read and lib_crash_note_boot called. *)
Restart(r, cause) ==
  /\ record' = r
  /\ mode' = "boot"
  /\ level' = 0
  /\ todo' = NoteBoot(r, cause)
  /\ UNCHANGED <<committed, captures, reason>>

(* crash_capture_from_values: NVIC_SystemReset once the capture is done. *)
Mut_SystemResetSpins ==
  /\ mode = "capture"
  /\ todo = << >>
  /\ FALSE
  /\ UNCHANGED vars

SystemReset ==
  /\ mode = "capture"
  /\ todo = << >>
  /\ \E cause \in Cause : Restart(record, cause)
  /\ UNCHANGED intact

(* A watchdog or pin reset, at any time. *)
Reset(cause) ==
  /\ Restart(record, cause)
  /\ intact' = (intact /\ todo = << >>)

(* A power loss: the words in `lost` do not survive it. *)
PowerCycle(cause, lost) ==
  /\ Restart([f \in Fields |-> IF f \in lost THEN Junk ELSE record[f]], cause)
  /\ intact' = FALSE

(* NMI_Handler, HardFault_Handler or Default_Handler is entered, unless a  *)
(* handler of the same or a higher priority runs; it never returns to what *)
(* it interrupts.  A main that returns enters Default_Handler as well.     *)
Exception(l) ==
  /\ l > level
  /\ mode' = "capture"
  /\ level' = l
  /\ todo' = Capture(Reason[l])
  /\ intact' = (intact /\ todo = << >>)
  /\ UNCHANGED <<record, committed, captures, reason>>

Cpu == (\E f \in Fields : Store(f)) \/ EnterMain \/ SystemReset

Next ==
  \/ Cpu
  \/ \E cause \in Cause : Reset(cause) \/ \E lost \in Losses : PowerCycle(cause, lost)
  \/ \E l \in Level : Exception(l)

(* The CPU executes; nothing says that faults or resets happen. *)
Spec == Init /\ [][Next]_vars /\ WF_vars(Cpu)
-----------------------------------------------------------------------------
Content == {VersionSize} \X Sequence \X (Cause \cup {0}) \X (Codes \cup {0})

(* The type invariant. *)
TypeOK ==
  /\ record.magic \in {0, Magic, Junk}
  /\ record.format \in {0, VersionSize, Junk}
  /\ record.sequence \in Sequence \cup {Junk}
  /\ record.reset_cause \in Cause \cup {0, Junk}
  /\ record.reason \in Codes \cup {0, Junk}
  /\ record.crc \in Content \cup {<< >>, Junk}
  /\ mode \in {"boot", "run", "capture"}
  /\ level \in {0} \cup Level
  /\ (mode = "capture") = (level > 0)
  /\ committed \in Content \cup {<< >>}
  /\ intact \in BOOLEAN
  /\ captures \in Sequence

(* Wherever a reset, a power loss or a nested exception cut a commit off,  *)
(* a record that validates holds exactly what the last completed commit    *)
(* wrote: no mixture of an old and a new record is ever believed.          *)
ValidIsCommitted ==
  /\ TypeOK
  /\ IsValid(record) => Protected(record) = committed

(* Evidence is kept.  As long as no reset hits a store sequence, main      *)
(* finds a valid record, over any number of boots, with the reason of the  *)
(* last fault and the number of faults captured.                           *)
EvidenceKept ==
  (intact /\ todo = << >>) =>
    /\ IsValid(record)
    /\ record.sequence = captures
    /\ record.reason = reason

(* Every fault ends in a reset and every reset in main: once faults,       *)
(* resets and power losses cease, main runs with a valid record.           *)
Recovers == <>[][Cpu]_vars => <>[](mode = "run" /\ IsValid(record))
=============================================================================
