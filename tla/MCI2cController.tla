--------------------------- MODULE MCI2cController ---------------------------
(***************************************************************************)
(* I2cController with one of two callers: an application that calls        *)
(* anything at any time, or the port expander demo (PcfProbe).             *)
(***************************************************************************)
EXTENDS I2cController

CONSTANTS
  FirstA, LastA, FirstB, LastB,   \* PcfProbe
  CalledAddress                   \* the addresses that an application uses

VARIABLES
  caller,
  claimed, main_pc, trying, stage, address, port_value, probe_result,
  watchdog_running, absent   \* PcfProbe

Probe == INSTANCE PcfProbe

ASSUME ProbeAssumption == Probe!RangesFit

probe_vars == <<claimed, main_pc, trying, stage, address, port_value, probe_result,
                watchdog_running, absent>>
all_vars == <<caller, vars, probe_vars>>

MCInit == caller \in {"any", "probe"} /\ Probe!Init

Any == caller = "any" /\ UNCHANGED <<caller, probe_vars>>
AnyDriver == Any /\ Driver
AnyPickUp == Any /\ PickUp

ProbeMain == caller = "probe" /\ UNCHANGED caller /\ Probe!Main
ProbePickUp ==
  /\ caller = "probe" /\ UNCHANGED <<caller, probe_vars>>
  /\ Probe!Controller!PickUp

MCNext ==
  \/ Any /\ Next /\ op'.address \in CalledAddress
  \/ ProbeMain
  \/ caller = "probe" /\ UNCHANGED caller /\ Probe!Bus

(* The fairness of both modules. *)
MCSpec ==
  /\ MCInit /\ [][MCNext]_all_vars
  /\ WF_all_vars(AnyDriver \/ ProbeMain) /\ WF_all_vars(AnyPickUp \/ ProbePickUp)
-----------------------------------------------------------------------------
(* The demo announces success only after genuine transfers with a target   *)
(* that is there, its scan skips nobody, and it comes to an end.           *)
ReportIsTrue == caller = "probe" => Probe!ReportIsTrue
ProbeEnds == caller = "probe" => Probe!ProbeEnds
=============================================================================
