------------------------------ MODULE MCUartTx ------------------------------
(* UartTx for TLC: see MCUartTx.cfg. *)
EXTENDS UartTx
=============================================================================
