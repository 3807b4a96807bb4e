-------------------------- MODULE MCPrinterTimers --------------------------
(***************************************************************************)
(* Model checking of PrinterTimers.                                        *)
(***************************************************************************)
EXTENDS PrinterTimers
=============================================================================
