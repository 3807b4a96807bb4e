------------------------ MODULE MCSerialPortSession ------------------------
(***************************************************************************)
(* Model checking of SerialPortSession.  Besides the run that passes, two  *)
(* check a property of that module where the code does not keep it: stop() *)
(* called by a callback, and a second send() while a message is being      *)
(* written.                                                                *)
(***************************************************************************)
EXTENDS SerialPortSession
=============================================================================
