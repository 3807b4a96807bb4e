-------------------------- MODULE MCDaytimeServers --------------------------
(***************************************************************************)
(* Model checking of DaytimeServers.                                       *)
(***************************************************************************)
EXTENDS DaytimeServers
=============================================================================
