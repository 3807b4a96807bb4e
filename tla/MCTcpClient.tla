---------------------------- MODULE MCTcpClient ----------------------------
(***************************************************************************)
(* Model checking of TcpClient; the configurations client_*.cfg give the  *)
(* constants their values.  The property below is what a reader of the     *)
(* header expects and the code does not do; client_stuck_outbox shows it,  *)
(* and client_send_livelock the same for Recovers.                         *)
(***************************************************************************)
EXTENDS TcpClient

\* On an established connection a message that waits in write_msgs_ is being
\* written: send() takes a non-empty queue to mean that a write is in progress.
QueueMeansWriting ==
    io = "running" /\ ~stopped /\ status = "Connected" /\ sock = "established" /\ call = NoCall
      /\ writeMsgs # <<>> => writes # <<>> \/ Queued("write")
=============================================================================
