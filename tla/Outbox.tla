------------------------------- MODULE Outbox -------------------------------
(***************************************************************************)
(* What TcpClient::send() promises of the messages it takes: they reach    *)
(* the connection in the order they were accepted, none twice and none     *)
(* out of thin air, however often the connection is lost and replaced.     *)
(* It does not promise that an accepted message is ever transmitted.       *)
(***************************************************************************)
EXTENDS Naturals, Sequences

CONSTANT Messages

VARIABLES accepted, wire

Init == accepted = <<>> /\ wire = <<>>

Accept(m) ==
    /\ accepted' = Append(accepted, m)
    /\ UNCHANGED wire

Transmit ==
    /\ Len(wire) < Len(accepted)
    /\ wire' = Append(wire, accepted[Len(wire) + 1])
    /\ UNCHANGED accepted

Next == Transmit \/ \E m \in Messages : Accept(m)

Spec == Init /\ [][Next]_<<accepted, wire>>
=============================================================================
