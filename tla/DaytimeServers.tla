--------------------------- MODULE DaytimeServers ---------------------------
(***************************************************************************)
(* The asynchronous daytime servers on one io_context and one thread       *)
(* (tcp_udp.cpp; alone they are tcp_server_async.cpp and                   *)
(* udp_server_async.cpp).                                                  *)
(*                                                                         *)
(* tcp_server accepts one connection after the other; a connection writes  *)
(* its message and lives as long as an operation or a handler refers to    *)
(* it.  udp_server receives one datagram after the other into the same     *)
(* remote_endpoint_, while replies to earlier ones may still wait.         *)
(***************************************************************************)
EXTENDS Naturals, Sequences, FiniteSets

CONSTANTS
    Clients,      \* of the TCP server
    Peers,        \* of the UDP server
    Connections,  \* tcp_connection objects (bound; a freed one is used again)
    Pieces,       \* pieces a message may be written in
    MaxRequests,  \* bound: datagrams
    MaxFaults,    \* bound: accepts and receives that fail, clients that go away
    None

ASSUME ServerParameters ==
    /\ Pieces \in Nat \ {0} /\ MaxRequests \in Nat /\ MaxFaults \in Nat
    /\ None \notin Clients \cup Peers \cup Connections
    /\ IsFiniteSet(Clients) /\ IsFiniteSet(Connections)
    \* one to accept, one per client and one that has just failed
    /\ Cardinality(Connections) > Cardinality(Clients) + 1

VARIABLES
    ready,      \* the queue of the io_context
    accepting,  \* the connection a pending async_accept will open, or None
    objects,    \* connections that exist
    peer,       \* whom a connection's socket is connected to
    writes,     \* pending writes: connection, pieces left, does the handler own it?
    receiving,  \* is an async_receive_from pending?
    remote,     \* remote_endpoint_
    sends,      \* destinations of the pending async_send_to
    backlog, inbox,   \* what the kernel holds for the acceptor and the UDP socket
    client,     \* of each TCP client: where it is
    got,        \* pieces it got
    asked, answered,  \* history: senders of the datagrams received, and answered
    deaf,             \* history: has a receive failed?
    requests, faults  \* counters held below their bounds

tcp == <<accepting, objects, peer, writes, client, got, backlog>>
udp == <<receiving, remote, sends, inbox, asked, answered, deaf, requests>>
vars == <<ready, tcp, udp, faults>>

Entry(op, ok, conn, owns, left) ==
    [op |-> op, ok |-> ok, conn |-> conn, owns |-> owns, left |-> left]
Entries == [op : {"accept", "write", "receive", "send"}, ok : BOOLEAN,
            conn : Connections \cup {None}, owns : BOOLEAN, left : 0..Pieces]
Writes == [conn : Connections, left : 1..Pieces, owns : BOOLEAN]

TypeOK ==
    /\ ready \in Seq(Entries)
    /\ accepting \in Connections \cup {None} /\ objects \subseteq Connections
    /\ peer \in [Connections -> Clients \cup {None}] /\ writes \subseteq Writes
    /\ receiving \in BOOLEAN /\ deaf \in BOOLEAN /\ remote \in Peers \cup {None} /\ sends \in Seq(Peers)
    /\ backlog \in Seq(Clients) /\ inbox \in Seq(Peers)
    /\ client \in [Clients -> {"idle", "connected", "closed", "gone"}]
    /\ got \in [Clients -> 0..Pieces]
    /\ asked \in Seq(Peers) /\ answered \in Seq(Peers)
    /\ requests \in 0..MaxRequests /\ faults \in 0..MaxFaults

\* make_shared: a connection that does not exist, no matter which.
Fresh(existing) == CHOOSE c \in Connections \ existing : TRUE

\* Both constructors have run: an accept and a receive are pending.
Init ==
    /\ ready = <<>>
    /\ accepting = Fresh({}) /\ objects = {accepting}
    /\ peer = [c \in Connections |-> None] /\ writes = {}
    /\ receiving = TRUE /\ remote = None /\ sends = <<>>
    /\ backlog = <<>> /\ inbox = <<>>
    /\ client = [k \in Clients |-> "idle"] /\ got = [k \in Clients |-> 0]
    /\ asked = <<>> /\ answered = <<>> /\ deaf = FALSE
    /\ requests = 0 /\ faults = 0

Handler == Head(ready)
Runs(op) == ready # <<>> /\ Handler.op = op

\* The last reference to a connection is gone with its handler: its socket is
\* closed, and the client sees the end of the stream.
Owned(q, a, w) ==
    {c \in Connections :
       \/ c = a
       \/ \E i \in 1..Len(q) : q[i].conn = c /\ q[i].owns
       \/ \E x \in w : x.conn = c /\ x.owns}
Release ==
    /\ objects' = objects \cap Owned(ready', accepting', writes')
    /\ client' = [k \in Clients |->
         IF client[k] = "connected" /\ \E c \in objects \ objects' : peer[c] = k
         THEN "closed" ELSE client[k]]
    /\ peer' = [c \in Connections |-> IF c \in objects' THEN peer[c] ELSE None]

-----------------------------------------------------------------------------
(* tcp_server and tcp_connection.                                          *)

\* Operators named Bad... are wrong variants of the definition that follows
\* them; the checks substitute them to see that a property notices.

\* start(): async_write, its handler bound to shared_from_this().
BadStart(c) == {[conn |-> c, left |-> Pieces, owns |-> FALSE]}

Start(c) == {[conn |-> c, left |-> Pieces, owns |-> TRUE]}

\* handle_accept(): the connection starts, and the next one is accepted.  There
\* are always connections left (ServerParameters).
BadHandleAccept ==
    /\ Runs("accept") /\ Connections \ objects # {} /\ ready' = Tail(ready)
    /\ writes' = IF Handler.ok THEN writes \cup Start(Handler.conn) ELSE writes
    /\ IF Handler.ok
       THEN LET c == Fresh(objects) IN
              /\ accepting' = c
              /\ objects' = (objects \cap Owned(ready', None, writes')) \cup {c}
       ELSE accepting' = None /\ objects' = objects \cap Owned(ready', None, writes')
    /\ UNCHANGED <<peer, client, got, backlog, faults, udp>>

HandleAccept ==
    /\ Runs("accept") /\ Connections \ objects # {} /\ ready' = Tail(ready)
    /\ writes' = IF Handler.ok THEN writes \cup Start(Handler.conn) ELSE writes
    /\ LET c == Fresh(objects) IN
         /\ accepting' = c
         /\ objects' = (objects \cap Owned(ready', None, writes')) \cup {c}
    /\ UNCHANGED <<peer, client, got, backlog, faults, udp>>

\* async_write goes on until the message is written or an error ends it.
BadContinueWrite ==
    /\ Runs("write") /\ ready' = Tail(ready)
    /\ UNCHANGED <<writes, accepting, got, backlog, faults, udp>> /\ Release

WorseContinueWrite ==
    /\ Runs("write") /\ ready' = Tail(ready)
    /\ writes' = IF Handler.ok
                 THEN writes \cup {[conn |-> Handler.conn, left |-> Handler.left, owns |-> Handler.owns]}
                 ELSE writes
    /\ UNCHANGED <<accepting, got, backlog, faults, udp>> /\ Release

ContinueWrite ==
    /\ Runs("write") /\ ready' = Tail(ready)
    /\ writes' = IF Handler.ok /\ Handler.left > 0
                 THEN writes \cup {[conn |-> Handler.conn, left |-> Handler.left, owns |-> Handler.owns]}
                 ELSE writes
    /\ UNCHANGED <<accepting, got, backlog, faults, udp>> /\ Release

-----------------------------------------------------------------------------
(* udp_server.                                                             *)

\* recvfrom(), at once in async_receive_from or when the reactor reports.
Received(q, in) ==
    /\ remote' = Head(in) /\ asked' = Append(asked, Head(in)) /\ inbox' = Tail(in)
    /\ ready' = Append(q, Entry("receive", TRUE, None, FALSE, 0))
    /\ receiving' = FALSE

StartReceive(q) ==
    \/ inbox # <<>> /\ Received(q, inbox)
    \/ receiving' = TRUE /\ ready' = q /\ UNCHANGED <<remote, asked, inbox>>

\* handle_receive(): the reply has its own copy of remote_endpoint_, taken
\* before the next receive may overwrite it.  An error ends the loop.
BadHandleReceive ==
    /\ Runs("receive")
    /\ IF Handler.ok
       THEN StartReceive(Tail(ready)) /\ sends' = Append(sends, remote')
       ELSE ready' = Tail(ready) /\ UNCHANGED <<receiving, remote, asked, inbox, sends>>
    /\ UNCHANGED <<answered, deaf, requests, tcp, faults>>

WorseHandleReceive ==
    /\ Runs("receive") /\ ready' = Tail(ready)
    /\ sends' = IF Handler.ok THEN Append(sends, remote) ELSE sends
    /\ UNCHANGED <<receiving, remote, asked, inbox, answered, deaf, requests, tcp, faults>>

HandleReceive ==
    /\ Runs("receive")
    /\ IF Handler.ok
       THEN StartReceive(Tail(ready)) /\ sends' = Append(sends, remote)
       ELSE ready' = Tail(ready) /\ UNCHANGED <<receiving, remote, asked, inbox, sends>>
    /\ UNCHANGED <<answered, deaf, requests, tcp, faults>>

HandleSend ==
    /\ Runs("send") /\ ready' = Tail(ready)
    /\ UNCHANGED <<tcp, udp, faults>>

-----------------------------------------------------------------------------
(* The reactor performs what is pending; a failed accept takes no client   *)
(* from the backlog.                                                       *)

Fault == faults < MaxFaults /\ faults' = faults + 1

Accept(ok) ==
    /\ accepting # None /\ backlog # <<>>
    /\ ready' = Append(ready, Entry("accept", ok, accepting, TRUE, 0)) /\ accepting' = None
    /\ IF ok
       THEN /\ peer' = [peer EXCEPT ![accepting] = Head(backlog)]
            /\ backlog' = Tail(backlog) /\ UNCHANGED faults
       ELSE Fault /\ UNCHANGED <<peer, backlog>>
    /\ UNCHANGED <<objects, writes, client, got, udp>>

WritePiece(x) ==
    LET k == peer[x.conn]  ok == client[k] = "connected" IN
    /\ x \in writes /\ writes' = writes \ {x}
    /\ ready' = Append(ready, Entry("write", ok, x.conn, x.owns, x.left - 1))
    /\ got' = IF ok THEN [got EXCEPT ![k] = @ + 1] ELSE got
    /\ UNCHANGED <<accepting, objects, peer, client, backlog, faults, udp>>

Receive ==
    /\ receiving /\ inbox # <<>> /\ Received(ready, inbox)
    /\ UNCHANGED <<tcp, sends, answered, deaf, requests, faults>>

ReceiveFails ==
    /\ Fault /\ receiving /\ receiving' = FALSE /\ deaf' = TRUE
    /\ ready' = Append(ready, Entry("receive", FALSE, None, FALSE, 0))
    /\ UNCHANGED <<tcp, remote, sends, inbox, asked, answered, requests>>

SendReply ==
    /\ sends # <<>> /\ sends' = Tail(sends) /\ answered' = Append(answered, Head(sends))
    /\ ready' = Append(ready, Entry("send", TRUE, None, FALSE, 0))
    /\ UNCHANGED <<tcp, receiving, remote, inbox, asked, deaf, requests, faults>>

-----------------------------------------------------------------------------
(* The clients.                                                            *)

Connect(k) ==
    /\ client[k] = "idle" /\ client' = [client EXCEPT ![k] = "connected"]
    /\ backlog' = Append(backlog, k)
    /\ UNCHANGED <<ready, accepting, objects, peer, writes, got, faults, udp>>

Disconnect(k) ==
    /\ Fault /\ client[k] = "connected" /\ client' = [client EXCEPT ![k] = "gone"]
    /\ UNCHANGED <<ready, accepting, objects, peer, writes, got, backlog, udp>>

Ask(p) ==
    /\ requests < MaxRequests /\ requests' = requests + 1 /\ inbox' = Append(inbox, p)
    /\ UNCHANGED <<ready, tcp, receiving, remote, sends, asked, answered, deaf, faults>>

-----------------------------------------------------------------------------
Handle == HandleAccept \/ ContinueWrite \/ HandleReceive \/ HandleSend
ReactorTcp == Accept(TRUE) \/ Accept(FALSE)
World == ReceiveFails \/ (\E k \in Clients : Connect(k) \/ Disconnect(k)) \/ \E p \in Peers : Ask(p)

Next == Handle \/ ReactorTcp \/ (\E x \in writes : WritePiece(x)) \/ Receive \/ SendReply \/ World

\* The thread runs, and the reactor performs what can be performed: a message
\* this short fits any socket's buffer.
Fairness ==
    /\ WF_vars(Handle) /\ WF_vars(ReactorTcp) /\ WF_vars(Receive) /\ WF_vars(SendReply)
    /\ WF_vars(\E x \in writes : WritePiece(x))

Spec == Init /\ [][Next]_vars /\ Fairness

-----------------------------------------------------------------------------
Queued(op) == {i \in 1..Len(ready) : ready[i].op = op}

\* The accept loop neither forks nor dies, whatever the accepts return; so
\* run() never returns either.
OneAccept ==
    (IF accepting = None THEN 0 ELSE 1) + Cardinality(Queued("accept")) = 1

\* A connection outlives every operation on its socket.
NoUseAfterFree ==
    /\ accepting # None => accepting \in objects
    /\ \A x \in writes : x.conn \in objects
    /\ \A i \in Queued("accept") \cup Queued("write") : ready[i].conn \in objects

\* Every datagram received is answered to its sender, in order, although all
\* pass through one remote_endpoint_.
RepliesMatch ==
    LET unhandled == Cardinality({i \in Queued("receive") : ready[i].ok}) IN
    /\ unhandled <= 1
    /\ answered \o sends = SubSeq(asked, 1, Len(asked) - unhandled)

\* A client that stays gets the whole message and then the end of the stream.
Served == \A k \in Clients :
    client[k] = "connected" ~> client[k] = "gone" \/ (client[k] = "closed" /\ got[k] = Pieces)

\* Every datagram received is answered in the end, and unless a receive fails
\* every one sent is received, whatever the TCP server does meanwhile.
AllAnswered == <>[]((deaf \/ inbox = <<>>) /\ answered = asked)
=============================================================================
