--------------------------- MODULE SerialExecutor ---------------------------
(***************************************************************************)
(* What a strand promises: the functions given to it run one at a time, in *)
(* the order in which they were given.                                     *)
(***************************************************************************)
EXTENDS Sequences

CONSTANTS Functions, Nothing

VARIABLES fifo, running

Init == fifo = <<>> /\ running = Nothing

Give(f) == fifo' = Append(fifo, f) /\ UNCHANGED running

Start ==
    /\ running = Nothing /\ fifo # <<>>
    /\ running' = Head(fifo) /\ fifo' = Tail(fifo)

Return == running # Nothing /\ running' = Nothing /\ UNCHANGED fifo

Next == Start \/ Return \/ \E f \in Functions : Give(f)

Spec == Init /\ [][Next]_<<fifo, running>>
=============================================================================
