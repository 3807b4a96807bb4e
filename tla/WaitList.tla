------------------------------ MODULE WaitList ------------------------------
(***************************************************************************)
(* What timers promise, without a heap: every wait ends once, by a         *)
(* cancellation or when its time has come, and those whose time has come   *)
(* end together, the earlier ones first.                                   *)
(***************************************************************************)
EXTENDS Naturals, Sequences, FiniteSets

CONSTANTS Timers, Times

VARIABLES
    now,
    waits,  \* of each timer, oldest first: the times they were started for
    fired   \* the times of the waits that ended last

vars == <<now, waits, fired>>

Init == now = 0 /\ waits = [i \in Timers |-> <<>>] /\ fired = <<>>

Tick == now' = now + 1 /\ UNCHANGED <<waits, fired>>

Start(i) ==
    /\ \E e \in Times : waits' = [waits EXCEPT ![i] = Append(@, e)]
    /\ UNCHANGED <<now, fired>>

\* The oldest waits of a timer end, or one in the middle.
Abort(i) ==
    /\ \E a \in 0..Len(waits[i]) : \E b \in a..Len(waits[i]) :
         /\ a = 0 \/ b = a + 1
         /\ waits' = [waits EXCEPT ![i] =
                        SubSeq(@, 1, a) \o SubSeq(@, b + 1, Len(@))]
    /\ UNCHANGED <<now, fired>>

Move(i, j) ==
    /\ waits' = [waits EXCEPT ![i] = waits[j], ![j] = <<>>]
    /\ UNCHANGED <<now, fired>>

\* The timers whose time has come lose all their waits together, and each of
\* these is reported once.
Due == {i \in Timers : \E k \in DOMAIN waits[i] : waits[i][k] <= now}
Ended == UNION {{i} \X DOMAIN waits[i] : i \in Due}

Fire ==
    /\ \A w \in Ended : waits[w[1]][w[2]] <= now
    /\ waits' = [i \in Timers |-> IF i \in Due THEN <<>> ELSE waits[i]]
    /\ fired' \in Seq(Times) /\ \A k \in 2..Len(fired') : fired'[k - 1] <= fired'[k]
    /\ \A e \in Times : Cardinality({k \in DOMAIN fired' : fired'[k] = e})
                         = Cardinality({w \in Ended : waits[w[1]][w[2]] = e})
    /\ UNCHANGED now

Next ==
    \/ Tick
    \/ \E i \in Timers : Start(i) \/ Abort(i) \/ \E j \in Timers : Move(i, j)
    \/ Fire

Spec == Init /\ [][Next]_vars
=============================================================================
