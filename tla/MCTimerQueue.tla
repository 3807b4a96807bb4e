---------------------------- MODULE MCTimerQueue ----------------------------
(***************************************************************************)
(* Model checking of TimerQueue: six timers, so that the entry that fills  *)
(* a gap in the heap may have to move up as well as down.                  *)
(***************************************************************************)
EXTENDS TimerQueue, TLC

CONSTANTS Soon, Late

Expiries == [i \in Soon \cup Late |-> IF i \in Soon THEN 0 ELSE MaxTime]

Symmetry == Permutations(Soon) \cup Permutations(Late)
=============================================================================
