---------------------------- MODULE MCScheduler ----------------------------
(***************************************************************************)
(* Model checking of EpollReactor, and of Scheduler with it.  The threads  *)
(* that call run() do the same, so the run that checks only safety takes   *)
(* them as interchangeable.                                                *)
(***************************************************************************)
EXTENDS EpollReactor

ThreadSymmetry == Permutations(Threads)
=============================================================================
