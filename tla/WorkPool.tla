------------------------------ MODULE WorkPool ------------------------------
(***************************************************************************)
(* What io_context promises: an operation handed to it is run at most      *)
(* once, by a thread in run(), and run() does not return while one is      *)
(* unfinished, unless stop() was called.                                   *)
(***************************************************************************)
CONSTANTS Threads, Ops

VARIABLES life, asked, ending, returned

Init ==
    /\ life \in [Ops -> {"new", "pending"}]
    /\ asked = FALSE /\ ending = FALSE /\ returned = {}

Unfinished(l) == {p \in Ops : l[p] \in {"pending", "running"}}

Move(p, from, to) ==
    /\ life[p] = from /\ life' = [life EXCEPT ![p] = to]
    /\ UNCHANGED <<asked, returned>>

Submit(p) == Move(p, "new", "pending") /\ UNCHANGED ending

Begin(p) ==
    Move(p, "pending", "running") /\ returned # Threads /\ UNCHANGED ending

\* The end of the last operation may end the pool.
Complete(p) ==
    /\ Move(p, "running", "done")
    /\ ending' = (ending \/ Unfinished(life') = {})

\* A thread may also find the pool idle.
Idle ==
    /\ Unfinished(life) = {} /\ ending' = TRUE
    /\ UNCHANGED <<life, asked, returned>>

\* stop() ends it at any time.
Ask == asked' = TRUE /\ ending' = TRUE /\ UNCHANGED <<life, returned>>

Return(t) ==
    /\ ending /\ t \notin returned /\ returned' = returned \cup {t}
    /\ UNCHANGED <<life, asked, ending>>

Next == (\E p \in Ops : Submit(p) \/ Begin(p) \/ Complete(p)) \/ Idle \/ Ask
          \/ \E t \in Threads : Return(t)

Spec == Init /\ [][Next]_<<life, asked, ending, returned>>
=============================================================================
