------------------------------ MODULE WorkQueue ------------------------------
(***************************************************************************)
(* What the thread pool promises, without threads, locks or pointers: work *)
(* is started in the order it was handed over, at most Slots pieces run at *)
(* a time, everything started is finished, and once the pool is closed     *)
(* nothing new is started and what is still waiting is dropped, but only   *)
(* after the running work has ended.                                       *)
(***************************************************************************)
EXTENDS Naturals, Sequences, FiniteSets

CONSTANTS Slots,    \* how many pieces of work may run at once
          Items     \* the work that may be handed over, each piece once

VARIABLES todo,     \* work handed over and not started, oldest first
          active,   \* work being executed
          finished, \* work executed to the end
          dropped,  \* work thrown away at shutdown
          closed    \* shutdown was requested

wqVars == <<todo, active, finished, dropped, closed>>

Waiting == {todo[i] : i \in DOMAIN todo}

Init ==
    /\ todo = <<>>
    /\ active = {} /\ finished = {} /\ dropped = {}
    /\ closed = FALSE

HandOver(x) ==
    /\ ~closed
    /\ x \notin Waiting \cup active \cup finished \cup dropped
    /\ todo' = Append(todo, x)
    /\ UNCHANGED <<active, finished, dropped, closed>>

Start ==
    /\ ~closed
    /\ todo # <<>>
    /\ Cardinality(active) < Slots
    /\ active' = active \cup {Head(todo)}
    /\ todo' = Tail(todo)
    /\ UNCHANGED <<finished, dropped, closed>>

Finish(x) ==
    /\ x \in active
    /\ active' = active \ {x}
    /\ finished' = finished \cup {x}
    /\ UNCHANGED <<todo, dropped, closed>>

Close ==
    /\ ~closed
    /\ closed' = TRUE
    /\ UNCHANGED <<todo, active, finished, dropped>>

Discard ==
    /\ closed
    /\ active = {}
    /\ todo # <<>>
    /\ dropped' = dropped \cup Waiting
    /\ todo' = <<>>
    /\ UNCHANGED <<active, finished, closed>>

Next ==
    \/ \E x \in Items : HandOver(x) \/ Finish(x)
    \/ Start \/ Close \/ Discard

\* The queue never rests while a slot is free, and closing it drains it.
Fairness ==
    /\ WF_wqVars(Start)
    /\ \A x \in Items : WF_wqVars(Finish(x))
    /\ WF_wqVars(Discard)

\* The promise without its fairness.
Safety == Init /\ [][Next]_wqVars

Spec == Safety /\ Fairness
==============================================================================
