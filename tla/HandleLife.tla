------------------------------ MODULE HandleLife ------------------------------
(***************************************************************************)
(* What a uv handle wrapped for JavaScript promises: it is opened once,    *)
(* closed in two steps, and its wrapper is destroyed only after it closed. *)
(***************************************************************************)
CONSTANT Handles

VARIABLE life

Init == life = [h \in Handles |-> "none"]

Move(h, from, to) ==
    /\ life[h] = from
    /\ life' = [life EXCEPT ![h] = to]

\* At exit every handle that is still open begins to close in one step.
CloseAll ==
    life' = [h \in Handles |-> IF life[h] = "open" THEN "closing" ELSE life[h]]

\* At exit, once every handle is closed, the engine destroys what is left.
DestroyAll ==
    /\ \A h \in Handles : life[h] \notin {"open", "closing"}
    /\ life' = [h \in Handles |-> IF life[h] = "closed" THEN "destroyed" ELSE life[h]]

Next ==
    \/ \E h \in Handles :
          \/ Move(h, "none", "open")
          \/ Move(h, "open", "closing")
          \/ Move(h, "closing", "closed")
          \/ Move(h, "closed", "destroyed")
    \/ CloseAll
    \/ DestroyAll

Spec == Init /\ [][Next]_life
=============================================================================
