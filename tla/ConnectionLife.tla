---------------------------- MODULE ConnectionLife ----------------------------
(***************************************************************************)
(* What becomes of a client's connection, seen from outside: it waits to   *)
(* be accepted, is watched, is queued once, is processed by one worker and *)
(* is closed, in that order and never again.  A connection can be lost     *)
(* (left open and unwatched) only if Lossy.                                *)
(***************************************************************************)
EXTENDS Integers, FiniteSets

CONSTANTS Conn,       \* connections clients may open
          Capacity,   \* how many the process can hold open
          Workers,    \* how many it can process at once
          Lossy       \* whether connections can be lost

VARIABLE phase

In(p) == {c \in Conn : phase[c] \in p}

Move(c, p, q) == phase[c] = p /\ phase' = [phase EXCEPT ![c] = q]

Held == {"watched", "queued", "processing", "lost"}

Init == phase = [c \in Conn |-> "absent"]

Arrive(c) == Move(c, "absent", "backlog")
Refuse(c) == Move(c, "backlog", "refused")

Accept(c) == /\ Cardinality(In(Held)) < Capacity
             /\ \/ Move(c, "backlog", "watched")
                \/ Lossy /\ Move(c, "backlog", "lost")

Queue(c) == \/ Move(c, "watched", "queued")
            \/ Lossy /\ Move(c, "watched", "lost")

Take(c) == /\ Cardinality(In({"processing"})) < Workers
           /\ Move(c, "queued", "processing")

Close(c) == Move(c, "processing", "closed")

Next == \E c \in Conn :
          Arrive(c) \/ Refuse(c) \/ Accept(c) \/ Queue(c) \/ Take(c) \/ Close(c)

Spec == Init /\ [][Next]_phase
=============================================================================
