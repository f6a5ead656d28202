------------------------------- MODULE WorkPool -------------------------------
(***************************************************************************)
(* What the thread pool promises the orchestrator (thread_handler.c:31-37, *)
(* orchestrator.c:24-27): descriptors are handed to idle workers in the    *)
(* order they were submitted, each to one worker, which keeps it until it  *)
(* is done; and while an idle worker and a waiting descriptor both exist,  *)
(* somebody takes it.                                                      *)
(***************************************************************************)
EXTENDS Integers, Sequences

CONSTANTS Worker, Descriptors, NoTask

VARIABLES queue,        \* descriptors submitted and not yet taken
          holding       \* the descriptor each worker is processing

vars == <<queue, holding>>

Init == /\ queue = <<>>
        /\ holding = [w \in Worker |-> NoTask]

(* A descriptor is submitted once until a worker is done with it.          *)
InFlight(d) == \/ \E i \in 1..Len(queue) : queue[i] = d
               \/ \E w \in Worker : holding[w] = d

Submit(d) == /\ ~InFlight(d)
             /\ queue' = Append(queue, d)
             /\ UNCHANGED holding

Take(w) == /\ holding[w] = NoTask
           /\ queue # <<>>
           /\ holding' = [holding EXCEPT ![w] = Head(queue)]
           /\ queue' = Tail(queue)

Release(w) == /\ holding[w] # NoTask
              /\ holding' = [holding EXCEPT ![w] = NoTask]
              /\ UNCHANGED queue

Next == \/ \E d \in Descriptors : Submit(d)
        \/ \E w \in Worker : Take(w) \/ Release(w)

Spec == Init /\ [][Next]_vars

(* A descriptor is queued once or held by one worker, never both.          *)
OnePlace ==
  /\ \A i, j \in 1..Len(queue) : queue[i] = queue[j] => i = j
  /\ \A v, w \in Worker : holding[v] = holding[w] /\ holding[v] # NoTask => v = w
  /\ \A i \in 1..Len(queue), w \in Worker : queue[i] # holding[w]

(* No descriptor waits for ever beside an idle worker, and no worker keeps *)
(* a descriptor for ever.                                                  *)
FairSpec == /\ Spec
            /\ WF_vars(\E w \in Worker : Take(w))
            /\ \A w \in Worker : WF_vars(Release(w))
=============================================================================
