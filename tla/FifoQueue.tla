------------------------------ MODULE FifoQueue ------------------------------
(***************************************************************************)
(* What the task queue promises its callers: a first-in first-out queue of *)
(* socket descriptors.  orchestrator.c:25-26: "orchestrator adds to a task *)
(* queue via a multiplex cycle. the queue is then processed fifo by the    *)
(* thread handler."                                                        *)
(***************************************************************************)
EXTENDS Sequences

CONSTANTS Descriptors,  \* socket descriptors that can be queued
          NoTask        \* handed out when there is nothing to hand out

VARIABLES queue,        \* the descriptors waiting, oldest first
          taken         \* what the latest pull handed out

vars == <<queue, taken>>

Init == queue = <<>> /\ taken = NoTask

Put(d) == queue' = Append(queue, d) /\ UNCHANGED taken

Take == /\ queue # <<>>
        /\ taken' = Head(queue)
        /\ queue' = Tail(queue)

TakeNothing == queue = <<>> /\ taken' = NoTask /\ UNCHANGED queue

Next == (\E d \in Descriptors : Put(d)) \/ Take \/ TakeNothing

Spec == Init /\ [][Next]_vars
=============================================================================
