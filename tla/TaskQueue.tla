------------------------------ MODULE TaskQueue ------------------------------
(***************************************************************************)
(* The linked list behind enqueue_task and _pull_next_task                 *)
(* (thread_handler.c), at the level of blocks and pointers.                *)
(*                                                                         *)
(* Both functions run entirely under enqueue_lock, so each is one action.  *)
(* connection_instance's fields are three functions over the addresses of  *)
(* blocks.  queue_tail is a connection_instance **: it holds the address   *)
(* of a `next' field, written here as the block that field lies in, or     *)
(* &queue_head, written Root.  A pull may free the block queue_tail points *)
(* into; `live' tells which blocks are allocated, and a freed block can be *)
(* overwritten or handed out again by the allocator at any time.           *)
(***************************************************************************)
EXTENDS Integers, Sequences

CONSTANTS
  Addr,             \* addresses calloc can return for a connection_instance
  QueueHead,        \* the dummy node queue_head points to
  Root,             \* queue_tail = &queue_head
  Null,             \* the NULL pointer
  Garbage,          \* a bit pattern that is no node: what freed memory may hold
  Descriptors,      \* socket descriptors the multiplexer delivers
  NoTask            \* "no descriptor": a pull that returned false

ASSUME AddrAssumption ==
  /\ QueueHead \in Addr
  /\ Root \notin Addr /\ Null \notin Addr /\ Garbage \notin Addr
  /\ Null # Garbage
  /\ NoTask \notin Descriptors

VARIABLES
  next, previous, socket_descriptor,   \* connection_instance, by address
  live,             \* blocks currently allocated
  queue_tail,       \* see above
  num_connections,
  fault,            \* a store went through a pointer that is no live node
  result,           \* what the latest pull stored in *result
  order,            \* history: the nodes enqueued and not yet pulled, in order
  tail_spared       \* TRUE in executions whose allocator leaves a freed block
                    \* that queue_tail still points into as it was

vars == <<next, previous, socket_descriptor, live, queue_tail,
          num_connections, fault, result, order, tail_spared>>

Node == Addr \ {QueueHead}

-----------------------------------------------------------------------------
(* init_thread_handler leaves an empty list: one zeroed dummy node.        *)
Init ==
  /\ next = [a \in Addr |-> Null]
  /\ previous = [a \in Addr |-> Null]
  /\ socket_descriptor = [a \in Addr |-> NoTask]
  /\ live = {QueueHead}
  /\ queue_tail = Root
  /\ num_connections = 0
  /\ fault = FALSE
  /\ result = NoTask
  /\ order = <<>>
  /\ tail_spared \in BOOLEAN

(* *queue_tail, read through the `next' fields n.                          *)
TailNode(n) == IF queue_tail = Root THEN QueueHead ELSE n[queue_tail]

(* queue_tail points into a block that has been freed.                     *)
Dangling == queue_tail \notin live \cup {Root}

(* A store through NULL or through a stale link: from here on the C program *)
(* has no defined behaviour and the model stops.                           *)
Fault == /\ fault' = TRUE
         /\ UNCHANGED <<next, previous, socket_descriptor, live, queue_tail,
                        num_connections, result, order>>

(* Blocks calloc may return.                                               *)
Blocks == (Addr \ live) \ (IF tail_spared THEN {queue_tail} ELSE {})

(* Mutant: lines 105 and 106 swapped, the descriptor lands one node early. *)
EnqueueStoresEarly(a, d) ==
  LET zeroed == [next EXCEPT ![a] = Null]
      last   == TailNode(zeroed)
  IN  /\ ~fault /\ a \in Blocks /\ last \in live
      /\ next' = [zeroed EXCEPT ![last] = a]
      /\ previous' = [previous EXCEPT ![a] = last]
      /\ socket_descriptor' = [socket_descriptor EXCEPT ![last] = d, ![a] = NoTask]
      /\ live' = live \cup {a}
      /\ queue_tail' = last
      /\ num_connections' = num_connections + 1
      /\ order' = Append(order, a)
      /\ UNCHANGED <<fault, result>>

(* enqueue_task: calloc returns the zeroed block a (thread_handler.c:95-109). *)
EnqueueTask(a, d) ==
  LET zeroed == [next EXCEPT ![a] = Null]
      last   == TailNode(zeroed)
  IN  /\ ~fault
      /\ a \in Blocks
      /\ IF last \in live
           THEN /\ next' = [zeroed EXCEPT ![last] = a]
                /\ previous' = [previous EXCEPT ![a] = last]
                /\ socket_descriptor' = [socket_descriptor EXCEPT ![a] = d]
                /\ live' = live \cup {a}
                /\ queue_tail' = last
                /\ num_connections' = num_connections + 1
                /\ order' = Append(order, a)
                /\ UNCHANGED <<fault, result>>
           ELSE Fault

(* Mutant: the task is counted before calloc's result is tested.           *)
FailedEnqueueCounts ==
  /\ ~fault /\ TailNode(next) \in live
  /\ next' = [next EXCEPT ![TailNode(next)] = Null]
  /\ num_connections' = num_connections + 1
  /\ UNCHANGED <<previous, socket_descriptor, live, queue_tail, fault, result, order>>

(* enqueue_task: calloc returns NULL, which is stored before it is tested. *)
EnqueueTaskFails ==
  LET last == TailNode(next)
  IN  /\ ~fault
      /\ IF last \in live
           THEN /\ next' = [next EXCEPT ![last] = Null]
                /\ UNCHANGED <<previous, socket_descriptor, live, queue_tail,
                               num_connections, fault, result, order>>
           ELSE Fault

(* _pull_next_task on a list with no task (thread_handler.c:136-141).      *)
PullNothing ==
  /\ ~fault
  /\ next[QueueHead] = Null
  /\ result' = NoTask
  /\ UNCHANGED <<next, previous, socket_descriptor, live, queue_tail,
                 num_connections, fault, order>>

(* Mutant: pulling the last task leaves queue_tail in the freed node (line *)
(* 152 dropped).                                                           *)
PullKeepsTail ==
  LET task == next[QueueHead]
  IN  /\ ~fault /\ task # Null
      /\ next' = [next EXCEPT ![QueueHead] = next[task]]
      /\ previous' = IF next[task] \in Addr
                       THEN [previous EXCEPT ![next[task]] = QueueHead]
                       ELSE previous
      /\ live' = live \ {task}
      /\ num_connections' = num_connections - 1
      /\ result' = socket_descriptor[task]
      /\ order' = Tail(order)
      /\ UNCHANGED <<socket_descriptor, queue_tail, fault>>

(* _pull_next_task's second half: unlink the first node and free it.       *)
PullTask ==
  LET task == next[QueueHead]
      rest == next[task]
  IN  /\ ~fault
      /\ task # Null
      /\ IF task # TailNode(next) /\ rest = Null   \* queue_head->next->previous
           THEN Fault
           ELSE /\ IF task = TailNode(next)
                     THEN /\ next' = [next EXCEPT ![QueueHead] = Null]
                          /\ queue_tail' = Root
                          /\ UNCHANGED previous
                     ELSE /\ next' = [next EXCEPT ![QueueHead] = rest]
                          /\ previous' = [previous EXCEPT ![rest] = QueueHead]
                          /\ UNCHANGED queue_tail
                /\ live' = live \ {task}
                /\ num_connections' = num_connections - 1
                /\ result' = socket_descriptor[task]
                /\ order' = Tail(order)
                /\ UNCHANGED <<socket_descriptor, fault>>

(* The allocator, or another thread it gave the block to, overwrites the   *)
(* freed block that queue_tail still points into.                          *)
OverwriteFreed ==
  /\ ~fault
  /\ Dangling
  /\ ~tail_spared
  /\ next' = [next EXCEPT ![queue_tail] = Garbage]
  /\ UNCHANGED <<previous, socket_descriptor, live, queue_tail,
                 num_connections, fault, result, order>>

Next ==
  /\ \/ \E a \in Addr, d \in Descriptors : EnqueueTask(a, d)
     \/ EnqueueTaskFails
     \/ PullNothing
     \/ PullTask
     \/ OverwriteFreed
  /\ UNCHANGED tail_spared

Spec == Init /\ [][Next]_vars

-----------------------------------------------------------------------------
(* Every variable has its C type (pointers range over what they may hold). *)
TypeOK ==
  /\ next \in [Addr -> Addr \cup {Null, Garbage}]
  /\ previous \in [Addr -> Addr \cup {Null}]
  /\ socket_descriptor \in [Addr -> Descriptors \cup {NoTask}]
  /\ live \in SUBSET Addr
  /\ queue_tail \in Addr \cup {Root}
  /\ num_connections \in Int
  /\ fault \in BOOLEAN
  /\ result \in Descriptors \cup {NoTask}
  /\ order \in Seq(Node)
  /\ tail_spared \in BOOLEAN

(* Position i of a list: the dummy node is position 0.                     *)
Position(s, i) == IF i = 0 THEN QueueHead ELSE s[i]
At(i) == Position(order, i)

(* The nodes in the list are distinct, and they and the dummy are exactly  *)
(* the allocated ones: nothing is freed while linked, nothing leaks.       *)
NodesAreLive ==
  /\ \A i, j \in 1..Len(order) : order[i] = order[j] => i = j
  /\ live = {QueueHead} \cup {order[i] : i \in 1..Len(order)}

(* Following `next' from the dummy visits the tasks in the order they were *)
(* enqueued and ends in NULL, `previous' leads back, and num_connections   *)
(* counts them.                                                            *)
ChainFollowsOrder ==
  /\ \A i \in 0..Len(order) :
       next[At(i)] = IF i = Len(order) THEN Null ELSE At(i + 1)
  /\ \A i \in 1..Len(order) : previous[At(i)] = At(i - 1)
  /\ num_connections = Len(order)

(* Where queue_tail points: at &queue_head when the list is empty, into    *)
(* the node before the last one otherwise.  Only in a list of one task can *)
(* that node have been freed, and then it holds the link it had unless the *)
(* allocator has touched it.                                               *)
TailTracksLast ==
  /\ Len(order) = 0 => queue_tail = Root
  /\ Len(order) > 1 => queue_tail = At(Len(order) - 1)
  /\ Len(order) = 1 =>
       \/ queue_tail = QueueHead
       \/ /\ queue_tail \in Addr \ live
          /\ next[queue_tail] \in {At(1), Garbage}
          /\ tail_spared => next[queue_tail] = At(1)

(* enqueue_task and _pull_next_task keep the list well formed, whatever    *)
(* the allocator does, for as long as no store has gone astray.            *)
ListInv == ~fault => NodesAreLive /\ ChainFollowsOrder /\ TailTracksLast

(* No store goes astray if the allocator spares the block queue_tail still *)
(* points into.                                                            *)
SparedTailNeverFaults == tail_spared => ~fault

(* A store can go astray only in a list of exactly one task whose          *)
(* queue_tail was left behind in a freed block by the pull before.         *)
FaultOnlyThroughStaleTail ==
  [][fault' /\ ~fault => Dangling /\ Len(order) = 1]_vars

(* orchestrator.c:25-26 and the "guarantee queue ordering" comments of     *)
(* thread_handler.c:90 and :133: tasks can be queued and processed in      *)
(* order, whatever the arrivals; no operation loses the list.              *)
QueueNeverFaults == ~fault

(* The descriptors a list of nodes s holds, given their fields f.          *)
Read(s, f) == [i \in 1..Len(s) |-> f[s[i]]]

(* The list, read through its nodes, is the FIFO queue it stands for, and  *)
(* *result is what that queue hands out.                                   *)
Fifo == INSTANCE FifoQueue
          WITH queue <- Read(order, socket_descriptor),
               taken <- result

ImplementsFifo == Fifo!Spec
=============================================================================
