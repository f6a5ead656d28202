-------------------------------- MODULE Server --------------------------------
(***************************************************************************)
(* The running server: the event loop of orchestrator.c, the threads of    *)
(* thread_handler.c and the linked list between them, in one behaviour.    *)
(*                                                                         *)
(* Orchestrator uses an abstract pool, ThreadPool a sequence for the list, *)
(* and TaskQueue takes each list operation for one step that anybody may   *)
(* call.  Here the loop calls the enqueue_task that ThreadPool breaks into *)
(* steps, and both it and _pull_next_task work on TaskQueue's blocks, so   *)
(* what each of the three assumes of its surroundings is up to the other   *)
(* two.  A step in which one of them takes part is that module's action.   *)
(***************************************************************************)
EXTENDS TaskQueue, FiniteSets

CONSTANTS
  Conn, Listen, MaxEvents, Faults,        \* as in Orchestrator
  Worker, Main, Free                      \* as in ThreadPool

VARIABLES
  file, knote, backlog, peer, batch, ticket, closed,  \* Orchestrator's
  loop_pc,                                            \* its main_pc
  pc, thread_lock, enqueue_lock, current, main_pc,    \* ThreadPool's
  client_descriptor

loopVars   == <<file, knote, backlog, peer, batch, ticket, closed, loop_pc>>
threadVars == <<pc, thread_lock, enqueue_lock, current, main_pc, client_descriptor>>
serverVars == <<vars, loopVars, threadVars>>

(* The descriptors in the list, read through its nodes.                    *)
queue == Read(order, socket_descriptor)

(* What the program's num_connections holds: TaskQueue counts a task as it *)
(* is linked, enqueue_task one statement later.                            *)
counted == num_connections - (IF main_pc = "count" THEN 1 ELSE 0)

Threads == INSTANCE ThreadPool WITH tasks <- queue, num_connections <- counted

Loop == INSTANCE Orchestrator
          WITH Fd <- Descriptors, None <- NoTask, holding <- current,
               main_pc <- loop_pc

ASSUME ServerAssumption == Threads!PoolAssumption /\ Loop!OrchestratorAssumption

ServerInit ==
  /\ Init
  /\ file = [f \in Descriptors |-> NoTask]
  /\ knote = [f \in Descriptors |-> "none"]
  /\ backlog = {}
  /\ peer = [c \in Conn |-> "absent"]
  /\ batch = <<>>
  /\ loop_pc = "loop"
  /\ ticket = [f \in Descriptors |-> NoTask]
  /\ closed = {}
  /\ pc = [w \in Worker |-> "lock"]
  /\ thread_lock = Free
  /\ enqueue_lock = Free
  /\ current = [w \in Worker |-> NoTask]
  /\ main_pc = "idle"
  /\ client_descriptor = NoTask

-----------------------------------------------------------------------------
(* The loop's thread                                                       *)

(* Whatever the loop does outside enqueue_task.                            *)
LoopStep ==
  /\ ~fault /\ main_pc = "idle"
  /\ UNCHANGED <<vars, threadVars>>
  /\ Loop!Poll \/ Loop!ProcessConnectionEvent \/ Loop!DeleteEvent

(* process_data_event calls enqueue_task, which takes enqueue_lock.  That  *)
(* the descriptor is in nobody's hands is not tested here or there.        *)
Submit ==
  /\ ~fault /\ main_pc = "idle" /\ enqueue_lock = Free
  /\ Loop!Dispatching /\ Loop!Event.ident # Listen
  /\ enqueue_lock' = Main
  /\ client_descriptor' = Loop!Event.ident
  /\ main_pc' = "link"
  /\ UNCHANGED <<pc, thread_lock, current, vars, loopVars>>

(* What process_data_event does once enqueue_task has succeeded.  Nobody   *)
(* else reads the loop's cursor, so it is moved as the task is linked; the *)
(* loop goes on when enqueue_task has returned.                            *)
Submitted ==
  /\ ticket' = [ticket EXCEPT ![Loop!Event.ident] = Loop!Event.conn]
  /\ IF Loop!Event.eof THEN loop_pc' = "delete" /\ UNCHANGED batch
                       ELSE batch' = Tail(batch) /\ UNCHANGED loop_pc

(* enqueue_task, calloc returned block a: linked, or stored astray.        *)
Link(a) ==
  /\ main_pc = "link"
  /\ EnqueueTask(a, client_descriptor)
  /\ IF fault' THEN UNCHANGED <<main_pc, ticket, batch, loop_pc>>
               ELSE main_pc' = "count" /\ Submitted
  /\ UNCHANGED <<pc, thread_lock, enqueue_lock, current, client_descriptor,
                 file, knote, backlog, peer, closed, tail_spared>>

(* enqueue_task, calloc returned NULL: process_data_event drops the event. *)
LinkFails ==
  /\ main_pc = "link" /\ "enqueue" \in Faults
  /\ EnqueueTaskFails
  /\ IF fault' THEN UNCHANGED <<main_pc, client_descriptor, enqueue_lock, batch>>
               ELSE /\ main_pc' = "idle" /\ client_descriptor' = NoTask
                    /\ enqueue_lock' = Free
                    /\ batch' = Tail(batch)
  /\ UNCHANGED <<pc, thread_lock, current, file, knote, backlog, peer, ticket,
                 closed, loop_pc, tail_spared>>

(* The rest of enqueue_task.  The program's counter moves with main_pc.    *)
CountAndSignal ==
  /\ ~fault
  /\ UNCHANGED <<vars, loopVars>>
  /\ \/ main_pc' = "signal" /\ Threads!Count
     \/ main_pc' = "idle" /\ Threads!Signal

LoopThread ==
  LoopStep \/ Submit \/ (\E a \in Addr : Link(a)) \/ LinkFails \/ CountAndSignal

-----------------------------------------------------------------------------
(* The workers                                                             *)

(* thread_runner outside the list and outside the request.                 *)
RunnerStep(w) ==
  /\ ~fault
  /\ UNCHANGED <<vars, loopVars, main_pc>>
  /\ \/ Threads!Lock(w) \/ Threads!Check(w) \/ Threads!Sleep(w)
     \/ Threads!SpuriousWake(w) \/ Threads!Relock(w) \/ Threads!PullLock(w)
     \/ Threads!Unlock(w)

(* _pull_next_task with enqueue_lock held, to its unlock or a stray store. *)
PullNextTask(w) ==
  /\ pc[w] = "pop"
  /\ \/ PullNothing /\ UNCHANGED current
     \/ /\ PullTask
        /\ current' = IF fault' THEN current ELSE [current EXCEPT ![w] = result']
  /\ IF fault' THEN UNCHANGED <<enqueue_lock, pc>>
               ELSE enqueue_lock' = Free /\ pc' = [pc EXCEPT ![w] = "unlock"]
  /\ UNCHANGED <<thread_lock, main_pc, client_descriptor, loopVars, tail_spared>>

(* _process_request, and the close that lets the kernel reuse the number.  *)
ProcessTask(w) ==
  /\ ~fault
  /\ UNCHANGED <<vars, main_pc>>
  /\ Threads!Process(w) /\ Loop!CloseDescriptor(w)

WorkerThread(w) == RunnerStep(w) \/ PullNextTask(w) \/ ProcessTask(w)

-----------------------------------------------------------------------------
(* Around the server                                                       *)

Client(c) ==
  /\ ~fault
  /\ UNCHANGED <<vars, threadVars>>
  /\ Loop!Connect(c) \/ Loop!Speak(c) \/ Loop!HangUp(c) \/ Loop!Abort(c)

(* The allocator reuses freed memory, see TaskQueue.                       *)
Allocator == OverwriteFreed /\ UNCHANGED <<tail_spared, threadVars, loopVars>>

(* A stray store ends what C says about the program: every step is taken   *)
(* before the first one.                                                   *)
ServerNext ==
  \/ LoopThread
  \/ \E w \in Worker : WorkerThread(w)
  \/ \E c \in Conn : Client(c)
  \/ Allocator

ServerSpec == ServerInit /\ [][ServerNext]_serverVars
-----------------------------------------------------------------------------
(* The threads and the list under the loop's calls are the ThreadPool that *)
(* was modelled alone: the loop never submits a descriptor that is queued  *)
(* or in a worker's hands, and the list is the sequence it stands for.     *)
ImplementsThreads == Threads!Spec

(* The loop over the threads and the list is the Orchestrator that was     *)
(* modelled with an abstract pool.                                         *)
ImplementsLoop == Loop!Spec
=============================================================================
