----------------------------- MODULE Server_proofs -----------------------------
(***************************************************************************)
(* Proofs about Server, from those about its three parts, for every number *)
(* of blocks, descriptors, connections and workers, every MAX_EVENTS and   *)
(* every set of failing calls.                                             *)
(***************************************************************************)
EXTENDS Server, TaskQueue_proofs

ThreadProofs == INSTANCE ThreadPool_proofs
                  WITH tasks <- queue, num_connections <- counted

LoopProofs == INSTANCE Orchestrator_proofs
                WITH Fd <- Descriptors, None <- NoTask, holding <- current,
                     main_pc <- loop_pc

(* While enqueue_task links a task, the loop waits at that task's event.   *)
SubmissionInv ==
  main_pc = "link" =>
    /\ Loop!Dispatching
    /\ client_descriptor = Loop!Event.ident
    /\ client_descriptor \in Descriptors

(* The inductive invariant: what each part needs is kept by the others.    *)
ServerInv == IInv /\ ThreadProofs!IInv /\ LoopProofs!IInv /\ SubmissionInv

-----------------------------------------------------------------------------
LEMMA PartsHold ==
  /\ ThreadProofs!PoolAssumption /\ LoopProofs!OrchestratorAssumption
  /\ Listen \notin Descriptors
BY ServerAssumption DEF Threads!PoolAssumption, ThreadProofs!PoolAssumption,
   Loop!OrchestratorAssumption, LoopProofs!OrchestratorAssumption,
   Loop!IsFiniteSet, LoopProofs!IsFiniteSet

(* The threads in Server are those of ThreadPool_proofs.                   *)
LEMMA SameThreads ==
  /\ Threads!Init <=> ThreadProofs!Init
  /\ Threads!Next <=> ThreadProofs!Next
  /\ UNCHANGED Threads!vars <=> UNCHANGED ThreadProofs!vars
<1>1. Threads!Init <=> ThreadProofs!Init
  BY DEF Threads!Init, ThreadProofs!Init
<1>2. UNCHANGED Threads!vars <=> UNCHANGED ThreadProofs!vars
  BY DEF Threads!vars, ThreadProofs!vars
<1> USE DEF Threads!Goto, ThreadProofs!Goto, Threads!mainVars, ThreadProofs!mainVars,
        Threads!workerVars, ThreadProofs!workerVars
<1>3. \A w \in Worker : /\ Threads!Lock(w) <=> ThreadProofs!Lock(w)
                        /\ Threads!Check(w) <=> ThreadProofs!Check(w)
                        /\ Threads!Sleep(w) <=> ThreadProofs!Sleep(w)
                        /\ Threads!SpuriousWake(w) <=> ThreadProofs!SpuriousWake(w)
  BY DEF Threads!Lock, ThreadProofs!Lock, Threads!Check, ThreadProofs!Check,
     Threads!Sleep, ThreadProofs!Sleep, Threads!SpuriousWake, ThreadProofs!SpuriousWake
<1>4. \A w \in Worker : /\ Threads!Relock(w) <=> ThreadProofs!Relock(w)
                        /\ Threads!PullLock(w) <=> ThreadProofs!PullLock(w)
                        /\ Threads!Unlock(w) <=> ThreadProofs!Unlock(w)
                        /\ Threads!Process(w) <=> ThreadProofs!Process(w)
  BY DEF Threads!Relock, ThreadProofs!Relock, Threads!PullLock, ThreadProofs!PullLock,
     Threads!Unlock, ThreadProofs!Unlock, Threads!Process, ThreadProofs!Process
<1>5. \A w \in Worker : Threads!Pop(w) <=> ThreadProofs!Pop(w)
  BY DEF Threads!Pop, ThreadProofs!Pop
<1>6. \A d \in Descriptors : Threads!EnqueueLock(d) <=> ThreadProofs!EnqueueLock(d)
  BY DEF Threads!EnqueueLock, ThreadProofs!EnqueueLock, Threads!InFlight, ThreadProofs!InFlight
<1>7. Threads!EnqueueTask <=> ThreadProofs!EnqueueTask
  BY DEF Threads!EnqueueTask, ThreadProofs!EnqueueTask, Threads!Link, ThreadProofs!Link,
     Threads!LinkFails, ThreadProofs!LinkFails, Threads!Count, ThreadProofs!Count,
     Threads!Signal, ThreadProofs!Signal
<1>8. Threads!Next <=> ThreadProofs!Next
  BY <1>3, <1>4, <1>5, <1>6, <1>7 DEF Threads!Next, ThreadProofs!Next,
     Threads!ThreadRunner, ThreadProofs!ThreadRunner
<1> QED
  BY <1>1, <1>2, <1>8

(* The loop in Server is that of Orchestrator_proofs.                      *)
LEMMA SameLoop ==
  /\ Loop!Init <=> LoopProofs!Init
  /\ Loop!Next <=> LoopProofs!Next
  /\ UNCHANGED Loop!vars <=> UNCHANGED LoopProofs!vars
<1> USE DEF Loop!kernel, LoopProofs!kernel, Loop!clients, LoopProofs!clients,
        Loop!pool, LoopProofs!pool, Loop!loop, LoopProofs!loop,
        Loop!history, LoopProofs!history
<1>1. Loop!Init <=> LoopProofs!Init
  BY DEF Loop!Init, LoopProofs!Init, Loop!Pool!Init, LoopProofs!Pool!Init
<1>2. UNCHANGED Loop!vars <=> UNCHANGED LoopProofs!vars
  BY DEF Loop!vars, LoopProofs!vars
<1>3. \A c \in Conn : /\ Loop!Connect(c) <=> LoopProofs!Connect(c)
                      /\ Loop!Speak(c) <=> LoopProofs!Speak(c)
                      /\ Loop!HangUp(c) <=> LoopProofs!HangUp(c)
                      /\ Loop!Abort(c) <=> LoopProofs!Abort(c)
  BY DEF Loop!Connect, LoopProofs!Connect, Loop!Speak, LoopProofs!Speak,
     Loop!HangUp, LoopProofs!HangUp, Loop!Abort, LoopProofs!Abort
<1>4. Loop!Poll <=> LoopProofs!Poll
  BY DEF Loop!Poll, LoopProofs!Poll, Loop!PollReturning, LoopProofs!PollReturning,
     Loop!Ready, LoopProofs!Ready, Loop!Readable, LoopProofs!Readable,
     Loop!EventFor, LoopProofs!EventFor
<1> USE DEF Loop!Event, LoopProofs!Event, Loop!Dispatching, LoopProofs!Dispatching,
        Loop!NextEvent, LoopProofs!NextEvent, Loop!FreeFds, LoopProofs!FreeFds
<1>5. Loop!ProcessConnectionEvent <=> LoopProofs!ProcessConnectionEvent
  <2>1. \A c \in Conn, f \in Descriptors :
          /\ Loop!AcceptConnection(c, f) <=> LoopProofs!AcceptConnection(c, f)
          /\ Loop!AcceptUnwatched(c, f) <=> LoopProofs!AcceptUnwatched(c, f)
    BY DEF Loop!AcceptConnection, LoopProofs!AcceptConnection,
       Loop!AcceptUnwatched, LoopProofs!AcceptUnwatched
  <2>2. Loop!AcceptFails <=> LoopProofs!AcceptFails
    BY DEF Loop!AcceptFails, LoopProofs!AcceptFails
  <2> QED
    BY <2>1, <2>2 DEF Loop!ProcessConnectionEvent, LoopProofs!ProcessConnectionEvent
<1>6. Loop!ProcessDataEvent <=> LoopProofs!ProcessDataEvent
  BY DEF Loop!ProcessDataEvent, LoopProofs!ProcessDataEvent, Loop!EnqueueEvent,
     LoopProofs!EnqueueEvent, Loop!EnqueueFails, LoopProofs!EnqueueFails,
     Loop!DeleteEvent, LoopProofs!DeleteEvent
<1>7. \A w \in Worker : /\ Loop!PullTask(w) <=> LoopProofs!PullTask(w)
                        /\ Loop!CloseDescriptor(w) <=> LoopProofs!CloseDescriptor(w)
  BY DEF Loop!PullTask, LoopProofs!PullTask, Loop!CloseDescriptor,
     LoopProofs!CloseDescriptor, Loop!Pool!Take, LoopProofs!Pool!Take,
     Loop!Pool!Release, LoopProofs!Pool!Release
<1>8. Loop!Next <=> LoopProofs!Next
  BY <1>3, <1>4, <1>5, <1>6, <1>7 DEF Loop!Next, LoopProofs!Next
<1> QED
  BY <1>1, <1>2, <1>8

-----------------------------------------------------------------------------
(* What is in the list and in the counter follows the blocks.              *)
LEMMA ListAlone == UNCHANGED <<order, socket_descriptor>> => UNCHANGED queue
BY DEF queue

LEMMA CountAlone == UNCHANGED <<num_connections, main_pc>> => UNCHANGED counted
BY DEF counted

LEMMA StrayStore == Fault => UNCHANGED queue /\ UNCHANGED num_connections
BY ListAlone DEF Fault

(* The event whose turn it is may be submitted: its descriptor is in no    *)
(* list and in no worker's hands.                                          *)
LEMMA EventIsFree ==
  ASSUME LoopProofs!IInv, Loop!Dispatching, Loop!Event.ident # Listen
  PROVE  Loop!Event.ident \in Descriptors /\ ~Threads!InFlight(Loop!Event.ident)
<1>1. LoopProofs!Dispatching /\ LoopProofs!Event = Loop!Event
  BY DEF Loop!Dispatching, LoopProofs!Dispatching, Loop!Event, LoopProofs!Event
<1>2. Loop!Event.ident \in Descriptors /\ ~LoopProofs!InFlight(Loop!Event.ident)
  BY <1>1, PartsHold, LoopProofs!EventIsCurrent DEF LoopProofs!IInv
<1> QED
  BY <1>2 DEF LoopProofs!InFlight, LoopProofs!Pool!InFlight, Threads!InFlight

(* A worker at the list has no task yet.                                   *)
LEMMA PoppingIsIdle ==
  ASSUME ThreadProofs!IInv, NEW w \in Worker, pc[w] = "pop"
  PROVE  current[w] = NoTask
BY DEF ThreadProofs!IInv, ThreadProofs!ArgumentInv

-----------------------------------------------------------------------------
(* The initial states of the server are initial states of its parts.       *)
LEMMA ServerInitIs ==
  ServerInit => Init /\ Threads!Init /\ Loop!Init /\ SubmissionInv
<1> SUFFICES ASSUME ServerInit PROVE Init /\ Threads!Init /\ Loop!Init /\ SubmissionInv
  OBVIOUS
<1>1. queue = <<>>
  BY DEF ServerInit, Init, queue, Read
<1>2. counted = 0
  BY DEF ServerInit, Init, counted
<1>3. Threads!Init
  BY <1>1, <1>2 DEF ServerInit, Threads!Init
<1>4. Loop!Init
  BY <1>1 DEF ServerInit, Loop!Init, Loop!Pool!Init
<1> QED
  BY <1>3, <1>4 DEF ServerInit, SubmissionInv

-----------------------------------------------------------------------------
(* A step of the server is a step of each part, or leaves it alone.        *)
PartsStep == /\ [Next]_vars
             /\ [Threads!Next]_(Threads!vars)
             /\ [Loop!Next]_(Loop!vars)
             /\ SubmissionInv'

LEMMA NothingHappens ==
  ASSUME ServerInv, UNCHANGED serverVars
  PROVE  PartsStep
<1>1. UNCHANGED queue /\ UNCHANGED counted
  BY ListAlone, CountAlone DEF serverVars, vars, threadVars
<1>2. UNCHANGED Threads!vars /\ UNCHANGED Loop!vars
  BY <1>1 DEF serverVars, threadVars, loopVars, Threads!vars, Loop!vars,
     Loop!kernel, Loop!clients, Loop!pool, Loop!loop, Loop!history
<1>3. SubmissionInv'
  BY DEF ServerInv, SubmissionInv, serverVars, threadVars, loopVars,
     Loop!Dispatching, Loop!Event
<1> QED
  BY <1>2, <1>3 DEF PartsStep, serverVars

(* What leaves the list and the threads alone.                             *)
LEMMA ThreadsAlone ==
  ASSUME UNCHANGED <<vars, threadVars>>
  PROVE  UNCHANGED queue /\ UNCHANGED Threads!vars
<1>1. UNCHANGED queue /\ UNCHANGED counted
  BY ListAlone, CountAlone DEF vars, threadVars
<1> QED
  BY <1>1 DEF threadVars, Threads!vars

LEMMA LoopStepIs ==
  ASSUME ServerInv, LoopStep
  PROVE  PartsStep
<1>1. UNCHANGED vars /\ UNCHANGED Threads!vars
  BY ThreadsAlone DEF LoopStep
<1>2. Loop!Next
  BY DEF LoopStep, Loop!Next, Loop!ProcessDataEvent
<1>3. SubmissionInv'
  BY DEF LoopStep, threadVars, SubmissionInv
<1> QED
  BY <1>1, <1>2, <1>3 DEF PartsStep

LEMMA ClientIs ==
  ASSUME ServerInv, NEW c \in Conn, Client(c)
  PROVE  PartsStep
<1>1. UNCHANGED vars /\ UNCHANGED Threads!vars
  BY ThreadsAlone DEF Client
<1>2. Loop!Next
  BY DEF Client, Loop!Next
<1>3. UNCHANGED <<batch, loop_pc>>
  BY DEF Client, Loop!Connect, Loop!Speak, Loop!HangUp, Loop!Abort, Loop!loop
<1>4. SubmissionInv'
  BY <1>3 DEF Client, threadVars, ServerInv, SubmissionInv, Loop!Dispatching, Loop!Event
<1> QED
  BY <1>1, <1>2, <1>4 DEF PartsStep

(* What leaves the loop and the pool alone.                                *)
LEMMA LoopAlone ==
  ASSUME UNCHANGED loopVars, UNCHANGED queue, UNCHANGED current
  PROVE  UNCHANGED Loop!vars
BY DEF loopVars, Loop!vars, Loop!kernel, Loop!clients, Loop!pool, Loop!loop, Loop!history

LEMMA AllocatorIs ==
  ASSUME ServerInv, Allocator
  PROVE  PartsStep
<1>1. UNCHANGED <<order, socket_descriptor, num_connections, main_pc>>
  BY DEF Allocator, OverwriteFreed, threadVars
<1>2. UNCHANGED queue /\ UNCHANGED counted
  BY <1>1, ListAlone, CountAlone
<1>3. UNCHANGED Threads!vars /\ UNCHANGED Loop!vars
  BY <1>2, LoopAlone DEF Allocator, threadVars, Threads!vars
<1>4. SubmissionInv'
  BY DEF Allocator, threadVars, loopVars, ServerInv, SubmissionInv,
     Loop!Dispatching, Loop!Event
<1>5. Next
  BY DEF Allocator, Next
<1> QED
  BY <1>3, <1>4, <1>5 DEF PartsStep

(* The loop calls enqueue_task with a descriptor that is nowhere yet.      *)
LEMMA SubmitIs ==
  ASSUME ServerInv, Submit
  PROVE  PartsStep
<1>1. Loop!Event.ident \in Descriptors /\ ~Threads!InFlight(Loop!Event.ident)
  BY EventIsFree DEF ServerInv, Submit
<1>2. UNCHANGED queue /\ UNCHANGED num_connections
  BY ListAlone DEF Submit, vars
<1>3. UNCHANGED counted
  BY <1>2 DEF counted, Submit
<1>4. Threads!EnqueueLock(Loop!Event.ident)
  BY <1>1, <1>2, <1>3 DEF Submit, Threads!EnqueueLock, Threads!workerVars
<1>5. Threads!Next
  BY <1>1, <1>4 DEF Threads!Next
<1>6. UNCHANGED Loop!vars
  BY <1>2, LoopAlone DEF Submit
<1>7. SubmissionInv'
  BY <1>1 DEF Submit, loopVars, SubmissionInv, Loop!Dispatching, Loop!Event
<1> QED
  BY <1>5, <1>6, <1>7 DEF PartsStep, Submit

(* A stray store of one thread is no step of the threads or of the loop.   *)
LEMMA StrayStoreIs ==
  ASSUME ServerInv, Fault, Next,
         UNCHANGED <<pc, thread_lock, enqueue_lock, current, main_pc,
                     client_descriptor, loopVars>>
  PROVE  PartsStep
<1>1. UNCHANGED queue /\ UNCHANGED counted
  BY StrayStore, CountAlone
<1>2. UNCHANGED Threads!vars /\ UNCHANGED Loop!vars
  BY <1>1, LoopAlone DEF Threads!vars
<1>3. SubmissionInv'
  BY DEF loopVars, ServerInv, SubmissionInv, Loop!Dispatching, Loop!Event
<1> QED
  BY <1>2, <1>3 DEF PartsStep

(* The task that is linked is the event's, in the list, for the threads    *)
(* and for the loop.                                                       *)
LEMMA LinkIs ==
  ASSUME ServerInv, NEW a \in Addr, Link(a)
  PROVE  PartsStep
<1>1. /\ Loop!Dispatching /\ Loop!Event.ident = client_descriptor
      /\ client_descriptor \in Descriptors /\ Loop!Event.ident # Listen
  BY PartsHold DEF ServerInv, SubmissionInv, Link
<1>2. EnqueueTask(a, client_descriptor) /\ UNCHANGED tail_spared
  BY DEF Link
<1>3. Next
  BY <1>1, <1>2 DEF Next
<1>4. CASE fault'
  <2>1. Fault
    BY <1>2, <1>4 DEF EnqueueTask
  <2>2. UNCHANGED <<pc, thread_lock, enqueue_lock, current, main_pc,
                    client_descriptor, loopVars>>
    BY <1>4 DEF Link, loopVars
  <2> QED
    BY <1>3, <2>1, <2>2, StrayStoreIs
<1>5. CASE ~fault'
  <2>1. queue' = Append(queue, client_descriptor) /\ num_connections' = num_connections + 1
    BY <1>1, <1>2, <1>5, EnqueueAppends DEF queue, ServerInv
  <2>2. main_pc = "link" /\ main_pc' = "count" /\ Submitted
    BY <1>5 DEF Link
  <2>3. counted' = counted
    BY <2>1, <2>2 DEF counted, ServerInv, IInv, TypeOK
  <2>4. Threads!Link
    BY <2>1, <2>2, <2>3 DEF Link, Threads!Link, Threads!workerVars
  <2>5. Threads!Next
    BY <2>4 DEF Threads!Next, Threads!EnqueueTask
  <2>6. Loop!EnqueueEvent
    BY <1>1, <2>1, <2>2 DEF Link, Submitted, Loop!EnqueueEvent, Loop!NextEvent,
       Loop!Dispatching, Loop!kernel, Loop!clients
  <2>7. Loop!Next
    BY <2>6 DEF Loop!Next, Loop!ProcessDataEvent
  <2>8. SubmissionInv'
    BY <2>2 DEF SubmissionInv
  <2> QED
    BY <1>3, <2>5, <2>7, <2>8 DEF PartsStep
<1> QED
  BY <1>4, <1>5

LEMMA LinkFailsIs ==
  ASSUME ServerInv, LinkFails
  PROVE  PartsStep
<1>1. Loop!Dispatching /\ Loop!Event.ident # Listen
  BY PartsHold DEF ServerInv, SubmissionInv, LinkFails
<1>2. EnqueueTaskFails /\ UNCHANGED tail_spared
  BY DEF LinkFails
<1>3. Next
  BY <1>2 DEF Next
<1>4. CASE fault'
  <2>1. Fault
    BY <1>2, <1>4 DEF EnqueueTaskFails
  <2>2. UNCHANGED <<pc, thread_lock, enqueue_lock, current, main_pc,
                    client_descriptor, loopVars>>
    BY <1>4 DEF LinkFails, loopVars
  <2> QED
    BY <1>3, <2>1, <2>2, StrayStoreIs
<1>5. CASE ~fault'
  <2>1. UNCHANGED <<order, socket_descriptor, num_connections>>
    BY <1>2, <1>5 DEF EnqueueTaskFails, Fault
  <2>2. /\ main_pc = "link" /\ main_pc' = "idle" /\ client_descriptor' = NoTask
        /\ enqueue_lock' = Free /\ batch' = Tail(batch)
    BY <1>5 DEF LinkFails
  <2>3. UNCHANGED queue /\ UNCHANGED counted
    BY <2>1, <2>2, ListAlone DEF counted
  <2>4. Threads!LinkFails
    BY <2>2, <2>3 DEF LinkFails, Threads!LinkFails, Threads!workerVars
  <2>5. Threads!Next
    BY <2>4 DEF Threads!Next, Threads!EnqueueTask
  <2>6. Loop!EnqueueFails
    BY <1>1, <2>2, <2>3 DEF LinkFails, Loop!EnqueueFails, Loop!NextEvent,
       Loop!kernel, Loop!clients, Loop!pool, Loop!history
  <2>7. Loop!Next
    BY <2>6 DEF Loop!Next, Loop!ProcessDataEvent
  <2>8. SubmissionInv'
    BY <2>2 DEF SubmissionInv
  <2> QED
    BY <1>3, <2>5, <2>7, <2>8 DEF PartsStep
<1> QED
  BY <1>4, <1>5

(* The rest of enqueue_task and thread_runner outside the list.            *)
LEMMA ThreadStepIs ==
  ASSUME ServerInv, CountAndSignal \/ \E w \in Worker : RunnerStep(w)
  PROVE  PartsStep
<1>1. UNCHANGED <<vars, loopVars>>
  BY DEF CountAndSignal, RunnerStep
<1>2. Threads!Next
  <2>1. CASE CountAndSignal
    BY <2>1 DEF CountAndSignal, Threads!Next, Threads!EnqueueTask
  <2>2. ASSUME NEW w \in Worker, RunnerStep(w) PROVE Threads!Next
    BY <2>2 DEF RunnerStep, Threads!Next, Threads!ThreadRunner
  <2> QED
    BY <2>1, <2>2
<1>3. UNCHANGED current
  BY DEF CountAndSignal, RunnerStep, Threads!Count, Threads!Signal, Threads!Lock,
     Threads!Check, Threads!Sleep, Threads!SpuriousWake, Threads!Relock,
     Threads!PullLock, Threads!Unlock, Threads!workerVars
<1>4. UNCHANGED Loop!vars
  BY <1>1, <1>3, ListAlone, LoopAlone DEF vars
<1>5. main_pc' = "link" => UNCHANGED <<main_pc, client_descriptor>>
  BY DEF CountAndSignal, RunnerStep, Threads!Lock, Threads!Check, Threads!Sleep,
     Threads!SpuriousWake, Threads!Relock, Threads!PullLock, Threads!Unlock,
     Threads!mainVars
<1>6. SubmissionInv'
  BY <1>1, <1>5 DEF loopVars, ServerInv, SubmissionInv, Loop!Dispatching, Loop!Event
<1> QED
  BY <1>1, <1>2, <1>4, <1>6 DEF PartsStep

(* The worker that holds both locks takes the oldest descriptor.           *)
LEMMA PullIs ==
  ASSUME ServerInv, NEW w \in Worker, PullNextTask(w)
  PROVE  PartsStep
<1>1. /\ pc[w] = "pop" /\ UNCHANGED <<thread_lock, main_pc, client_descriptor>>
      /\ UNCHANGED loopVars /\ UNCHANGED tail_spared
      /\ PullNothing \/ PullTask
  BY DEF PullNextTask
<1>2. Next
  BY <1>1 DEF Next
<1>3. SubmissionInv'
  BY <1>1 DEF loopVars, ServerInv, SubmissionInv, Loop!Dispatching, Loop!Event
<1>4. CASE PullNothing
  <2>1. ~fault' /\ UNCHANGED <<order, socket_descriptor, num_connections>>
    BY <1>4 DEF PullNothing
  <2>2. queue = <<>> /\ UNCHANGED queue /\ UNCHANGED counted
    BY <1>1, <1>4, <2>1, ListAlone, CountAlone, NothingIsThere DEF queue, ServerInv
  <2>3. UNCHANGED current /\ enqueue_lock' = Free /\ pc' = [pc EXCEPT ![w] = "unlock"]
    BY <1>4, <2>1 DEF PullNextTask, PullNothing, PullTask
  <2>4. Threads!Pop(w)
    BY <1>1, <2>2, <2>3 DEF Threads!Pop, Threads!Goto, Threads!mainVars
  <2>5. Threads!Next
    BY <2>4 DEF Threads!Next, Threads!ThreadRunner
  <2>6. UNCHANGED Loop!vars
    BY <1>1, <2>2, <2>3, LoopAlone
  <2> QED
    BY <1>2, <1>3, <2>5, <2>6 DEF PartsStep
<1>5. CASE PullTask /\ fault'
  <2>1. Fault
    BY <1>5 DEF PullTask
  <2>2. UNCHANGED <<pc, enqueue_lock, current>>
    BY <1>5 DEF PullNextTask, PullNothing
  <2> QED
    BY <1>1, <1>2, <2>1, <2>2, StrayStoreIs
<1>6. CASE PullTask /\ ~fault'
  <2>1. /\ queue # <<>> /\ result' = Head(queue) /\ queue' = Tail(queue)
        /\ num_connections' = num_connections - 1
    BY <1>6, PullTakes DEF queue, ServerInv
  <2>2. counted' = counted - 1
    BY <1>1, <2>1 DEF counted, ServerInv, IInv, TypeOK
  <2>3. current' = [current EXCEPT ![w] = Head(queue)]
        /\ enqueue_lock' = Free /\ pc' = [pc EXCEPT ![w] = "unlock"]
    BY <1>6, <2>1 DEF PullNextTask, PullTask, PullNothing
  <2>4. Threads!Pop(w)
    BY <1>1, <2>1, <2>2, <2>3 DEF Threads!Pop, Threads!Goto, Threads!mainVars
  <2>5. Threads!Next
    BY <2>4 DEF Threads!Next, Threads!ThreadRunner
  <2>6. current[w] = NoTask
    BY <1>1, PoppingIsIdle DEF ServerInv
  <2>7. Loop!PullTask(w)
    BY <1>1, <2>1, <2>3, <2>6 DEF loopVars, Loop!PullTask, Loop!Pool!Take,
       Loop!kernel, Loop!clients, Loop!loop, Loop!history
  <2>8. Loop!Next
    BY <2>7 DEF Loop!Next
  <2> QED
    BY <1>2, <1>3, <2>5, <2>8 DEF PartsStep
<1> QED
  BY <1>1, <1>4, <1>5, <1>6

LEMMA ProcessIs ==
  ASSUME ServerInv, NEW w \in Worker, ProcessTask(w)
  PROVE  PartsStep
<1>1. Threads!Next /\ Loop!Next
  BY DEF ProcessTask, Threads!Next, Threads!ThreadRunner, Loop!Next
<1>2. UNCHANGED <<main_pc, client_descriptor, batch, loop_pc>>
  BY DEF ProcessTask, Threads!Process, Threads!mainVars, Loop!CloseDescriptor, Loop!loop
<1>3. SubmissionInv'
  BY <1>2 DEF ServerInv, SubmissionInv, Loop!Dispatching, Loop!Event
<1> QED
  BY <1>1, <1>3 DEF PartsStep, ProcessTask

-----------------------------------------------------------------------------
(* Each part's step keeps each part's invariant: the parts' own lemmas.    *)
LEMMA ServerStepIs == ServerInv /\ [ServerNext]_serverVars => PartsStep /\ ServerInv'
<1> SUFFICES ASSUME ServerInv, [ServerNext]_serverVars PROVE PartsStep /\ ServerInv'
  OBVIOUS
<1>1. PartsStep
  <2>1. CASE LoopThread
    BY <2>1, LoopStepIs, SubmitIs, LinkIs, LinkFailsIs, ThreadStepIs DEF LoopThread
  <2>2. ASSUME NEW w \in Worker, WorkerThread(w) PROVE PartsStep
    BY <2>2, ThreadStepIs, PullIs, ProcessIs DEF WorkerThread
  <2>3. ASSUME NEW c \in Conn, Client(c) PROVE PartsStep
    BY <2>3, ClientIs
  <2>4. CASE Allocator
    BY <2>4, AllocatorIs
  <2>5. CASE UNCHANGED serverVars
    BY <2>5, NothingHappens
  <2> QED
    BY <2>1, <2>2, <2>3, <2>4, <2>5 DEF ServerNext
<1>2. IInv'
  BY <1>1, StepKeeps DEF PartsStep, ServerInv
<1>3. ThreadProofs!IInv'
  BY <1>1, PartsHold, SameThreads, ThreadProofs!StepKeeps DEF PartsStep, ServerInv
<1>4. LoopProofs!IInv'
  BY <1>1, PartsHold, SameLoop, LoopProofs!StepKeeps DEF PartsStep, ServerInv
<1> QED
  BY <1>1, <1>2, <1>3, <1>4 DEF PartsStep, ServerInv

LEMMA ServerInitEstablishes == ServerInit => ServerInv
BY ServerInitIs, InitEstablishes, PartsHold, SameThreads, SameLoop,
   ThreadProofs!InitEstablishes, LoopProofs!InitEstablishes DEF ServerInv

THEOREM ServerInvariance == ServerSpec => []ServerInv
BY ServerInitEstablishes, ServerStepIs, PTL DEF ServerSpec

(* The running server uses the list as TaskQueue allows, so that what was  *)
(* proved of the list by itself holds in the server.                       *)
THEOREM QueueInServer == ServerSpec => Spec
<1>1. ServerInv /\ [ServerNext]_serverVars => [Next]_vars
  BY ServerStepIs DEF PartsStep
<1> QED
  BY <1>1, ServerInitIs, ServerInvariance, PTL DEF ServerSpec, Spec

(* The list stays well formed under the loop's and the workers' calls.     *)
THEOREM ServerListStaysWellFormed == ServerSpec => []ListInv
BY QueueInServer, ListStaysWellFormed, PTL

(* A store of the server goes astray only through a stale queue_tail.      *)
THEOREM ServerFaultsOnlyThroughTail == ServerSpec => FaultOnlyThroughStaleTail
BY QueueInServer, OnlyStaleTailFaults, PTL

(* The threads over the list and under the loop are those of ThreadPool.   *)
THEOREM ServerRunsThreads == ServerSpec => ImplementsThreads
<1>1. ServerInv /\ [ServerNext]_serverVars => [Threads!Next]_(Threads!vars)
  BY ServerStepIs DEF PartsStep
<1> QED
  BY <1>1, ServerInitIs, ServerInvariance, PTL
     DEF ServerSpec, ImplementsThreads, Threads!Spec

(* The loop over the threads and the list is that of Orchestrator.         *)
THEOREM ServerRunsLoop == ServerSpec => ImplementsLoop
<1>1. ServerInv /\ [ServerNext]_serverVars => [Loop!Next]_(Loop!vars)
  BY ServerStepIs DEF PartsStep
<1> QED
  BY <1>1, ServerInitIs, ServerInvariance, PTL
     DEF ServerSpec, ImplementsLoop, Loop!Spec

(* In the running server a worker reads the connection its task was about, *)
(* an event of the batch still means what it meant, a pull finds a task,   *)
(* and no task is left to workers that all sleep.                          *)
THEOREM ServerKeepsItsPromises ==
  ServerSpec => [](/\ Loop!WorkerReadsOwnConnection /\ Loop!BatchIsCurrent
                   /\ Threads!PullFindsTask /\ Threads!SomebodyAwake)
<1>1. LoopProofs!WorkerReadsOwnConnection => Loop!WorkerReadsOwnConnection
  BY DEF LoopProofs!WorkerReadsOwnConnection, Loop!WorkerReadsOwnConnection,
     LoopProofs!InFlight, Loop!InFlight, LoopProofs!Pool!InFlight, Loop!Pool!InFlight
<1>2. LoopProofs!BatchIsCurrent => Loop!BatchIsCurrent
  BY DEF LoopProofs!BatchIsCurrent, Loop!BatchIsCurrent, LoopProofs!Pending, Loop!Pending,
     LoopProofs!InFlight, Loop!InFlight, LoopProofs!Pool!InFlight, Loop!Pool!InFlight
<1>3. ThreadProofs!PullFindsTask => Threads!PullFindsTask
  BY DEF ThreadProofs!PullFindsTask, Threads!PullFindsTask
<1>4. ThreadProofs!SomebodyAwake => Threads!SomebodyAwake
  BY DEF ThreadProofs!SomebodyAwake, Threads!SomebodyAwake
<1>5. ServerInv => /\ Loop!WorkerReadsOwnConnection /\ Loop!BatchIsCurrent
                   /\ Threads!PullFindsTask /\ Threads!SomebodyAwake
  BY <1>1, <1>2, <1>3, <1>4 DEF ServerInv, ThreadProofs!IInv, LoopProofs!IInv
<1> QED
  BY <1>5, ServerInvariance, PTL

(* Loop, threads and list together give every connection the life that     *)
(* ConnectionLife describes.                                               *)
THEOREM ServerConnectionsLive == ServerSpec => LoopProofs!ImplementsLife
<1>1. LoopProofs!Spec => LoopProofs!ImplementsLife
  BY PartsHold, LoopProofs!ConnectionsLiveAsPromised
<1>2. ServerInv /\ [ServerNext]_serverVars => [LoopProofs!Next]_(LoopProofs!vars)
  BY ServerStepIs, SameLoop DEF PartsStep
<1>3. ServerInit => LoopProofs!Init
  BY ServerInitIs, SameLoop
<1> QED
  BY <1>1, <1>2, <1>3, ServerInvariance, PTL DEF ServerSpec, LoopProofs!Spec
=============================================================================
