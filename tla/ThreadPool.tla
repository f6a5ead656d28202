------------------------------ MODULE ThreadPool ------------------------------
(***************************************************************************)
(* The thread pool of thread_handler.c: num_cores threads in thread_runner *)
(* and the orchestrator's thread in enqueue_task, step by step.            *)
(*                                                                         *)
(* Two mutexes are involved.  A worker tests num_connections and sleeps    *)
(* under thread_lock; num_connections is written under enqueue_lock, by    *)
(* the orchestrator without thread_lock, and the condition variable is     *)
(* signalled without it too.  A worker's step is whatever it does between  *)
(* two points at which another thread can see or change what it reads.     *)
(* The list itself is a sequence here: TaskQueue shows what stands behind  *)
(* it.  pc values are named after the statement about to be executed.      *)
(***************************************************************************)
EXTENDS Integers, Sequences

CONSTANTS
  Worker,         \* the threads init_thread_handler creates, config.num_cores
  Main,           \* the orchestrator's thread
  Descriptors,    \* socket descriptors
  NoTask,         \* socket_descriptor = -1
  Free            \* a mutex nobody holds

ASSUME PoolAssumption ==
  /\ Worker # {}
  /\ Main \notin Worker /\ Free \notin Worker /\ Main # Free
  /\ NoTask \notin Descriptors

VARIABLES
  pc,               \* where each worker is
  thread_lock,      \* its holder, or Free
  enqueue_lock,
  tasks,            \* descriptors in the linked list, oldest first
  num_connections,
  current,          \* a worker's local socket_descriptor
  main_pc,          \* where the orchestrator's thread is in enqueue_task
  client_descriptor \* enqueue_task's argument

vars == <<pc, thread_lock, enqueue_lock, tasks, num_connections, current,
          main_pc, client_descriptor>>

mainVars   == <<main_pc, client_descriptor>>
workerVars == <<pc, current>>

Init ==
  /\ pc = [w \in Worker |-> "lock"]
  /\ thread_lock = Free
  /\ enqueue_lock = Free
  /\ tasks = <<>>
  /\ num_connections = 0
  /\ current = [w \in Worker |-> NoTask]
  /\ main_pc = "idle"
  /\ client_descriptor = NoTask

Goto(w, label) == pc' = [pc EXCEPT ![w] = label]

-----------------------------------------------------------------------------
(* thread_runner                                                           *)

(* pthread_mutex_lock(&thread_lock), at the top of the loop.               *)
Lock(w) ==
  /\ pc[w] = "lock" /\ thread_lock = Free
  /\ thread_lock' = w
  /\ Goto(w, "check")
  /\ UNCHANGED <<enqueue_lock, tasks, num_connections, current, mainVars>>

(* The test of while(num_connections == 0): enqueue_lock is not held.      *)
Check(w) ==
  /\ pc[w] = "check"
  /\ Goto(w, IF num_connections = 0 THEN "sleep" ELSE "pull")
  /\ UNCHANGED <<thread_lock, enqueue_lock, tasks, num_connections, current, mainVars>>

(* pthread_cond_wait: join the waiters and release thread_lock at once.    *)
Sleep(w) ==
  /\ pc[w] = "sleep"
  /\ thread_lock' = Free
  /\ Goto(w, "waiting")
  /\ UNCHANGED <<enqueue_lock, tasks, num_connections, current, mainVars>>

(* pthread_cond_wait may return without a signal.                          *)
SpuriousWake(w) ==
  /\ pc[w] = "waiting"
  /\ Goto(w, "woken")
  /\ UNCHANGED <<thread_lock, enqueue_lock, tasks, num_connections, current, mainVars>>

(* Mutant: `if' instead of `while': the woken worker does not test again.  *)
RelockWithoutTest(w) ==
  /\ pc[w] = "woken" /\ thread_lock = Free
  /\ thread_lock' = w
  /\ Goto(w, "pull")
  /\ UNCHANGED <<enqueue_lock, tasks, num_connections, current, mainVars>>

(* pthread_cond_wait takes thread_lock again before it returns to the test. *)
Relock(w) ==
  /\ pc[w] = "woken" /\ thread_lock = Free
  /\ thread_lock' = w
  /\ Goto(w, "check")
  /\ UNCHANGED <<enqueue_lock, tasks, num_connections, current, mainVars>>

(* _pull_next_task: pthread_mutex_lock(&enqueue_lock).                     *)
PullLock(w) ==
  /\ pc[w] = "pull" /\ enqueue_lock = Free
  /\ enqueue_lock' = w
  /\ Goto(w, "pop")
  /\ UNCHANGED <<thread_lock, tasks, num_connections, current, mainVars>>

(* _pull_next_task up to its pthread_mutex_unlock: the early return that   *)
(* finds no task, or the removal of the oldest one.                        *)
Pop(w) ==
  /\ pc[w] = "pop"
  /\ enqueue_lock' = Free
  /\ Goto(w, "unlock")
  /\ \/ /\ tasks = <<>>
        /\ UNCHANGED <<tasks, num_connections, current>>
     \/ /\ tasks # <<>>
        /\ current' = [current EXCEPT ![w] = Head(tasks)]
        /\ tasks' = Tail(tasks)
        /\ num_connections' = num_connections - 1
  /\ UNCHANGED <<thread_lock, mainVars>>

(* pthread_mutex_unlock(&thread_lock), then on to the task or, if there is *)
(* none, back to the top of the loop.                                      *)
Unlock(w) ==
  /\ pc[w] = "unlock"
  /\ thread_lock' = Free
  /\ Goto(w, IF current[w] = NoTask THEN "lock" ELSE "process")
  /\ UNCHANGED <<enqueue_lock, tasks, num_connections, current, mainVars>>

(* _process_request and close, whatever the former returns: both branches  *)
(* close the descriptor and go back to the top of the loop.                *)
Process(w) ==
  /\ pc[w] = "process"
  /\ current' = [current EXCEPT ![w] = NoTask]
  /\ Goto(w, "lock")
  /\ UNCHANGED <<thread_lock, enqueue_lock, tasks, num_connections, mainVars>>

ThreadRunner(w) ==
  \/ Lock(w) \/ Check(w) \/ Sleep(w) \/ Relock(w)
  \/ PullLock(w) \/ Pop(w) \/ Unlock(w) \/ Process(w)

-----------------------------------------------------------------------------
(* enqueue_task                                                            *)

(* The multiplexer delivers a descriptor once until a worker has closed it *)
(* (EV_DISPATCH; the module Orchestrator shows it).                        *)
InFlight(d) ==
  \/ \E i \in 1..Len(tasks) : tasks[i] = d
  \/ \E w \in Worker : current[w] = d

(* Mutant: a descriptor is delivered while a worker still has it.          *)
EnqueueLockAgain(d) ==
  /\ main_pc = "idle" /\ enqueue_lock = Free
  /\ Len(tasks) < 4
  /\ enqueue_lock' = Main
  /\ client_descriptor' = d
  /\ main_pc' = "link"
  /\ UNCHANGED <<thread_lock, tasks, num_connections, workerVars>>

(* The call, and pthread_mutex_lock(&enqueue_lock).                        *)
EnqueueLock(d) ==
  /\ main_pc = "idle" /\ enqueue_lock = Free
  /\ ~InFlight(d)
  /\ enqueue_lock' = Main
  /\ client_descriptor' = d
  /\ main_pc' = "link"
  /\ UNCHANGED <<thread_lock, tasks, num_connections, workerVars>>

(* calloc succeeds and the node is linked at the tail.                     *)
Link ==
  /\ main_pc = "link"
  /\ tasks' = Append(tasks, client_descriptor)
  /\ main_pc' = "count"
  /\ UNCHANGED <<thread_lock, enqueue_lock, num_connections, client_descriptor, workerVars>>

(* Mutants: the test for NULL is dropped and an empty node stays in the    *)
(* list, or the early return forgets to unlock.                            *)
LinkFailure(list, holder) ==
  /\ main_pc = "link"
  /\ enqueue_lock' = holder
  /\ tasks' = list
  /\ client_descriptor' = NoTask
  /\ main_pc' = "idle"
  /\ UNCHANGED <<thread_lock, num_connections, workerVars>>
LinkFailsLinked == LinkFailure(Append(tasks, NoTask), Free)
LinkFailsLocked == LinkFailure(tasks, Main)

(* calloc fails: unlock and return false.                                  *)
LinkFails ==
  /\ main_pc = "link"
  /\ enqueue_lock' = Free
  /\ client_descriptor' = NoTask
  /\ main_pc' = "idle"
  /\ UNCHANGED <<thread_lock, tasks, num_connections, workerVars>>

(* ++num_connections, pthread_mutex_unlock(&enqueue_lock).                 *)
Count ==
  /\ main_pc = "count"
  /\ num_connections' = num_connections + 1
  /\ enqueue_lock' = Free
  /\ main_pc' = "signal"
  /\ UNCHANGED <<thread_lock, tasks, client_descriptor, workerVars>>

(* Mutant: the condition is not signalled.                                 *)
SignalDropped ==
  /\ main_pc = "signal"
  /\ client_descriptor' = NoTask
  /\ main_pc' = "idle"
  /\ UNCHANGED <<thread_lock, enqueue_lock, tasks, num_connections, workerVars>>

(* pthread_cond_signal: one waiter, if there is one, leaves the condition. *)
Signal ==
  /\ main_pc = "signal"
  /\ \/ /\ \A w \in Worker : pc[w] # "waiting"
        /\ UNCHANGED pc
     \/ \E w \in Worker : pc[w] = "waiting" /\ Goto(w, "woken")
  /\ client_descriptor' = NoTask
  /\ main_pc' = "idle"
  /\ UNCHANGED <<thread_lock, enqueue_lock, tasks, num_connections, current>>

EnqueueTask == Link \/ LinkFails \/ Count \/ Signal

-----------------------------------------------------------------------------
Next ==
  \/ \E w \in Worker : ThreadRunner(w) \/ SpuriousWake(w)
  \/ \E d \in Descriptors : EnqueueLock(d)
  \/ EnqueueTask

Spec == Init /\ [][Next]_vars

(* Every thread keeps running, a receive timeout bounds _process_request   *)
(* (connection_handler.c:125), and a worker at the enqueue_lock gets it    *)
(* eventually: between two enqueues the orchestrator is in the kernel.     *)
(* Nothing obliges a client to send data or a wait to end on its own.      *)
Fairness ==
  /\ \A w \in Worker : WF_vars(ThreadRunner(w)) /\ SF_vars(PullLock(w))
  /\ WF_vars(EnqueueTask)

FairSpec == Spec /\ Fairness
-----------------------------------------------------------------------------
TypeOK ==
  /\ pc \in [Worker -> {"lock", "check", "sleep", "waiting", "woken", "pull",
                        "pop", "unlock", "process"}]
  /\ thread_lock \in Worker \cup {Free}
  /\ enqueue_lock \in Worker \cup {Main, Free}
  /\ tasks \in Seq(Descriptors)
  /\ num_connections \in Nat
  /\ current \in [Worker -> Descriptors \cup {NoTask}]
  /\ main_pc \in {"idle", "link", "count", "signal"}
  /\ client_descriptor \in Descriptors \cup {NoTask}

(* Each mutex is held by exactly the thread inside the section it guards.  *)
LockInv ==
  /\ \A w \in Worker :
       /\ thread_lock = w <=> pc[w] \in {"check", "sleep", "pull", "pop", "unlock"}
       /\ enqueue_lock = w <=> pc[w] = "pop"
  /\ enqueue_lock = Main <=> main_pc \in {"link", "count"}

(* num_connections counts the list, except between linking a task and      *)
(* counting it.                                                            *)
CountInv ==
  num_connections = Len(tasks) - (IF main_pc = "count" THEN 1 ELSE 0)

(* A worker that read num_connections > 0 without enqueue_lock still finds *)
(* a task when it has that lock: _pull_next_task's "no task found" branch  *)
(* (thread_handler.c:137) and thread_runner's failure branch (:60-66) are  *)
(* never taken.                                                            *)
PullFindsTask ==
  \A w \in Worker : pc[w] \in {"pull", "pop"} => num_connections > 0 /\ tasks # <<>>

(* A worker has a descriptor exactly from the pull to the close, and what  *)
(* enqueue_task is about to link is nowhere else yet.                      *)
ArgumentInv ==
  /\ \A w \in Worker :
       /\ current[w] # NoTask => pc[w] \in {"unlock", "process"}
       /\ pc[w] = "process" => current[w] # NoTask
  /\ main_pc = "link" => client_descriptor # NoTask /\ ~InFlight(client_descriptor)

(* With two workers or more, a queued task always has a worker that will   *)
(* look at the queue again, although num_connections is tested and the     *)
(* condition signalled under different locks: of the workers that missed   *)
(* the signal, at most one can be about to sleep.                          *)
SomebodyAwake ==
  (\E v, w \in Worker : v # w) =>
    (num_connections > 0 /\ main_pc # "signal" =>
       \E w \in Worker : pc[w] \notin {"sleep", "waiting"})

(* Locks, wakeups and counters together are the pool of WorkPool; the      *)
(* second also gives its liveness, that an idle worker takes a waiting     *)
(* descriptor.                                                             *)
Pool == INSTANCE WorkPool WITH queue <- tasks, holding <- current

ImplementsPool     == Pool!Spec
ImplementsFairPool == Pool!FairSpec

(* A descriptor is in one place: once in the list or in one worker's       *)
(* hands, so two threads never read from or close the same connection.     *)
OnePlace == Pool!OnePlace

Queued(d) == \E i \in 1..Len(tasks) : tasks[i] = d

(* thread_handler.c:48, "once an event is enqueued, it grabs it": every    *)
(* queued descriptor reaches a worker.                                     *)
TaskIsTaken == \A d \in Descriptors : Queued(d) ~> ~Queued(d)
=============================================================================
