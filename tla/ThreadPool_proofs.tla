--------------------------- MODULE ThreadPool_proofs ---------------------------
(***************************************************************************)
(* Proofs about ThreadPool, for every number of workers and descriptors.   *)
(***************************************************************************)
EXTENDS ThreadPool, TLAPS

(* The inductive invariant.  LockInv makes the sections exclusive, CountInv *)
(* ties the counter a worker tests to the list it pulls from, ArgumentInv  *)
(* says which descriptors the threads have in their local variables.       *)
IInv == TypeOK /\ LockInv /\ CountInv /\ PullFindsTask
        /\ ArgumentInv /\ OnePlace /\ SomebodyAwake

(* What Append and Tail do to the list of tasks.                           *)
LEMMA AppendTask ==
  ASSUME NEW s \in Seq(Descriptors), NEW d \in Descriptors
  PROVE  /\ Append(s, d) \in Seq(Descriptors) /\ Append(s, d) # <<>>
         /\ Len(s) \in Nat /\ Len(Append(s, d)) = Len(s) + 1
         /\ \A i \in 1..Len(s) : Append(s, d)[i] = s[i]
         /\ Append(s, d)[Len(s) + 1] = d
OBVIOUS

LEMMA TailTasks ==
  ASSUME NEW s \in Seq(Descriptors), s # <<>>
  PROVE  /\ Tail(s) \in Seq(Descriptors)
         /\ Len(s) \in Nat \ {0}
         /\ Len(Tail(s)) = Len(s) - 1
         /\ \A i \in 1..(Len(s) - 1) : Tail(s)[i] = s[i + 1]
         /\ Head(s) = s[1] /\ Head(s) \in Descriptors
OBVIOUS

(* A list is empty exactly when its length is 0.                           *)
LEMMA EmptyTasks ==
  ASSUME NEW s \in Seq(Descriptors)
  PROVE  Len(s) \in Nat /\ (s = <<>> <=> Len(s) = 0)
OBVIOUS

-----------------------------------------------------------------------------
(* Init establishes every part.                                            *)
LEMMA InitEstablishes == Init => IInv
<1> SUFFICES ASSUME Init PROVE IInv
  OBVIOUS
<1>1. TypeOK
  <2>1. tasks \in Seq(Descriptors) /\ num_connections \in Nat
    BY DEF Init
  <2>2. /\ pc \in [Worker -> {"lock", "check", "sleep", "waiting", "woken",
                             "pull", "pop", "unlock", "process"}]
        /\ current \in [Worker -> Descriptors \cup {NoTask}]
        /\ thread_lock \in Worker \cup {Free}
        /\ enqueue_lock \in Worker \cup {Main, Free}
        /\ main_pc \in {"idle", "link", "count", "signal"}
        /\ client_descriptor \in Descriptors \cup {NoTask}
    BY DEF Init
  <2> QED
    BY <2>1, <2>2 DEF TypeOK
<1>2. LockInv
  BY PoolAssumption DEF Init, LockInv
<1>3. CountInv
  BY DEF Init, CountInv
<1>4. PullFindsTask /\ SomebodyAwake
  BY DEF Init, PullFindsTask, SomebodyAwake
<1>5. ArgumentInv /\ OnePlace
  <2>1. Len(tasks) = 0 /\ \A w \in Worker : current[w] = NoTask
    BY DEF Init
  <2> QED
    BY <2>1 DEF Init, ArgumentInv, OnePlace, Pool!OnePlace
<1> QED
  BY <1>1, <1>2, <1>3, <1>4, <1>5 DEF IInv

(* Every step keeps the types.                                             *)
LEMMA TypeKept ==
  ASSUME TypeOK, ArgumentInv, PullFindsTask, [Next]_vars
  PROVE  TypeOK'
<1> USE DEF TypeOK, Goto, mainVars, workerVars
<1>1. ASSUME NEW w \in Worker, Lock(w) PROVE TypeOK'
  BY <1>1 DEF Lock
<1>2. ASSUME NEW w \in Worker, Check(w) PROVE TypeOK'
  BY <1>2 DEF Check
<1>3. ASSUME NEW w \in Worker, Sleep(w) PROVE TypeOK'
  BY <1>3 DEF Sleep
<1>4. ASSUME NEW w \in Worker, SpuriousWake(w) PROVE TypeOK'
  BY <1>4 DEF SpuriousWake
<1>5. ASSUME NEW w \in Worker, Relock(w) PROVE TypeOK'
  BY <1>5 DEF Relock
<1>6. ASSUME NEW w \in Worker, PullLock(w) PROVE TypeOK'
  BY <1>6 DEF PullLock
<1>7. ASSUME NEW w \in Worker, Pop(w) PROVE TypeOK'
  <2>1. CASE tasks = <<>>
    BY <1>7, <2>1 DEF Pop
  <2>2. CASE tasks # <<>>
    <3>1. Tail(tasks) \in Seq(Descriptors) /\ Head(tasks) \in Descriptors
      BY <2>2, TailTasks
    <3>2. /\ pc' = [pc EXCEPT ![w] = "unlock"] /\ enqueue_lock' = Free
          /\ current' = [current EXCEPT ![w] = Head(tasks)]
          /\ tasks' = Tail(tasks) /\ num_connections' = num_connections - 1
          /\ UNCHANGED <<thread_lock, main_pc, client_descriptor>>
          /\ num_connections > 0
      BY <1>7, <2>2 DEF Pop, PullFindsTask
    <3> QED
      BY <3>1, <3>2
  <2> QED
    BY <2>1, <2>2
<1>8. ASSUME NEW w \in Worker, Unlock(w) PROVE TypeOK'
  BY <1>8 DEF Unlock
<1>9. ASSUME NEW w \in Worker, Process(w) PROVE TypeOK'
  BY <1>9 DEF Process
<1>10. ASSUME NEW d \in Descriptors, EnqueueLock(d) PROVE TypeOK'
  BY <1>10 DEF EnqueueLock
<1>11. CASE Link
  BY <1>11 DEF Link, ArgumentInv
<1>12. CASE LinkFails
  BY <1>12 DEF LinkFails
<1>13. CASE Count
  BY <1>13 DEF Count
<1>14. CASE Signal
  BY <1>14 DEF Signal
<1>15. CASE UNCHANGED vars
  BY <1>15 DEF vars
<1> QED
  BY <1>1, <1>2, <1>3, <1>4, <1>5, <1>6, <1>7, <1>8, <1>9, <1>10, <1>11,
     <1>12, <1>13, <1>14, <1>15 DEF Next, ThreadRunner, EnqueueTask

(* No two threads are ever inside a section the same mutex guards.         *)
LEMMA LocksKept ==
  ASSUME TypeOK, LockInv, [Next]_vars
  PROVE  LockInv'
<1> USE PoolAssumption DEF TypeOK, LockInv, Goto, mainVars, workerVars
<1>1. ASSUME NEW w \in Worker, Lock(w) PROVE LockInv'
  BY <1>1 DEF Lock
<1>2. ASSUME NEW w \in Worker, Check(w) PROVE LockInv'
  BY <1>2 DEF Check
<1>3. ASSUME NEW w \in Worker, Sleep(w) PROVE LockInv'
  BY <1>3 DEF Sleep
<1>4. ASSUME NEW w \in Worker, SpuriousWake(w) PROVE LockInv'
  BY <1>4 DEF SpuriousWake
<1>5. ASSUME NEW w \in Worker, Relock(w) PROVE LockInv'
  BY <1>5 DEF Relock
<1>6. ASSUME NEW w \in Worker, PullLock(w) PROVE LockInv'
  BY <1>6 DEF PullLock
<1>7. ASSUME NEW w \in Worker, Pop(w) PROVE LockInv'
  <2>1. /\ pc[w] = "pop" /\ pc' = [pc EXCEPT ![w] = "unlock"]
        /\ enqueue_lock' = Free /\ UNCHANGED <<thread_lock, main_pc>>
    BY <1>7 DEF Pop
  <2> QED
    BY <2>1
<1>8. ASSUME NEW w \in Worker, Unlock(w) PROVE LockInv'
  BY <1>8 DEF Unlock
<1>9. ASSUME NEW w \in Worker, Process(w) PROVE LockInv'
  BY <1>9 DEF Process
<1>10. ASSUME NEW d \in Descriptors, EnqueueLock(d) PROVE LockInv'
  BY <1>10 DEF EnqueueLock
<1>11. CASE Link
  BY <1>11 DEF Link
<1>12. CASE LinkFails
  BY <1>12 DEF LinkFails
<1>13. CASE Count
  BY <1>13 DEF Count
<1>14. CASE Signal
  BY <1>14 DEF Signal
<1>15. CASE UNCHANGED vars
  BY <1>15 DEF vars
<1> QED
  BY <1>1, <1>2, <1>3, <1>4, <1>5, <1>6, <1>7, <1>8, <1>9, <1>10, <1>11,
     <1>12, <1>13, <1>14, <1>15 DEF Next, ThreadRunner, EnqueueTask

(* The steps that leave the list, the counter and the descriptors alone.   *)
Quiet == /\ UNCHANGED <<tasks, num_connections, current>>
         /\ \/ UNCHANGED <<main_pc, client_descriptor>>
            \/ main_pc \in {"link", "signal"} /\ main_pc' = "idle"

LEMMA QuietSteps ==
  ASSUME [Next]_vars
  PROVE  \/ Quiet
         \/ \E w \in Worker : Pop(w) \/ Process(w)
         \/ \E d \in Descriptors : EnqueueLock(d)
         \/ Link \/ Count
BY DEF Next, ThreadRunner, EnqueueTask, Quiet, vars, mainVars, workerVars,
       Lock, Check, Sleep, SpuriousWake, Relock, PullLock, Unlock,
       LinkFails, Signal

(* The counter follows the list: pull and enqueue exclude each other.      *)
LEMMA CountKept ==
  ASSUME TypeOK, LockInv, CountInv, [Next]_vars
  PROVE  CountInv'
<1> USE DEF TypeOK, CountInv, mainVars, workerVars
<1>1. Len(tasks) \in Nat
  BY EmptyTasks
<1>2. CASE Quiet
  BY <1>2 DEF Quiet
<1>3. ASSUME NEW w \in Worker, Pop(w) PROVE CountInv'
  <2>1. main_pc # "count"
    BY <1>3, PoolAssumption DEF Pop, LockInv
  <2>2. CASE tasks = <<>>
    BY <1>3, <2>1, <2>2 DEF Pop
  <2>3. CASE tasks # <<>>
    <3>1. Len(tasks') = Len(tasks) - 1 /\ num_connections' = num_connections - 1
          /\ main_pc' = main_pc
      BY <1>3, <2>3, TailTasks DEF Pop
    <3> QED
      BY <1>1, <2>1, <3>1
  <2> QED
    BY <2>2, <2>3
<1>4. ASSUME NEW w \in Worker, Process(w) PROVE CountInv'
  BY <1>4 DEF Process
<1>5. ASSUME NEW d \in Descriptors, EnqueueLock(d) PROVE CountInv'
  BY <1>5 DEF EnqueueLock
<1>6. CASE Link
  <2>1. Len(tasks') = Len(tasks) + 1
    BY <1>6 DEF Link
  <2> QED
    BY <1>1, <1>6, <2>1 DEF Link
<1>7. CASE Count
  BY <1>1, <1>7 DEF Count
<1> QED
  BY QuietSteps, <1>2, <1>3, <1>4, <1>5, <1>6, <1>7

(* A worker past the test keeps thread_lock, so nobody else pulls.         *)
LEMMA PullKept ==
  ASSUME TypeOK, LockInv, PullFindsTask, TypeOK', CountInv', [Next]_vars
  PROVE  PullFindsTask'
<1>1. SUFFICES ASSUME NEW v \in Worker, pc'[v] \in {"pull", "pop"}
               PROVE  num_connections' > 0
  <2>1. tasks' \in Seq(Descriptors) /\ num_connections' \in Nat
    BY DEF TypeOK
  <2>2. num_connections' > 0 => tasks' # <<>>
    BY <2>1, EmptyTasks DEF CountInv
  <2> QED
    BY <2>2 DEF PullFindsTask
<1> USE DEF TypeOK, Goto, mainVars, workerVars
<1>2. CASE UNCHANGED num_connections
  <2>1. pc[v] \in {"pull", "pop"} => num_connections > 0
    BY DEF PullFindsTask
  <2>2. CASE \E w \in Worker : Check(w)
    BY <1>1, <2>1, <2>2 DEF Check
  <2>3. CASE \E w \in Worker : PullLock(w)
    BY <1>1, <1>2, <2>1, <2>3 DEF PullLock
  <2>4. CASE ~(\E w \in Worker : Check(w) \/ PullLock(w))
    <3>1. pc'[v] \in {"pull", "pop"} => pc[v] \in {"pull", "pop"}
      BY <2>4 DEF Next, ThreadRunner, EnqueueTask, Lock, Sleep, SpuriousWake,
         Relock, Pop, Unlock, Process, EnqueueLock, Link, LinkFails, Count,
         Signal, vars
    <3> QED
      BY <1>1, <1>2, <2>1, <3>1
  <2> QED
    BY <2>2, <2>3, <2>4
<1>3. CASE Count
  BY <1>3 DEF Count
<1>4. ASSUME NEW w \in Worker, Pop(w) PROVE FALSE
  <2>1. thread_lock = w /\ pc[w] = "pop" /\ pc' = [pc EXCEPT ![w] = "unlock"]
    BY <1>4 DEF Pop, LockInv
  <2>2. v # w /\ pc[v] \in {"pull", "pop"}
    BY <1>1, <2>1
  <2> QED
    BY <2>1, <2>2 DEF LockInv
<1>5. UNCHANGED num_connections \/ Count \/ \E w \in Worker : Pop(w)
  BY QuietSteps DEF Quiet, Process, EnqueueLock, Link
<1> QED
  BY <1>2, <1>3, <1>4, <1>5

(* Moving the oldest descriptor from the list into a worker that has none, *)
(* and appending a fresh one, keep every descriptor in one place.          *)
LEMMA OnePlaceKept ==
  ASSUME TypeOK, ArgumentInv, OnePlace, [Next]_vars
  PROVE  OnePlace' /\ ArgumentInv'
<1> USE DEF TypeOK, Goto, mainVars, workerVars
<1>0. Len(tasks) \in Nat
  BY EmptyTasks
<1>1. CASE Quiet
  <2>1. OnePlace'
    BY <1>1 DEF Quiet, OnePlace, Pool!OnePlace
  <2>2. main_pc' = "link" => client_descriptor' # NoTask /\ ~InFlight(client_descriptor)'
    BY <1>1 DEF Quiet, ArgumentInv, InFlight
  <2>3. ASSUME NEW w \in Worker
        PROVE  /\ current'[w] # NoTask => pc'[w] \in {"unlock", "process"}
               /\ pc'[w] = "process" => current'[w] # NoTask
    BY <1>1 DEF Quiet, ArgumentInv, Next, ThreadRunner, EnqueueTask, Lock, Check,
       Sleep, SpuriousWake, Relock, PullLock, Pop, Unlock, Process, EnqueueLock,
       Link, LinkFails, Count, Signal, vars
  <2> QED
    BY <2>1, <2>2, <2>3 DEF ArgumentInv
<1>2. ASSUME NEW w \in Worker, Pop(w), tasks = <<>>
      PROVE  OnePlace' /\ ArgumentInv'
  BY <1>2, <1>0 DEF Pop, OnePlace, Pool!OnePlace, ArgumentInv, InFlight
<1>3. ASSUME NEW w \in Worker, Pop(w), tasks # <<>>
      PROVE  OnePlace' /\ ArgumentInv'
  <2>1. /\ current' = [current EXCEPT ![w] = tasks[1]] /\ tasks[1] \in Descriptors
        /\ Len(tasks') = Len(tasks) - 1
        /\ \A i \in 1..Len(tasks') : tasks'[i] = tasks[i + 1]
        /\ \A i \in 1..Len(tasks') : i \in 1..Len(tasks) /\ i + 1 \in 1..Len(tasks) /\ i + 1 # 1
        /\ 1 \in 1..Len(tasks)
        /\ pc' = [pc EXCEPT ![w] = "unlock"] /\ pc[w] = "pop"
        /\ UNCHANGED <<main_pc, client_descriptor>>
    <3>1. /\ Len(tasks) \in Nat \ {0} /\ Len(Tail(tasks)) = Len(tasks) - 1
          /\ \A i \in 1..(Len(tasks) - 1) : Tail(tasks)[i] = tasks[i + 1]
          /\ Head(tasks) = tasks[1] /\ Head(tasks) \in Descriptors
      BY <1>3, TailTasks
    <3>2. /\ current' = [current EXCEPT ![w] = Head(tasks)] /\ tasks' = Tail(tasks)
          /\ pc' = [pc EXCEPT ![w] = "unlock"] /\ pc[w] = "pop"
          /\ UNCHANGED <<main_pc, client_descriptor>>
      BY <1>3 DEF Pop
    <3> QED
      BY <3>1, <3>2
  <2>2. \A i, j \in 1..Len(tasks') : tasks'[i] = tasks'[j] => i = j
    BY <2>1, <1>0 DEF OnePlace, Pool!OnePlace
  <2>3. current'[w] = tasks[1] /\ \A v \in Worker : v # w => current'[v] = current[v]
    BY <2>1
  <2>4. /\ \A u, v \in Worker : current'[u] = current'[v] /\ current'[u] # NoTask => u = v
        /\ \A i \in 1..Len(tasks'), v \in Worker : tasks'[i] # current'[v]
    BY <2>1, <2>3 DEF OnePlace, Pool!OnePlace
  <2>5. tasks[1] # NoTask
    BY <2>1, PoolAssumption
  <2>6. ArgumentInv'
    BY <2>1, <2>3, <2>5 DEF ArgumentInv, InFlight
  <2> QED
    BY <2>2, <2>4, <2>6 DEF OnePlace, Pool!OnePlace
<1>4. ASSUME NEW w \in Worker, Process(w)
      PROVE  OnePlace' /\ ArgumentInv'
  BY <1>4, PoolAssumption DEF Process, OnePlace, Pool!OnePlace, ArgumentInv, InFlight
<1>5. ASSUME NEW d \in Descriptors, EnqueueLock(d)
      PROVE  OnePlace' /\ ArgumentInv'
  BY <1>5, PoolAssumption DEF EnqueueLock, OnePlace, Pool!OnePlace, ArgumentInv, InFlight
<1>6. CASE Link
  <2>1. /\ Len(tasks') = Len(tasks) + 1 /\ tasks'[Len(tasks) + 1] = client_descriptor
        /\ \A i \in 1..Len(tasks) : tasks'[i] = tasks[i]
        /\ UNCHANGED <<pc, current>> /\ main_pc' = "count"
        /\ client_descriptor # NoTask /\ ~InFlight(client_descriptor)
        /\ \A i \in 1..Len(tasks') : i \in 1..Len(tasks) \/ i = Len(tasks) + 1
    BY <1>6, <1>0, AppendTask DEF Link, ArgumentInv
  <2> QED
    BY <2>1 DEF OnePlace, Pool!OnePlace, ArgumentInv, InFlight
<1>7. CASE Count
  BY <1>7 DEF Count, OnePlace, Pool!OnePlace, ArgumentInv
<1> QED
  BY QuietSteps, <1>1, <1>2, <1>3, <1>4, <1>5, <1>6, <1>7

(* Only the holder of thread_lock can be about to sleep, and it has read   *)
(* num_connections = 0.                                                    *)
LEMMA AwakeKept ==
  ASSUME TypeOK, LockInv, CountInv, SomebodyAwake, TypeOK', LockInv', [Next]_vars
  PROVE  SomebodyAwake'
<1> USE DEF TypeOK, Goto, mainVars, workerVars
<1>1. SUFFICES ASSUME NEW a \in Worker, NEW b \in Worker, a # b,
                      num_connections' > 0, main_pc' # "signal"
               PROVE  \E w \in Worker : pc'[w] \notin {"sleep", "waiting"}
  BY DEF SomebodyAwake
<1>2. CASE Signal
  <2>1. CASE \A w \in Worker : pc[w] # "waiting"
    <3>1. pc' = pc
      BY <1>2, <2>1 DEF Signal
    <3>2. pc[a] # "sleep" \/ pc[b] # "sleep"
      BY <1>1 DEF LockInv
    <3> QED
      BY <2>1, <3>1, <3>2
  <2>2. CASE \E w \in Worker : pc[w] = "waiting"
    BY <1>2, <2>2 DEF Signal
  <2> QED
    BY <2>1, <2>2
<1>3. CASE ~Signal
  <2>1. main_pc # "signal" /\ ~Count
    BY <1>1, <1>3 DEF Next, ThreadRunner, EnqueueTask, Lock, Check, Sleep,
       SpuriousWake, Relock, PullLock, Pop, Unlock, Process, EnqueueLock, Link,
       LinkFails, Count, vars
  <2>2. num_connections > 0
    BY <1>1, <2>1, QuietSteps DEF Quiet, Pop, Process, EnqueueLock, Link
  <2>3. PICK w \in Worker : pc[w] \notin {"sleep", "waiting"}
    BY <1>1, <2>1, <2>2 DEF SomebodyAwake
  <2>4. pc'[w] \notin {"sleep", "waiting"}
    BY <1>3, <2>1, <2>2, <2>3 DEF Next, ThreadRunner, EnqueueTask, Lock, Check,
       Sleep, SpuriousWake, Relock, PullLock, Pop, Unlock, Process, EnqueueLock,
       Link, LinkFails, vars
  <2> QED
    BY <2>4
<1> QED
  BY <1>2, <1>3

(* IInv is inductive.                                                      *)
LEMMA StepKeeps == IInv /\ [Next]_vars => IInv'
<1> SUFFICES ASSUME IInv, [Next]_vars PROVE IInv'
  OBVIOUS
<1> USE DEF IInv
<1>1. TypeOK' /\ LockInv'
  BY TypeKept, LocksKept
<1>2. CountInv'
  BY CountKept
<1>3. PullFindsTask'
  BY <1>1, <1>2, PullKept
<1>4. OnePlace' /\ ArgumentInv'
  BY OnePlaceKept
<1>5. SomebodyAwake'
  BY <1>1, AwakeKept
<1> QED
  BY <1>1, <1>2, <1>3, <1>4, <1>5

-----------------------------------------------------------------------------
(* In every interleaving of the workers and the orchestrator, every        *)
(* variable keeps its type; num_connections is never negative.             *)
THEOREM TypeCorrect == Spec => []TypeOK
<1>1. IInv => TypeOK
  BY DEF IInv
<1> QED
  BY <1>1, InitEstablishes, StepKeeps, PTL DEF Spec

(* The two mutexes guard what thread_runner, _pull_next_task and           *)
(* enqueue_task do between their lock and unlock calls.                    *)
THEOREM LocksHold == Spec => []LockInv
<1>1. IInv => LockInv
  BY DEF IInv
<1> QED
  BY <1>1, InitEstablishes, StepKeeps, PTL DEF Spec

(* num_connections, incremented by one thread and decremented by others,   *)
(* always agrees with the list.                                            *)
THEOREM CountAgrees == Spec => []CountInv
<1>1. IInv => CountInv
  BY DEF IInv
<1> QED
  BY <1>1, InitEstablishes, StepKeeps, PTL DEF Spec

(* A worker that saw a task without enqueue_lock finds one under it.       *)
THEOREM PullNeverFails == Spec => []PullFindsTask
<1>1. IInv => PullFindsTask
  BY DEF IInv
<1> QED
  BY <1>1, InitEstablishes, StepKeeps, PTL DEF Spec

(* No descriptor is ever in the hands of two workers, or queued while one  *)
(* has it.                                                                 *)
THEOREM DescriptorInOnePlace == Spec => []OnePlace
<1>1. IInv => OnePlace
  BY DEF IInv
<1> QED
  BY <1>1, InitEstablishes, StepKeeps, PTL DEF Spec

(* With two workers or more a queued task never finds every worker asleep. *)
THEOREM NeverAllAsleep == Spec => []SomebodyAwake
<1>1. IInv => SomebodyAwake
  BY DEF IInv
<1> QED
  BY <1>1, InitEstablishes, StepKeeps, PTL DEF Spec

(* Every step of every thread is a step of the pool the orchestrator       *)
(* relies on, or changes nothing it can see.                               *)
LEMMA StepIsPoolStep ==
  ASSUME IInv, [Next]_vars
  PROVE  [Pool!Next]_<<tasks, current>>
<1> USE DEF IInv, Pool!Next, Pool!Submit, Pool!Take, Pool!Release, Pool!InFlight
<1>1. CASE Quiet
  BY <1>1 DEF Quiet
<1>2. ASSUME NEW w \in Worker, Pop(w) PROVE Pool!Take(w)
  BY <1>2 DEF Pop, PullFindsTask, ArgumentInv, TypeOK
<1>3. ASSUME NEW w \in Worker, Process(w) PROVE Pool!Release(w)
  BY <1>3 DEF Process, ArgumentInv
<1>4. ASSUME NEW d \in Descriptors, EnqueueLock(d) PROVE UNCHANGED <<tasks, current>>
  BY <1>4 DEF EnqueueLock, workerVars
<1>5. CASE Link
  BY <1>5 DEF Link, ArgumentInv, InFlight, TypeOK, workerVars
<1>6. CASE Count
  BY <1>6 DEF Count, workerVars
<1> QED
  BY QuietSteps, <1>1, <1>2, <1>3, <1>4, <1>5, <1>6

(* The threads, locks and counter implement the abstract pool.             *)
THEOREM ThreadsImplementPool == Spec => ImplementsPool
<1>1. Init => Pool!Init
  BY DEF Init, Pool!Init
<1>2. IInv /\ [Next]_vars => [Pool!Next]_(Pool!vars)
  BY StepIsPoolStep DEF Pool!vars
<1> QED
  BY <1>1, <1>2, InitEstablishes, StepKeeps, PTL DEF Spec, ImplementsPool, Pool!Spec
=============================================================================
