-------------------------- MODULE Orchestrator_proofs --------------------------
(***************************************************************************)
(* Proofs about Orchestrator, for every number of descriptors, connections *)
(* and workers, every MAX_EVENTS and every set of failing calls.           *)
(***************************************************************************)
EXTENDS Orchestrator, FiniteSetTheorems, TLAPS

(* The inductive invariant: what the batch says, what the pool holds and   *)
(* what the kqueue watches never name the same descriptor at once.         *)
IInv == TypeOK /\ BatchIsCurrent /\ WorkerReadsOwnConnection
        /\ InFlightIsUnwatched /\ AcceptNeverBlocks /\ Pool!OnePlace

-----------------------------------------------------------------------------
(* The rest of a batch, and what is pending in it after one event.         *)
LEMMA TailEvents ==
  ASSUME NEW s \in Seq(Events), s # <<>>
  PROVE  /\ Tail(s) \in Seq(Events)
         /\ Len(s) \in Nat \ {0}
         /\ Len(Tail(s)) = Len(s) - 1
         /\ \A i \in 1..(Len(s) - 1) : Tail(s)[i] = s[i + 1]
         /\ Head(s) = s[1] /\ Head(s) \in Events /\ s[1] \in Events
OBVIOUS

LEMMA EventAt ==
  ASSUME NEW s \in Seq(Events)
  PROVE  Len(s) \in Nat /\ \A i \in 1..Len(s) : s[i] \in Events
OBVIOUS

LEMMA AppendTask ==
  ASSUME NEW s \in Seq(Fd), NEW f \in Fd
  PROVE  /\ Append(s, f) \in Seq(Fd) /\ Len(s) \in Nat
         /\ Len(Append(s, f)) = Len(s) + 1
         /\ \A i \in 1..Len(s) : Append(s, f)[i] = s[i]
         /\ Append(s, f)[Len(s) + 1] = f
OBVIOUS

LEMMA TailTasks ==
  ASSUME NEW s \in Seq(Fd), s # <<>>
  PROVE  /\ Tail(s) \in Seq(Fd)
         /\ Len(s) \in Nat \ {0}
         /\ Len(Tail(s)) = Len(s) - 1
         /\ \A i \in 1..(Len(s) - 1) : Tail(s)[i] = s[i + 1]
         /\ Head(s) = s[1] /\ s[1] \in Fd
OBVIOUS

(* The numbers of the pending events of a batch.                           *)
LEMMA PendingIs ==
  /\ main_pc = "loop" => Pending = 1..Len(batch)
  /\ main_pc = "delete" => Pending = 2..Len(batch)
BY DEF Pending

-----------------------------------------------------------------------------
LEMMA InitEstablishes == Init => IInv
<1> SUFFICES ASSUME Init PROVE IInv
  OBVIOUS
<1> USE OrchestratorAssumption DEF Init, Pool!Init
<1>1. TypeOK
  <2>1. batch \in Seq(Events) /\ queue \in Seq(Fd)
    OBVIOUS
  <2>2. /\ file \in [Fd -> Conn \cup {None}]
        /\ knote \in [Fd -> {"none", "armed", "disabled"}]
        /\ peer \in [Conn -> {"absent", "silent", "data", "eof", "aborted"}]
        /\ holding \in [Worker -> Fd \cup {None}]
        /\ ticket \in [Fd -> Conn \cup {None}]
    OBVIOUS
  <2>3. backlog \in SUBSET Conn /\ main_pc \in {"loop", "delete"}
        /\ closed \in SUBSET (Conn \cup {None})
    OBVIOUS
  <2> QED
    BY <2>1, <2>2, <2>3 DEF TypeOK
<1>2. Len(batch) = 0 /\ Len(queue) = 0 /\ main_pc = "loop"
  OBVIOUS
<1>3. \A f \in Fd : ~InFlight(f)
  BY <1>2 DEF InFlight, Pool!InFlight
<1>4. BatchIsCurrent /\ AcceptNeverBlocks
  BY <1>2 DEF BatchIsCurrent, AcceptNeverBlocks, Pending
<1>5. WorkerReadsOwnConnection /\ InFlightIsUnwatched
  BY <1>2, <1>3 DEF WorkerReadsOwnConnection, InFlightIsUnwatched
<1>6. Pool!OnePlace
  BY <1>2 DEF Pool!OnePlace
<1> QED
  BY <1>1, <1>4, <1>5, <1>6 DEF IInv

(* The clients' own steps change only the backlog and what can be read.    *)
LEMMA ClientKeeps ==
  ASSUME IInv, NEW c \in Conn, Connect(c) \/ Speak(c) \/ HangUp(c) \/ Abort(c)
  PROVE  IInv'
<1>1. /\ UNCHANGED <<file, knote, queue, holding, batch, main_pc, ticket, closed>>
      /\ backlog' \in {backlog, backlog \cup {c}}
  BY DEF Connect, Speak, HangUp, Abort, kernel, pool, loop, history
<1>2. peer' \in [Conn -> {"absent", "silent", "data", "eof", "aborted"}]
  BY DEF IInv, TypeOK, Connect, Speak, HangUp, Abort
<1>3. TypeOK'
  BY <1>1, <1>2 DEF IInv, TypeOK
<1>4. \A f : InFlight(f)' <=> InFlight(f)
  BY <1>1 DEF InFlight, Pool!InFlight
<1>5. BatchIsCurrent' /\ AcceptNeverBlocks'
  BY <1>1 DEF IInv, BatchIsCurrent, AcceptNeverBlocks, Pending, InFlight, Pool!InFlight
<1>6. WorkerReadsOwnConnection' /\ InFlightIsUnwatched' /\ Pool!OnePlace'
  BY <1>1 DEF IInv, WorkerReadsOwnConnection, InFlightIsUnwatched, Pool!OnePlace,
     Event, InFlight, Pool!InFlight
<1> QED
  BY <1>3, <1>5, <1>6 DEF IInv

(* kevent reports watched descriptors only, each once, and disables them.  *)
LEMMA PollKeeps ==
  ASSUME IInv, NEW x \in Ready, PollReturning(x)
  PROVE  IInv'
<1> DEFINE P(n, s) ==
      /\ \A i, j \in 1..n : s[i] = s[j] => i = j
      /\ batch' = [i \in 1..n |-> EventFor(s[i])]
      /\ knote' = [f \in Fd |-> IF \E i \in 1..n : s[i] = f THEN "disabled"
                                                             ELSE knote[f]]
<1>a. PICK n \in 1..MaxEvents : \E s \in [1..n -> Ready] : P(n, s)
  BY DEF PollReturning
<1>b. PICK s \in [1..n -> Ready] : P(n, s)
  BY <1>a
<1>0. P(n, s)
  BY <1>b
<1>1. /\ UNCHANGED <<file, backlog, peer, queue, holding, main_pc, ticket, closed>>
      /\ main_pc = "loop" /\ batch = <<>>
  BY DEF PollReturning, clients, pool, history
<1>2. n \in Nat
  BY OrchestratorAssumption
<1>3. ASSUME NEW y \in Ready
      PROVE  /\ EventFor(y) \in Events /\ EventFor(y).ident = y
             /\ y # Listen => /\ y \in Fd /\ knote[y] = "armed" /\ ~InFlight(y)
                              /\ EventFor(y).conn = file[y] /\ file[y] # None
             /\ y = Listen => backlog # {}
  <2>1. CASE y = Listen
    <3>1. EventFor(y) = [ident |-> Listen, eof |-> FALSE, conn |-> None]
      BY <2>1 DEF EventFor
    <3>2. backlog # {}
      BY <2>1, OrchestratorAssumption DEF Ready
    <3> QED
      BY <2>1, <3>1, <3>2 DEF Events
  <2>2. CASE y # Listen
    <3>1. y \in Fd /\ knote[y] = "armed" /\ file[y] # None
      BY <2>2, OrchestratorAssumption DEF Ready, Readable
    <3>2. EventFor(y) = [ident |-> y, eof |-> peer[file[y]] = "eof", conn |-> file[y]]
      BY <2>2 DEF EventFor
    <3>3. ~InFlight(y)
      BY <3>1 DEF IInv, InFlightIsUnwatched
    <3>4. file[y] \in Conn
      BY <3>1 DEF IInv, TypeOK
    <3>5. (peer[file[y]] = "eof") \in BOOLEAN
      OBVIOUS
    <3> QED
      BY <2>2, <3>1, <3>2, <3>3, <3>4, <3>5 DEF Events
  <2> QED
    BY <2>1, <2>2
<1>4. /\ batch' \in Seq(Events) /\ Len(batch') = n
      /\ \A i \in 1..n : batch'[i] = EventFor(s[i]) /\ batch'[i].ident = s[i]
  <2>1. \A i \in 1..n : EventFor(s[i]) \in Events /\ EventFor(s[i]).ident = s[i]
    BY <1>0, <1>3
  <2> QED
    BY <1>0, <1>2, <2>1
<1>5. knote' \in [Fd -> {"none", "armed", "disabled"}]
  BY <1>0 DEF IInv, TypeOK
<1>6. TypeOK'
  BY <1>1, <1>4, <1>5 DEF IInv, TypeOK
<1>7. \A f : InFlight(f)' <=> InFlight(f)
  BY <1>1 DEF InFlight, Pool!InFlight
<1>8. Pending' = 1..n /\ Pending = {}
  <2>1. Len(batch) = 0
    BY <1>1
  <2> QED
    BY <1>1, <1>2, <1>4, <2>1 DEF Pending
<1>9. BatchIsCurrent'
  <2>1. \A i, j \in 1..Len(batch') : batch'[i].ident = batch'[j].ident => i = j
    BY <1>0, <1>4
  <2>2. ASSUME NEW i \in 1..n, batch'[i].ident # Listen
        PROVE  /\ batch'[i].conn # None /\ file'[batch'[i].ident] = batch'[i].conn
               /\ knote'[batch'[i].ident] = "disabled"
               /\ (~InFlight(batch[i].ident))'
    <3>1. s[i] \in Ready /\ s[i] # Listen /\ batch'[i].ident = s[i]
          /\ batch'[i] = EventFor(s[i])
      BY <1>0, <1>4, <2>2
    <3>2. /\ s[i] \in Fd /\ ~InFlight(s[i])
          /\ EventFor(s[i]).conn = file[s[i]] /\ file[s[i]] # None
      BY <1>3, <3>1
    <3>3. knote'[s[i]] = "disabled"
      BY <1>0, <3>2
    <3>4. (~InFlight(batch[i].ident))'
      BY <1>1, <3>1, <3>2 DEF InFlight, Pool!InFlight
    <3> QED
      BY <1>1, <3>1, <3>2, <3>3, <3>4
  <2>3. \A i \in 1..n : (LET e == batch[i]
                         IN  e.ident # Listen =>
                               /\ e.conn # None /\ file[e.ident] = e.conn
                               /\ knote[e.ident] = "disabled" /\ ~InFlight(e.ident))'
    BY <2>2
  <2> QED
    BY <1>8, <2>1, <2>3 DEF BatchIsCurrent
<1>10. WorkerReadsOwnConnection' /\ Pool!OnePlace'
  BY <1>1 DEF IInv, WorkerReadsOwnConnection, Pool!OnePlace, InFlight, Pool!InFlight
<1>11. InFlightIsUnwatched'
  <2>1. \A f \in Fd : knote'[f] = "armed" => knote[f] = "armed"
    BY <1>0
  <2> QED
    BY <1>1, <2>1 DEF IInv, InFlightIsUnwatched, InFlight, Pool!InFlight
<1>12. AcceptNeverBlocks'
  BY <1>0, <1>1, <1>3, <1>4 DEF AcceptNeverBlocks
<1> QED
  BY <1>6, <1>9, <1>10, <1>11, <1>12 DEF IInv

-----------------------------------------------------------------------------
(* What is left of the batch when the loop goes on to the next event.      *)
LEMMA NextEventIs ==
  ASSUME TypeOK, batch # <<>>, batch' = Tail(batch), main_pc' = "loop"
  PROVE  /\ batch' \in Seq(Events) /\ Event = batch[1] /\ Event \in Events
         /\ Len(batch) \in Nat \ {0} /\ Len(batch') = Len(batch) - 1
         /\ Pending' = 1..Len(batch')
         /\ \A i \in 1..Len(batch') :
              /\ batch'[i] = batch[i + 1] /\ batch'[i] \in Events
              /\ i + 1 \in 1..Len(batch) /\ i + 1 \in Pending /\ i + 1 # 1
         /\ \A i \in Pending : i # 1 => i - 1 \in Pending' /\ batch'[i - 1] = batch[i]
<1>1. batch \in Seq(Events)
  BY DEF TypeOK
<1>2. /\ Tail(batch) \in Seq(Events) /\ Len(batch) \in Nat \ {0}
      /\ Len(Tail(batch)) = Len(batch) - 1
      /\ \A i \in 1..(Len(batch) - 1) : Tail(batch)[i] = batch[i + 1]
      /\ Head(batch) = batch[1] /\ Head(batch) \in Events
  BY <1>1, TailEvents
<1>3. \A i \in 1..Len(batch) : batch[i] \in Events
  BY <1>1, EventAt
<1>4. Pending' = 1..Len(batch')
  BY DEF Pending
<1>5. \A i \in 1..(Len(batch) - 1) :
        i + 1 \in 1..Len(batch) /\ i + 1 \in Pending /\ i + 1 # 1
  BY <1>2 DEF Pending
<1>6. \A i \in Pending : i # 1 => i - 1 \in 1..(Len(batch) - 1)
  BY <1>2 DEF Pending, TypeOK
<1>7. \A i \in Pending : i \in Nat /\ (i - 1) + 1 = i
  BY <1>2 DEF Pending, TypeOK
<1> QED
  BY <1>2, <1>3, <1>4, <1>5, <1>6, <1>7 DEF Event

(* No descriptor is named twice in what is left.                           *)
LEMMA RestIsDistinct ==
  ASSUME TypeOK, BatchIsCurrent, batch # <<>>, batch' = Tail(batch), main_pc' = "loop"
  PROVE  /\ \A i, j \in 1..Len(batch') : batch'[i].ident = batch'[j].ident => i = j
         /\ \A i \in 1..Len(batch') : batch'[i].ident # Event.ident
<1>1. /\ Event = batch[1] /\ Len(batch) \in Nat \ {0}
      /\ \A i \in 1..Len(batch') :
           /\ batch'[i] = batch[i + 1] /\ i + 1 \in 1..Len(batch) /\ i + 1 # 1
  BY NextEventIs
<1>2. \A i, j \in Int : i + 1 = j + 1 => i = j
  OBVIOUS
<1>3. 1 \in 1..Len(batch)
  BY <1>1
<1>4. \A i, j \in 1..Len(batch) : batch[i].ident = batch[j].ident => i = j
  BY DEF BatchIsCurrent
<1>5. ASSUME NEW i \in 1..Len(batch'), NEW j \in 1..Len(batch'),
             batch'[i].ident = batch'[j].ident
      PROVE  i = j
  <2>1. i + 1 = j + 1
    BY <1>1, <1>4, <1>5
  <2> QED
    BY <1>2, <2>1
<1>6. ASSUME NEW i \in 1..Len(batch')
      PROVE  batch'[i].ident # Event.ident
  BY <1>1, <1>3, <1>4
<1> QED
  BY <1>5, <1>6

(* An accept takes a free descriptor, which no event or task names.        *)
LEMMA AcceptKeeps ==
  ASSUME IInv, ProcessConnectionEvent
  PROVE  IInv'
<1>0. /\ TypeOK /\ BatchIsCurrent /\ WorkerReadsOwnConnection
      /\ InFlightIsUnwatched /\ AcceptNeverBlocks /\ Pool!OnePlace
  BY DEF IInv
<1>1. /\ batch # <<>> /\ Event.ident = Listen /\ main_pc = "loop"
      /\ batch' = Tail(batch) /\ main_pc' = "loop"
      /\ UNCHANGED <<peer, queue, holding, ticket, closed>>
      /\ backlog' \subseteq backlog
  BY DEF ProcessConnectionEvent, AcceptConnection, AcceptUnwatched, AcceptFails,
     Dispatching, NextEvent, pool, history
<1>2. \/ UNCHANGED <<file, knote>>
      \/ \E c \in Conn, f \in Fd :
           /\ file[f] = None /\ file' = [file EXCEPT ![f] = c]
           /\ \/ knote' = [knote EXCEPT ![f] = "armed"]
              \/ knote' = knote /\ Faults # {}
  BY DEF ProcessConnectionEvent, AcceptConnection, AcceptUnwatched, AcceptFails,
     FreeFds, kernel
<1>3. /\ batch' \in Seq(Events) /\ Event = batch[1]
      /\ Len(batch) \in Nat \ {0} /\ Len(batch') = Len(batch) - 1
      /\ Pending' = 1..Len(batch')
      /\ \A i \in 1..Len(batch') :
           /\ batch'[i] = batch[i + 1] /\ batch'[i] \in Events
           /\ i + 1 \in 1..Len(batch) /\ i + 1 \in Pending /\ i + 1 # 1
      /\ \A i \in Pending : i # 1 => i - 1 \in Pending' /\ batch'[i - 1] = batch[i]
  BY <1>0, <1>1, NextEventIs
<1>4. 1 \in 1..Len(batch) /\ batch[1].ident = Listen
  BY <1>1, <1>3
<1>5. \A i \in 1..Len(batch') : batch'[i].ident # Listen /\ batch'[i].ident \in Fd
  <2>1. \A i \in 1..Len(batch') : batch[i + 1].ident # batch[1].ident
    BY <1>0, <1>3, <1>4 DEF BatchIsCurrent
  <2>2. \A i \in 1..Len(batch') : batch'[i].ident \in Fd \cup {Listen}
    BY <1>3 DEF Events
  <2> QED
    BY <1>3, <1>4, <2>1, <2>2
<1>6. \A f : InFlight(f)' <=> InFlight(f)
  BY <1>1 DEF InFlight, Pool!InFlight
<1>7. \A i \in 1..Len(batch') :
        LET e == batch'[i]
        IN  /\ e.conn # None /\ file[e.ident] = e.conn
            /\ knote[e.ident] = "disabled" /\ ~InFlight(e.ident)
  BY <1>0, <1>3, <1>5 DEF BatchIsCurrent
<1>8. \A f \in Fd : file[f] # None => file'[f] = file[f] /\ knote'[f] = knote[f]
  BY <1>0, <1>2 DEF TypeOK
<1>9. TypeOK'
  <2>1. file' \in [Fd -> Conn \cup {None}] /\ knote' \in [Fd -> {"none", "armed", "disabled"}]
    BY <1>0, <1>2 DEF TypeOK
  <2> QED
    BY <1>0, <1>1, <1>3, <2>1 DEF TypeOK
<1>10. BatchIsCurrent'
  <2>1. \A i, j \in 1..Len(batch') : batch'[i].ident = batch'[j].ident => i = j
    BY <1>0, <1>1, RestIsDistinct
  <2>2. \A i \in 1..Len(batch') : (LET e == batch[i]
                                   IN  /\ e.conn # None /\ file[e.ident] = e.conn
                                       /\ knote[e.ident] = "disabled"
                                       /\ ~InFlight(e.ident))'
    BY <1>1, <1>5, <1>7, <1>8 DEF InFlight, Pool!InFlight
  <2> QED
    BY <1>3, <2>1, <2>2 DEF BatchIsCurrent
<1>11. WorkerReadsOwnConnection'
  BY <1>0, <1>1, <1>6, <1>8 DEF WorkerReadsOwnConnection
<1>12. InFlightIsUnwatched'
  BY <1>0, <1>1, <1>6, <1>8 DEF InFlightIsUnwatched, WorkerReadsOwnConnection
<1>13. AcceptNeverBlocks'
  BY <1>5 DEF AcceptNeverBlocks
<1>14. Pool!OnePlace'
  BY <1>0, <1>1 DEF Pool!OnePlace
<1> QED
  BY <1>9, <1>10, <1>11, <1>12, <1>13, <1>14 DEF IInv

-----------------------------------------------------------------------------
(* The first event of the batch, when it is a connection's, is pending: its *)
(* descriptor is open, disabled and not in the pool.                       *)
LEMMA EventIsCurrent ==
  ASSUME TypeOK, BatchIsCurrent, Dispatching, Event.ident # Listen
  PROVE  /\ Event.ident \in Fd /\ Event.conn \in Conn
         /\ file[Event.ident] = Event.conn /\ Event.conn # None
         /\ knote[Event.ident] = "disabled" /\ ~InFlight(Event.ident)
<1>1. Event = batch[1] /\ Event \in Events /\ Len(batch) \in Nat \ {0}
  BY TailEvents DEF TypeOK, Dispatching, Event
<1>2. 1 \in Pending
  BY <1>1, PendingIs DEF Dispatching
<1>3. Event.ident \in Fd
  BY <1>1 DEF Events
<1> QED
  BY <1>1, <1>2, <1>3 DEF BatchIsCurrent, Events

(* What enqueuing the event's descriptor does to the pool.                 *)
LEMMA EnqueueGrows ==
  ASSUME TypeOK, Pool!OnePlace, NEW f \in Fd, ~InFlight(f),
         queue' = Append(queue, f), UNCHANGED holding
  PROVE  /\ \A g \in Fd : InFlight(g)' <=> InFlight(g) \/ g = f
         /\ Pool!OnePlace' /\ queue' \in Seq(Fd)
<1>1. /\ queue' \in Seq(Fd) /\ Len(queue) \in Nat /\ Len(queue') = Len(queue) + 1
      /\ \A i \in 1..Len(queue) : queue'[i] = queue[i]
      /\ queue'[Len(queue) + 1] = f
  BY AppendTask DEF TypeOK
<1>2. \A n \in Nat : /\ n + 1 \in 1..(n + 1)
                     /\ \A i \in 1..(n + 1) : i \in 1..n \/ i = n + 1
                     /\ \A i \in 1..n : i \in 1..(n + 1)
  OBVIOUS
<1>3. /\ Len(queue) + 1 \in 1..Len(queue')
      /\ \A i \in 1..Len(queue') : i \in 1..Len(queue) \/ i = Len(queue) + 1
      /\ \A i \in 1..Len(queue) : i \in 1..Len(queue')
  BY <1>1, <1>2, Zenon
<1>4. \A g \in Fd : InFlight(g)' <=> InFlight(g) \/ g = f
  <2> SUFFICES ASSUME NEW g \in Fd
               PROVE  InFlight(g)' <=> InFlight(g) \/ g = f
    OBVIOUS
  <2>1. (\E i \in 1..Len(queue') : queue'[i] = g)
          <=> (\E i \in 1..Len(queue) : queue[i] = g) \/ g = f
    BY <1>1, <1>3, Zenon
  <2> QED
    BY <2>1, Zenon DEF InFlight, Pool!InFlight
<1>5. /\ \A i \in 1..Len(queue) : queue[i] # f
      /\ \A w \in Worker : holding[w] # f
  BY DEF InFlight, Pool!InFlight
<1>6. ASSUME NEW i \in 1..Len(queue'), NEW j \in 1..Len(queue'), queue'[i] = queue'[j]
      PROVE  i = j
  <2>1. CASE i \in 1..Len(queue) /\ j \in 1..Len(queue)
    <3>1. queue[i] = queue[j]
      BY <1>1, <1>6, <2>1
    <3> QED
      BY <2>1, <3>1 DEF Pool!OnePlace
  <2>2. CASE i = Len(queue) + 1 /\ j = Len(queue) + 1
    BY <2>2
  <2>3. CASE i \in 1..Len(queue) /\ j = Len(queue) + 1
    BY <1>1, <1>5, <1>6, <2>3
  <2>4. CASE i = Len(queue) + 1 /\ j \in 1..Len(queue)
    BY <1>1, <1>5, <1>6, <2>4
  <2> QED
    BY <1>3, <2>1, <2>2, <2>3, <2>4, Zenon
<1>7. ASSUME NEW i \in 1..Len(queue'), NEW w \in Worker
      PROVE  queue'[i] # holding'[w]
  <2>1. CASE i \in 1..Len(queue)
    BY <1>1, <2>1 DEF Pool!OnePlace
  <2>2. CASE i = Len(queue) + 1
    BY <1>1, <1>5, <2>2
  <2> QED
    BY <1>3, <2>1, <2>2, Zenon
<1>8. Pool!OnePlace'
  BY <1>6, <1>7 DEF Pool!OnePlace
<1> QED
  BY <1>1, <1>4, <1>8

(* process_data_event submits a descriptor of its own event only: the      *)
(* connection is the one reported, and nobody works on it.                 *)
LEMMA EnqueueKeeps ==
  ASSUME IInv, EnqueueEvent
  PROVE  IInv'
<1>0. /\ TypeOK /\ BatchIsCurrent /\ WorkerReadsOwnConnection
      /\ InFlightIsUnwatched /\ AcceptNeverBlocks /\ Pool!OnePlace
  BY DEF IInv
<1> DEFINE f == Event.ident
<1>1. /\ Dispatching /\ Event.ident # Listen
      /\ queue' = Append(queue, f)
      /\ ticket' = [ticket EXCEPT ![f] = Event.conn]
      /\ UNCHANGED <<file, knote, backlog, peer, holding, closed>>
      /\ batch # <<>> /\ main_pc = "loop"
  BY DEF EnqueueEvent, kernel, clients, Dispatching
<1>2. \/ batch' = batch /\ main_pc' = "delete"
      \/ batch' = Tail(batch) /\ main_pc' = "loop"
  BY <1>1 DEF EnqueueEvent, NextEvent
<1>3. /\ f \in Fd /\ Event.conn \in Conn /\ file[f] = Event.conn
      /\ Event.conn # None /\ knote[f] = "disabled" /\ ~InFlight(f)
  BY <1>0, <1>1, EventIsCurrent
<1> HIDE DEF f
<1>4. /\ \A g \in Fd : InFlight(g)' <=> InFlight(g) \/ g = f
      /\ Pool!OnePlace' /\ queue' \in Seq(Fd)
  BY <1>0, <1>1, <1>3, EnqueueGrows
<1>5. Event = batch[1] /\ batch \in Seq(Events) /\ Len(batch) \in Nat \ {0}
      /\ Pending = 1..Len(batch) /\ f = batch[1].ident
  BY <1>0, <1>1, TailEvents, PendingIs DEF TypeOK, Event, f
<1>6. batch' \in Seq(Events) /\ Len(batch') \in Nat
  BY <1>2, <1>5, TailEvents
<1>7. TypeOK'
  <2>1. ticket' \in [Fd -> Conn \cup {None}]
    BY <1>0, <1>1, <1>3 DEF TypeOK
  <2>2. main_pc' \in {"loop", "delete"}
    BY <1>2
  <2> QED
    BY <1>0, <1>1, <1>4, <1>6, <2>1, <2>2 DEF TypeOK
<1>8. /\ \A i, j \in 1..Len(batch') : batch'[i].ident = batch'[j].ident => i = j
      /\ \A i \in Pending' : batch'[i].ident # f /\ \E j \in Pending : batch'[i] = batch[j]
      /\ \A j \in Pending : batch[j].ident # f => \E i \in Pending' : batch'[i] = batch[j]
      /\ \A i \in 1..Len(batch') : \E j \in 1..Len(batch) : batch'[i] = batch[j]
  <2>1. CASE batch' = batch /\ main_pc' = "delete"
    <3>1. Pending' = 2..Len(batch)
      BY <2>1 DEF Pending
    <3>2. \A i \in Pending' : i \in 1..Len(batch) /\ i # 1
      BY <1>5, <3>1
    <3>3. \A i \in 1..Len(batch) : i # 1 => i \in Pending'
      BY <1>5, <3>1
    <3>4. 1 \in 1..Len(batch)
      BY <1>5
    <3> QED
      BY <1>0, <1>5, <2>1, <3>2, <3>3, <3>4, Zenon DEF BatchIsCurrent
  <2>2. CASE batch' = Tail(batch) /\ main_pc' = "loop"
    <3>1. /\ Pending' = 1..Len(batch')
          /\ \A i \in 1..Len(batch') :
               /\ batch'[i] = batch[i + 1]
               /\ i + 1 \in 1..Len(batch) /\ i + 1 \in Pending
          /\ \A i \in Pending : i # 1 => i - 1 \in Pending' /\ batch'[i - 1] = batch[i]
      BY <1>0, <1>1, <2>2, NextEventIs
    <3>2. /\ \A i, j \in 1..Len(batch') : batch'[i].ident = batch'[j].ident => i = j
          /\ \A i \in 1..Len(batch') : batch'[i].ident # f
      BY <1>0, <1>1, <2>2, RestIsDistinct DEF f
    <3> QED
      BY <1>5, <3>1, <3>2, Zenon
  <2> QED
    BY <1>2, <2>1, <2>2
<1>9. ASSUME NEW j \in Pending, batch[j].ident # Listen
      PROVE  /\ batch[j].ident \in Fd
             /\ batch[j].conn # None /\ file[batch[j].ident] = batch[j].conn
             /\ knote[batch[j].ident] = "disabled" /\ ~InFlight(batch[j].ident)
  <2>1. batch[j] \in Events
    BY <1>5, EventAt
  <2> QED
    BY <1>0, <1>9, <2>1 DEF BatchIsCurrent, Events
<1>10. BatchIsCurrent'
  <2>1. ASSUME NEW i \in Pending', batch'[i].ident # Listen
        PROVE  /\ batch'[i].conn # None /\ file'[batch'[i].ident] = batch'[i].conn
               /\ knote'[batch'[i].ident] = "disabled"
               /\ (~InFlight(batch[i].ident))'
    <3>1. PICK j \in Pending : batch'[i] = batch[j]
      BY <1>8
    <3>2. batch'[i].ident \in Fd /\ ~InFlight(batch[j].ident)
      BY <1>9, <2>1, <3>1
    <3>3. (~InFlight(batch[i].ident))'
      <4>1. batch'[i].ident # f /\ batch'[i].ident = batch[j].ident
        BY <1>8, <3>1
      <4> DEFINE g == batch'[i].ident
      <4>2. g \in Fd /\ g # f /\ ~InFlight(g)
        BY <3>2, <4>1
      <4> HIDE DEF g
      <4>3. ~((\E k \in 1..Len(queue') : queue'[k] = g) \/ (\E w \in Worker : holding'[w] = g))
        BY <1>4, <4>2 DEF InFlight, Pool!InFlight
      <4> QED
        BY <4>3 DEF g, InFlight, Pool!InFlight
    <3> QED
      BY <1>1, <1>9, <2>1, <3>1, <3>3
  <2> QED
    BY <1>8, <2>1 DEF BatchIsCurrent
<1>11. WorkerReadsOwnConnection'
  <2> SUFFICES ASSUME NEW g \in Fd, InFlight(g)'
               PROVE  file'[g] # None /\ file'[g] = ticket'[g]
    BY DEF WorkerReadsOwnConnection
  <2>1. CASE g = f
    BY <1>0, <1>1, <1>3, <2>1 DEF TypeOK
  <2>2. CASE g # f
    BY <1>0, <1>1, <1>4, <2>2 DEF TypeOK, WorkerReadsOwnConnection
  <2> QED
    BY <2>1, <2>2
<1>12. InFlightIsUnwatched'
  <2>1. \A g \in Fd : InFlight(g)' => knote'[g] # "armed"
    BY <1>0, <1>1, <1>3, <1>4 DEF InFlightIsUnwatched
  <2>2. ASSUME main_pc' = "delete"
        PROVE  /\ batch' = batch /\ batch' # <<>>
               /\ Event.ident \in Fd /\ knote'[Event.ident] # "armed"
               /\ file'[Event.ident] = Event.conn
    BY <1>1, <1>2, <1>3, <2>2 DEF f
  <2> QED
    BY <2>1, <2>2 DEF InFlightIsUnwatched, Event
<1>13. AcceptNeverBlocks'
  BY <1>0, <1>1, <1>8 DEF AcceptNeverBlocks
<1> QED
  BY <1>4, <1>7, <1>10, <1>11, <1>12, <1>13 DEF IInv

-----------------------------------------------------------------------------
(* A failed enqueue_task drops the event and leaves the rest as it was.    *)
LEMMA EnqueueFailsKeeps ==
  ASSUME IInv, EnqueueFails
  PROVE  IInv'
<1>0. /\ TypeOK /\ BatchIsCurrent /\ WorkerReadsOwnConnection
      /\ InFlightIsUnwatched /\ AcceptNeverBlocks /\ Pool!OnePlace
  BY DEF IInv
<1>1. /\ UNCHANGED <<file, knote, backlog, peer, queue, holding, ticket, closed>>
      /\ batch # <<>> /\ batch' = Tail(batch) /\ main_pc' = "loop"
      /\ Faults # {}
  BY DEF EnqueueFails, Dispatching, NextEvent, kernel, clients, pool, history
<1>2. /\ batch' \in Seq(Events) /\ Pending' = 1..Len(batch')
      /\ \A i \in 1..Len(batch') :
           /\ batch'[i] = batch[i + 1]
           /\ i + 1 \in 1..Len(batch) /\ i + 1 \in Pending
  BY <1>0, <1>1, NextEventIs
<1>3. TypeOK'
  BY <1>0, <1>1, <1>2 DEF TypeOK
<1>4. \A i, j \in 1..Len(batch') : batch'[i].ident = batch'[j].ident => i = j
  BY <1>0, <1>1, RestIsDistinct
<1>5. BatchIsCurrent'
  BY <1>0, <1>1, <1>2, <1>4 DEF BatchIsCurrent, InFlight, Pool!InFlight
<1>6. WorkerReadsOwnConnection' /\ Pool!OnePlace' /\ AcceptNeverBlocks'
  BY <1>0, <1>1, <1>2 DEF WorkerReadsOwnConnection, Pool!OnePlace, AcceptNeverBlocks,
     InFlight, Pool!InFlight
<1>7. InFlightIsUnwatched'
  BY <1>0, <1>1 DEF InFlightIsUnwatched, InFlight, Pool!InFlight
<1> QED
  BY <1>1, <1>3, <1>5, <1>6, <1>7 DEF IInv

(* EV_DELETE after the enqueue finds a registration that is disabled or    *)
(* gone, and nothing that waits in the batch is about this descriptor.     *)
LEMMA DeleteKeeps ==
  ASSUME IInv, DeleteEvent
  PROVE  IInv'
<1>0. /\ TypeOK /\ BatchIsCurrent /\ WorkerReadsOwnConnection
      /\ InFlightIsUnwatched /\ AcceptNeverBlocks /\ Pool!OnePlace
  BY DEF IInv
<1> DEFINE f == Event.ident
<1>1. /\ UNCHANGED <<file, backlog, peer, queue, holding, ticket, closed>>
      /\ knote' = [knote EXCEPT ![f] = "none"]
      /\ batch' = Tail(batch) /\ main_pc' = "loop" /\ main_pc = "delete"
  BY DEF DeleteEvent, clients, pool, history
<1>2. batch # <<>> /\ f \in Fd /\ knote[f] # "armed"
  BY <1>0, <1>1 DEF InFlightIsUnwatched
<1>3. /\ batch' \in Seq(Events) /\ Pending' = 1..Len(batch')
      /\ \A i \in 1..Len(batch') :
           /\ batch'[i] = batch[i + 1] /\ batch'[i] \in Events
           /\ i + 1 \in 1..Len(batch) /\ i + 1 \in Pending
      /\ \A i \in Pending : i # 1 => i - 1 \in Pending' /\ batch'[i - 1] = batch[i]
  BY <1>0, <1>1, <1>2, NextEventIs
<1>4. /\ \A i, j \in 1..Len(batch') : batch'[i].ident = batch'[j].ident => i = j
      /\ \A i \in 1..Len(batch') : batch'[i].ident # f
  BY <1>0, <1>1, <1>2, RestIsDistinct
<1> HIDE DEF f
<1>5. /\ knote' \in [Fd -> {"none", "armed", "disabled"}]
      /\ \A g \in Fd : g # f => knote'[g] = knote[g]
      /\ knote'[f] = "none"
  BY <1>0, <1>1, <1>2 DEF TypeOK
<1>6. TypeOK'
  BY <1>0, <1>1, <1>3, <1>5 DEF TypeOK
<1>7. BatchIsCurrent'
  <2>1. ASSUME NEW i \in Pending', batch'[i].ident # Listen
        PROVE  /\ batch'[i].conn # None /\ file'[batch'[i].ident] = batch'[i].conn
               /\ knote'[batch'[i].ident] = "disabled"
               /\ (~InFlight(batch[i].ident))'
    <3>1. batch'[i].ident \in Fd /\ batch'[i].ident # f
      BY <1>3, <1>4, <2>1 DEF Events
    <3>2. knote'[batch'[i].ident] = knote[batch'[i].ident]
      BY <1>5, <3>1
    <3> QED
      BY <1>0, <1>1, <1>3, <2>1, <3>2 DEF BatchIsCurrent, InFlight, Pool!InFlight
  <2> QED
    BY <1>4, <2>1 DEF BatchIsCurrent
<1>8. WorkerReadsOwnConnection' /\ Pool!OnePlace' /\ AcceptNeverBlocks'
  BY <1>0, <1>1, <1>3 DEF WorkerReadsOwnConnection, Pool!OnePlace, AcceptNeverBlocks,
     InFlight, Pool!InFlight
<1>9. InFlightIsUnwatched'
  BY <1>0, <1>1, <1>5 DEF InFlightIsUnwatched, InFlight, Pool!InFlight
<1> QED
  BY <1>6, <1>7, <1>8, <1>9 DEF IInv

-----------------------------------------------------------------------------
(* Taking a task moves a descriptor within the pool.                       *)
LEMMA TakeMoves ==
  ASSUME TypeOK, Pool!OnePlace, NEW w \in Worker, Pool!Take(w)
  PROVE  /\ \A f \in Fd : InFlight(f)' <=> InFlight(f)
         /\ Pool!OnePlace' /\ queue' \in Seq(Fd)
         /\ holding' \in [Worker -> Fd \cup {None}]
<1>1. /\ queue # <<>> /\ holding[w] = None
      /\ queue' = Tail(queue) /\ holding' = [holding EXCEPT ![w] = Head(queue)]
  BY DEF Pool!Take
<1>2. /\ queue' \in Seq(Fd) /\ Len(queue) \in Nat \ {0}
      /\ Len(queue') = Len(queue) - 1
      /\ \A i \in 1..(Len(queue) - 1) : queue'[i] = queue[i + 1]
      /\ Head(queue) = queue[1] /\ queue[1] \in Fd
  BY <1>1, TailTasks DEF TypeOK
<1>3. /\ holding' \in [Worker -> Fd \cup {None}]
      /\ holding'[w] = queue[1]
      /\ \A v \in Worker : v # w => holding'[v] = holding[v]
  BY <1>1, <1>2 DEF TypeOK
<1>4. \A n \in Nat \ {0} :
        /\ 1 \in 1..n
        /\ \A i \in 1..(n - 1) : i + 1 \in 1..n /\ i + 1 # 1
        /\ \A i \in 1..n : i = 1 \/ (i - 1 \in 1..(n - 1) /\ (i - 1) + 1 = i)
        /\ \A i, j \in 1..(n - 1) : i + 1 = j + 1 => i = j
  OBVIOUS
<1>5. /\ 1 \in 1..Len(queue)
      /\ \A i \in 1..Len(queue') : /\ i + 1 \in 1..Len(queue) /\ i + 1 # 1
                                   /\ queue'[i] = queue[i + 1]
      /\ \A i \in 1..Len(queue) :
           i = 1 \/ (i - 1 \in 1..Len(queue') /\ queue'[i - 1] = queue[i])
      /\ \A i, j \in 1..Len(queue') : i + 1 = j + 1 => i = j
  BY <1>2, <1>4
<1>6. ASSUME NEW f \in Fd
      PROVE  InFlight(f)' <=> InFlight(f)
  <2>1. (\E i \in 1..Len(queue) : queue[i] = f)
          <=> (\E i \in 1..Len(queue') : queue'[i] = f) \/ f = queue[1]
    BY <1>5
  <2>2. f # None
    BY OrchestratorAssumption
  <2>3. (\E v \in Worker : holding'[v] = f)
          <=> (\E v \in Worker : holding[v] = f) \/ f = queue[1]
    BY <1>1, <1>3, <2>2
  <2> QED
    BY <2>1, <2>3, Zenon DEF InFlight, Pool!InFlight
<1>7. Pool!OnePlace'
  <2>1. \A i, j \in 1..Len(queue') : queue'[i] = queue'[j] => i = j
    BY <1>5 DEF Pool!OnePlace
  <2>2. \A i \in 1..Len(queue') : queue'[i] # queue[1]
    BY <1>5 DEF Pool!OnePlace
  <2>3. \A v \in Worker : holding[v] # queue[1]
    BY <1>5 DEF Pool!OnePlace
  <2>4. \A u, v \in Worker : holding'[u] = holding'[v] /\ holding'[v] # None => u = v
    BY <1>3, <2>3 DEF Pool!OnePlace
  <2>5. \A i \in 1..Len(queue'), v \in Worker : queue'[i] # holding'[v]
    BY <1>3, <1>5, <2>2 DEF Pool!OnePlace
  <2> QED
    BY <2>1, <2>4, <2>5 DEF Pool!OnePlace
<1> QED
  BY <1>2, <1>3, <1>6, <1>7

LEMMA PullKeeps ==
  ASSUME IInv, NEW w \in Worker, PullTask(w)
  PROVE  IInv'
<1>0. /\ TypeOK /\ BatchIsCurrent /\ WorkerReadsOwnConnection
      /\ InFlightIsUnwatched /\ AcceptNeverBlocks /\ Pool!OnePlace
  BY DEF IInv
<1>1. /\ Pool!Take(w)
      /\ UNCHANGED <<file, knote, backlog, peer, batch, main_pc, ticket, closed>>
  BY DEF PullTask, kernel, clients, loop, history
<1>2. /\ \A f \in Fd : InFlight(f)' <=> InFlight(f)
      /\ Pool!OnePlace' /\ queue' \in Seq(Fd)
      /\ holding' \in [Worker -> Fd \cup {None}]
  BY <1>0, <1>1, TakeMoves
<1>3. TypeOK'
  BY <1>0, <1>1, <1>2 DEF TypeOK
<1>4. \A i \in 1..Len(batch) : batch[i].ident \in Fd \cup {Listen}
  BY <1>0, EventAt DEF TypeOK, Events
<1>5. Pending' = Pending /\ Pending \subseteq 1..Len(batch)
  BY <1>0, <1>1, EventAt DEF TypeOK, Pending
<1>6. BatchIsCurrent'
  <2>1. ASSUME NEW i \in Pending, batch[i].ident # Listen
        PROVE  (~InFlight(batch[i].ident))'
    <3> DEFINE g == batch[i].ident
    <3>1. g \in Fd /\ ~InFlight(g)
      BY <1>0, <1>4, <1>5, <2>1 DEF BatchIsCurrent
    <3> HIDE DEF g
    <3>2. ~((\E k \in 1..Len(queue') : queue'[k] = g) \/ (\E v \in Worker : holding'[v] = g))
      BY <1>2, <3>1 DEF InFlight, Pool!InFlight
    <3> QED
      BY <1>1, <3>2 DEF g, InFlight, Pool!InFlight
  <2> QED
    BY <1>0, <1>1, <1>5, <2>1 DEF BatchIsCurrent
<1>7. WorkerReadsOwnConnection' /\ InFlightIsUnwatched' /\ AcceptNeverBlocks'
  BY <1>0, <1>1, <1>2 DEF WorkerReadsOwnConnection, InFlightIsUnwatched,
     AcceptNeverBlocks, Event
<1> QED
  BY <1>2, <1>3, <1>6, <1>7 DEF IInv

-----------------------------------------------------------------------------
(* A worker that is done gives back one descriptor, which nobody else has. *)
LEMMA ReleaseFrees ==
  ASSUME TypeOK, Pool!OnePlace, NEW w \in Worker, Pool!Release(w)
  PROVE  /\ holding[w] \in Fd /\ InFlight(holding[w])
         /\ \A f \in Fd : InFlight(f)' <=> InFlight(f) /\ f # holding[w]
         /\ Pool!OnePlace' /\ holding' \in [Worker -> Fd \cup {None}]
<1>1. /\ holding[w] # None /\ holding' = [holding EXCEPT ![w] = None] /\ queue' = queue
  BY DEF Pool!Release
<1>2. /\ holding[w] \in Fd /\ holding'[w] = None
      /\ holding' \in [Worker -> Fd \cup {None}]
      /\ \A v \in Worker : v # w => holding'[v] = holding[v]
  BY <1>1 DEF TypeOK
<1>3. InFlight(holding[w])
  BY DEF InFlight, Pool!InFlight
<1>4. ASSUME NEW f \in Fd
      PROVE  InFlight(f)' <=> InFlight(f) /\ f # holding[w]
  <2>1. f # None
    BY OrchestratorAssumption
  <2>2. (\E i \in 1..Len(queue) : queue[i] = f) => f # holding[w]
    BY DEF Pool!OnePlace
  <2>3. (\E v \in Worker : holding'[v] = f)
          <=> (\E v \in Worker : holding[v] = f) /\ f # holding[w]
    BY <1>1, <1>2, <2>1 DEF Pool!OnePlace
  <2> QED
    BY <1>1, <2>2, <2>3 DEF InFlight, Pool!InFlight
<1>5. Pool!OnePlace'
  <2>1. \A i \in 1..Len(queue) : queue[i] \in Fd /\ queue[i] # None
    BY OrchestratorAssumption DEF TypeOK
  <2>2. \A u, v \in Worker : holding'[u] = holding'[v] /\ holding'[v] # None => u = v
    BY <1>1, <1>2 DEF Pool!OnePlace
  <2>3. \A i \in 1..Len(queue), v \in Worker : queue[i] # holding'[v]
    BY <1>1, <1>2, <2>1 DEF Pool!OnePlace
  <2> QED
    BY <1>1, <2>2, <2>3 DEF Pool!OnePlace
<1> QED
  BY <1>2, <1>3, <1>4, <1>5

(* Closing frees a descriptor that no pending event names.                 *)
LEMMA CloseKeeps ==
  ASSUME IInv, NEW w \in Worker, CloseDescriptor(w)
  PROVE  IInv'
<1>0. /\ TypeOK /\ BatchIsCurrent /\ WorkerReadsOwnConnection
      /\ InFlightIsUnwatched /\ AcceptNeverBlocks /\ Pool!OnePlace
  BY DEF IInv
<1> DEFINE f == holding[w]
<1>1. /\ Pool!Release(w)
      /\ file' = [file EXCEPT ![f] = None]
      /\ knote' = [knote EXCEPT ![f] = "none"]
      /\ closed' = closed \cup {file[f]}
      /\ UNCHANGED <<backlog, peer, batch, main_pc, ticket>>
  BY DEF CloseDescriptor, clients, loop
<1>2. /\ f \in Fd /\ InFlight(f)
      /\ \A g \in Fd : InFlight(g)' <=> InFlight(g) /\ g # f
      /\ Pool!OnePlace' /\ holding' \in [Worker -> Fd \cup {None}]
      /\ queue' = queue
  BY <1>0, <1>1, ReleaseFrees DEF Pool!Release
<1> HIDE DEF f
<1>3. /\ file' \in [Fd -> Conn \cup {None}]
      /\ knote' \in [Fd -> {"none", "armed", "disabled"}]
      /\ file'[f] = None /\ knote'[f] = "none"
      /\ \A g \in Fd : g # f => file'[g] = file[g] /\ knote'[g] = knote[g]
  BY <1>0, <1>1, <1>2 DEF TypeOK
<1>4. TypeOK'
  <2>1. closed' \in SUBSET (Conn \cup {None})
    BY <1>0, <1>1, <1>2 DEF TypeOK
  <2> QED
    BY <1>0, <1>1, <1>2, <1>3, <2>1 DEF TypeOK
<1>5. \A i \in 1..Len(batch) : batch[i].ident \in Fd \cup {Listen}
  BY <1>0, EventAt DEF TypeOK, Events
<1>6. Pending' = Pending /\ Pending \subseteq 1..Len(batch)
  BY <1>0, <1>1, EventAt DEF TypeOK, Pending
<1>7. BatchIsCurrent'
  <2>1. ASSUME NEW i \in Pending, batch[i].ident # Listen
        PROVE  /\ batch[i].conn # None /\ file'[batch[i].ident] = batch[i].conn
               /\ knote'[batch[i].ident] = "disabled"
               /\ (~InFlight(batch[i].ident))'
    <3> DEFINE g == batch[i].ident
    <3>1. /\ g \in Fd /\ ~InFlight(g) /\ batch[i].conn # None
          /\ file[g] = batch[i].conn /\ knote[g] = "disabled"
      BY <1>0, <1>5, <1>6, <2>1 DEF BatchIsCurrent
    <3> HIDE DEF g
    <3>2. g # f
      BY <1>2, <3>1
    <3>3. ~((\E k \in 1..Len(queue') : queue'[k] = g) \/ (\E v \in Worker : holding'[v] = g))
      BY <1>2, <3>1 DEF InFlight, Pool!InFlight
    <3>4. file'[g] = batch[i].conn /\ knote'[g] = "disabled"
      BY <1>3, <3>1, <3>2
    <3> QED
      BY <1>1, <3>1, <3>3, <3>4 DEF g, InFlight, Pool!InFlight
  <2> QED
    BY <1>0, <1>1, <1>6, <2>1 DEF BatchIsCurrent
<1>8. WorkerReadsOwnConnection'
  BY <1>0, <1>1, <1>2, <1>3 DEF WorkerReadsOwnConnection
<1>9. InFlightIsUnwatched'
  <2>1. \A g \in Fd : InFlight(g)' => knote'[g] # "armed"
    BY <1>0, <1>2, <1>3 DEF InFlightIsUnwatched
  <2>2. ASSUME main_pc = "delete"
        PROVE  /\ batch # <<>> /\ Event.ident \in Fd
               /\ knote'[Event.ident] # "armed"
               /\ knote'[Event.ident] # "none" => file'[Event.ident] = Event.conn
    <3>1. /\ batch # <<>> /\ Event.ident \in Fd
          /\ knote[Event.ident] # "armed"
          /\ knote[Event.ident] # "none" => file[Event.ident] = Event.conn
      BY <1>0, <2>2 DEF InFlightIsUnwatched
    <3> QED
      BY <1>3, <3>1
  <2> QED
    BY <1>1, <2>1, <2>2 DEF InFlightIsUnwatched, Event
<1>10. AcceptNeverBlocks'
  BY <1>0, <1>1 DEF AcceptNeverBlocks
<1> QED
  BY <1>2, <1>4, <1>7, <1>8, <1>9, <1>10 DEF IInv

-----------------------------------------------------------------------------
LEMMA StepKeeps == IInv /\ [Next]_vars => IInv'
<1> SUFFICES ASSUME IInv, [Next]_vars PROVE IInv'
  OBVIOUS
<1>1. CASE \E c \in Conn : Connect(c) \/ Speak(c) \/ HangUp(c) \/ Abort(c)
  BY <1>1, ClientKeeps
<1>2. CASE Poll
  BY <1>2, PollKeeps DEF Poll
<1>3. CASE ProcessConnectionEvent
  BY <1>3, AcceptKeeps
<1>4. CASE ProcessDataEvent
  BY <1>4, EnqueueKeeps, EnqueueFailsKeeps, DeleteKeeps DEF ProcessDataEvent
<1>5. CASE \E w \in Worker : PullTask(w) \/ CloseDescriptor(w)
  BY <1>5, PullKeeps, CloseKeeps
<1>6. CASE UNCHANGED vars
  <2>1. UNCHANGED <<file, knote, backlog, peer, queue, holding, batch, main_pc,
                    ticket, closed>>
    BY <1>6 DEF vars, kernel, clients, pool, loop, history
  <2> QED
    BY <2>1 DEF IInv, TypeOK, BatchIsCurrent, WorkerReadsOwnConnection,
       InFlightIsUnwatched, AcceptNeverBlocks, Pool!OnePlace,
       Pending, Event, InFlight, Pool!InFlight
<1> QED
  BY <1>1, <1>2, <1>3, <1>4, <1>5, <1>6 DEF Next

(* The inductive invariant holds in every reachable state of the event     *)
(* loop, the multiplexer and the workers.                                  *)
THEOREM Invariance == Spec => []IInv
BY InitEstablishes, StepKeeps, PTL DEF Spec

(* The variables keep their types.                                         *)
THEOREM TypeCorrect == Spec => []TypeOK
<1>1. IInv => TypeOK
  BY DEF IInv
<1> QED
  BY <1>1, Invariance, PTL

(* No event of a batch is ever applied to another connection than the one  *)
(* it was reported for, however descriptors are reused meanwhile.          *)
THEOREM EventsStayCurrent == Spec => []BatchIsCurrent
<1>1. IInv => BatchIsCurrent
  BY DEF IInv
<1> QED
  BY <1>1, Invariance, PTL

(* A worker reads and closes the connection its task was queued for.       *)
THEOREM WorkersReadTheirOwn == Spec => []WorkerReadsOwnConnection
<1>1. IInv => WorkerReadsOwnConnection
  BY DEF IInv
<1> QED
  BY <1>1, Invariance, PTL

(* What is in flight is not reported again, and EV_DELETE after the        *)
(* enqueue removes no other connection's registration.                     *)
THEOREM InFlightStaysUnwatched == Spec => []InFlightIsUnwatched
<1>1. IInv => InFlightIsUnwatched
  BY DEF IInv
<1> QED
  BY <1>1, Invariance, PTL

(* The blocking accept of the event loop always finds a connection.        *)
THEOREM AcceptFindsConnection == Spec => []AcceptNeverBlocks
<1>1. IInv => AcceptNeverBlocks
  BY DEF IInv
<1> QED
  BY <1>1, Invariance, PTL

-----------------------------------------------------------------------------
(* A descriptor on its way to a worker, or with one, belongs to a client   *)
(* that has spoken or hung up.                                             *)
Reported(f) == InFlight(f) \/ \E i \in Pending : batch[i].ident = f

ReportedIsHeard == \A f \in Fd : Reported(f) => file[f] # None /\ Heard(file[f])

LEMMA ReportedIsOpen ==
  ASSUME IInv, NEW f \in Fd, Reported(f)
  PROVE  file[f] # None /\ file[f] \in Conn
<1>1. CASE InFlight(f)
  BY <1>1 DEF IInv, TypeOK, WorkerReadsOwnConnection
<1>2. CASE \E i \in Pending : batch[i].ident = f
  BY <1>2, OrchestratorAssumption DEF IInv, TypeOK, BatchIsCurrent
<1> QED
  BY <1>1, <1>2 DEF Reported

LEMMA HeardStep ==
  ASSUME IInv, ReportedIsHeard, NobodyCutOff, Next
  PROVE  ReportedIsHeard' /\ NobodyCutOff'
<1>0. /\ TypeOK /\ BatchIsCurrent /\ InFlightIsUnwatched /\ Pool!OnePlace
  BY DEF IInv
<1>1. CASE \E c \in Conn : Connect(c) \/ Speak(c) \/ HangUp(c) \/ Abort(c)
  <2>1. UNCHANGED <<file, batch, main_pc, queue, holding, closed>>
    BY <1>1 DEF Connect, Speak, HangUp, Abort, kernel, loop, pool, history
  <2>2. \A c \in Conn : Heard(c) => Heard(c)'
    BY <1>0, <1>1 DEF TypeOK, Connect, Speak, HangUp, Abort, Heard
  <2>3. \A f \in Fd : Reported(f)' <=> Reported(f)
    BY <2>1 DEF Reported, Pending, InFlight, Pool!InFlight
  <2> QED
    BY <2>1, <2>2, <2>3, ReportedIsOpen DEF ReportedIsHeard, NobodyCutOff
<1>2. ASSUME UNCHANGED peer, closed' = closed,
             \A f \in Fd : Reported(f)' => /\ file'[f] = file[f]
                                           /\ Reported(f) \/ (file[f] # None /\ Heard(file[f]))
      PROVE  ReportedIsHeard' /\ NobodyCutOff'
  <2>1. \A c : Heard(c)' <=> Heard(c)
    BY <1>2 DEF Heard
  <2> QED
    BY <1>2, <2>1 DEF ReportedIsHeard, NobodyCutOff
<1>3. CASE Poll
  <2>1. PICK x \in Ready : PollReturning(x)
    BY <1>3 DEF Poll
  <2>2. /\ UNCHANGED <<file, peer, queue, holding, main_pc, closed>> /\ main_pc = "loop"
    BY <2>1 DEF PollReturning, clients, pool, history
  <2>3. PICK n \in 1..MaxEvents : \E s \in [1..n -> Ready] :
             batch' = [i \in 1..n |-> EventFor(s[i])]
    BY <2>1 DEF PollReturning
  <2>4. PICK s \in [1..n -> Ready] : batch' = [i \in 1..n |-> EventFor(s[i])]
    BY <2>3
  <2>5. \A i \in Pending' : batch'[i].ident \in Ready
    <3>1. n \in Nat /\ DOMAIN batch' = 1..n
      BY <2>4
    <3>2. Len(batch') = n
      BY <2>4, <3>1
    <3>3. Pending' = 1..n
      BY <2>2, <3>2 DEF Pending
    <3> QED
      BY <2>4, <3>3 DEF EventFor
  <2>6. \A f \in Fd : f \in Ready => file[f] # None /\ Heard(file[f])
    BY OrchestratorAssumption DEF Ready, Readable, Heard
  <2>7. \A f : InFlight(f)' <=> InFlight(f)
    BY <2>2 DEF InFlight, Pool!InFlight
  <2> QED
    BY <1>2, <2>2, <2>5, <2>6, <2>7 DEF Reported
<1>4. CASE ProcessConnectionEvent
  <2>1. /\ batch # <<>> /\ batch' = Tail(batch) /\ main_pc' = "loop"
        /\ UNCHANGED <<peer, queue, holding, closed>>
    BY <1>4 DEF ProcessConnectionEvent, AcceptConnection, AcceptUnwatched, AcceptFails,
       Dispatching, NextEvent, pool, history
  <2>2. \/ UNCHANGED file
        \/ \E c \in Conn, g \in Fd : file[g] = None /\ file' = [file EXCEPT ![g] = c]
    BY <1>4 DEF ProcessConnectionEvent, AcceptConnection, AcceptUnwatched, AcceptFails,
       FreeFds, kernel
  <2>3. \A i \in Pending' : \E j \in Pending : batch'[i] = batch[j]
    BY <1>0, <2>1, NextEventIs
  <2>4. \A f \in Fd : Reported(f)' => Reported(f)
    BY <2>1, <2>3 DEF Reported, InFlight, Pool!InFlight
  <2>5. \A f \in Fd : Reported(f) => file'[f] = file[f]
    BY <1>0, <2>2, ReportedIsOpen DEF TypeOK
  <2> QED
    BY <1>2, <2>1, <2>4, <2>5
<1>5. CASE EnqueueEvent
  <2> DEFINE e == Event.ident
  <2>1. /\ Dispatching /\ Event.ident # Listen /\ queue' = Append(queue, e)
        /\ UNCHANGED <<file, peer, holding, closed>> /\ batch # <<>> /\ main_pc = "loop"
    BY <1>5 DEF EnqueueEvent, kernel, clients, Dispatching
  <2>2. e \in Fd /\ ~InFlight(e)
    BY <1>0, <2>1, EventIsCurrent
  <2>3. Reported(e)
    <3>1. Event = batch[1] /\ 1 \in Pending
      BY <1>0, <2>1, TailEvents, PendingIs DEF TypeOK, Event
    <3> QED
      BY <3>1 DEF Reported
  <2> HIDE DEF e
  <2>4. \A g \in Fd : InFlight(g)' <=> InFlight(g) \/ g = e
    BY <1>0, <2>1, <2>2, EnqueueGrows
  <2>5. \A i \in Pending' : \E j \in Pending : batch'[i] = batch[j]
    <3>1. CASE batch' = batch /\ main_pc' = "delete"
      <4>1. batch \in Seq(Events) /\ Len(batch) \in Nat
        BY <1>0, EventAt DEF TypeOK
      <4>2. Pending' \subseteq Pending
        BY <2>1, <3>1, <4>1 DEF Pending
      <4> QED
        BY <3>1, <4>2
    <3>2. CASE batch' = Tail(batch) /\ main_pc' = "loop"
      BY <1>0, <2>1, <3>2, NextEventIs
    <3> QED
      BY <1>5, <2>1, <3>1, <3>2 DEF EnqueueEvent, NextEvent
  <2>6. \A f \in Fd : Reported(f)' => Reported(f)
    BY <2>3, <2>4, <2>5 DEF Reported
  <2> QED
    BY <1>2, <2>1, <2>6
<1>6. CASE EnqueueFails \/ DeleteEvent
  <2>1. /\ batch # <<>> /\ batch' = Tail(batch) /\ main_pc' = "loop"
        /\ UNCHANGED <<file, peer, queue, holding, closed>>
    BY <1>0, <1>6 DEF EnqueueFails, DeleteEvent, Dispatching, NextEvent, kernel, clients,
       pool, history, InFlightIsUnwatched
  <2>2. \A i \in Pending' : \E j \in Pending : batch'[i] = batch[j]
    BY <1>0, <2>1, NextEventIs
  <2>3. \A f \in Fd : Reported(f)' => Reported(f)
    BY <2>1, <2>2 DEF Reported, InFlight, Pool!InFlight
  <2> QED
    BY <1>2, <2>1, <2>3
<1>7. ASSUME NEW w \in Worker, PullTask(w)
      PROVE  ReportedIsHeard' /\ NobodyCutOff'
  <2>1. Pool!Take(w) /\ UNCHANGED <<file, peer, batch, main_pc, closed>>
    BY <1>7 DEF PullTask, kernel, clients, loop, history
  <2>2. \A f \in Fd : Reported(f)' <=> Reported(f)
    BY <1>0, <2>1, TakeMoves DEF Reported, Pending
  <2> QED
    BY <1>2, <2>1, <2>2
<1>8. ASSUME NEW w \in Worker, CloseDescriptor(w)
      PROVE  ReportedIsHeard' /\ NobodyCutOff'
  <2>1. /\ Pool!Release(w) /\ UNCHANGED <<peer, batch, main_pc>>
        /\ file' = [file EXCEPT ![holding[w]] = None]
        /\ closed' = closed \cup {file[holding[w]]}
    BY <1>8 DEF CloseDescriptor, clients, loop
  <2>2. /\ holding[w] \in Fd /\ InFlight(holding[w])
        /\ \A f \in Fd : InFlight(f)' <=> InFlight(f) /\ f # holding[w]
    BY <1>0, <2>1, ReleaseFrees
  <2>3. \A i \in Pending : batch[i].ident # holding[w]
    BY <1>0, <2>2, OrchestratorAssumption DEF BatchIsCurrent
  <2>4. \A f \in Fd : Reported(f)' => Reported(f) /\ file'[f] = file[f]
    BY <1>0, <2>1, <2>2, <2>3 DEF Reported, Pending, TypeOK
  <2>5. \A c : Heard(c)' <=> Heard(c)
    BY <2>1 DEF Heard
  <2>6. Heard(file[holding[w]])
    BY <2>2 DEF ReportedIsHeard, Reported
  <2> QED
    BY <2>1, <2>4, <2>5, <2>6 DEF ReportedIsHeard, NobodyCutOff
<1> QED
  BY <1>1, <1>3, <1>4, <1>5, <1>6, <1>7, <1>8 DEF Next, ProcessDataEvent

(* A worker is only ever given, and so only ever closes, the connection of *)
(* a client that has sent something or hung up.                            *)
THEOREM SilentClientsAreKept == Spec => []NobodyCutOff
<1>1. Init => ReportedIsHeard /\ NobodyCutOff
  <2> SUFFICES ASSUME Init PROVE ReportedIsHeard /\ NobodyCutOff
    OBVIOUS
  <2>1. Len(batch) = 0 /\ Len(queue) = 0 /\ main_pc = "loop" /\ closed = {}
    BY DEF Init, Pool!Init
  <2>2. Pending = {}
    BY <2>1, PendingIs
  <2>3. \A f \in Fd : ~InFlight(f)
    BY <2>1, OrchestratorAssumption DEF Init, Pool!Init, InFlight, Pool!InFlight
  <2> QED
    BY <2>1, <2>2, <2>3 DEF ReportedIsHeard, Reported, NobodyCutOff
<1>2. IInv /\ ReportedIsHeard /\ NobodyCutOff /\ [Next]_vars
        => ReportedIsHeard' /\ NobodyCutOff'
  <2>1. CASE Next
    BY <2>1, HeardStep
  <2>2. CASE UNCHANGED vars
    BY <2>2 DEF vars, kernel, clients, pool, loop, history, ReportedIsHeard, Reported,
       NobodyCutOff, Heard, Pending, InFlight, Pool!InFlight
  <2> QED
    BY <2>1, <2>2
<1> QED
  BY <1>1, <1>2, Invariance, PTL DEF Spec

-----------------------------------------------------------------------------
(* A descriptor that lost its owner is touched by no step.                 *)
LEMMA OrphanIsLeftAlone ==
  ASSUME IInv, Next, NEW f \in Fd, Orphan(f)
  PROVE  Orphan(f)' /\ file'[f] = file[f]
<1>0. /\ TypeOK /\ BatchIsCurrent /\ InFlightIsUnwatched /\ Pool!OnePlace
      /\ file[f] # None /\ knote[f] # "armed" /\ ~InFlight(f)
      /\ \A i \in Pending : batch[i].ident # f
  BY DEF IInv, Orphan
<1>1. CASE \E c \in Conn : Connect(c) \/ Speak(c) \/ HangUp(c) \/ Abort(c)
  <2>1. UNCHANGED <<file, knote, batch, main_pc, queue, holding>>
    BY <1>1 DEF Connect, Speak, HangUp, Abort, kernel, loop, pool
  <2> QED
    BY <1>0, <2>1 DEF Orphan, Pending, InFlight, Pool!InFlight
<1>2. CASE Poll
  <2>1. PICK x \in Ready : PollReturning(x)
    BY <1>2 DEF Poll
  <2>2. /\ UNCHANGED <<file, main_pc, queue, holding>> /\ main_pc = "loop"
        /\ \E n \in 1..MaxEvents : \E s \in [1..n -> Ready] :
             /\ batch' = [i \in 1..n |-> EventFor(s[i])]
             /\ knote' = [g \in Fd |-> IF \E i \in 1..n : s[i] = g THEN "disabled"
                                                                   ELSE knote[g]]
    BY <2>1 DEF PollReturning, pool
  <2>3. PICK n \in 1..MaxEvents : \E s \in [1..n -> Ready] :
             /\ batch' = [i \in 1..n |-> EventFor(s[i])]
             /\ knote' = [g \in Fd |-> IF \E i \in 1..n : s[i] = g THEN "disabled"
                                                                   ELSE knote[g]]
    BY <2>2
  <2>4. PICK s \in [1..n -> Ready] :
             /\ batch' = [i \in 1..n |-> EventFor(s[i])]
             /\ knote' = [g \in Fd |-> IF \E i \in 1..n : s[i] = g THEN "disabled"
                                                                   ELSE knote[g]]
    BY <2>3
  <2>5. f \notin Ready
    BY <1>0, OrchestratorAssumption DEF Ready
  <2>6. \A y : EventFor(y).ident = y
    BY DEF EventFor
  <2>7. Len(batch') = n /\ Pending' = 1..n /\ \A i \in 1..n : batch'[i].ident \in Ready
    <3>1. n \in Nat /\ DOMAIN batch' = 1..n
      BY <2>4
    <3>2. Len(batch') = n
      BY <2>4, <3>1
    <3>3. Pending' = 1..n
      BY <2>2, <3>2 DEF Pending
    <3> QED
      BY <2>4, <2>6, <3>2, <3>3
  <2>8. \A i \in 1..n : batch'[i].ident # f
    BY <2>5, <2>7
  <2>9. knote'[f] # "armed"
    BY <1>0, <2>4
  <2> QED
    BY <1>0, <2>2, <2>7, <2>8, <2>9 DEF Orphan, InFlight, Pool!InFlight
<1>3. CASE ProcessConnectionEvent
  <2>1. /\ batch # <<>> /\ batch' = Tail(batch) /\ main_pc' = "loop" /\ main_pc = "loop"
        /\ UNCHANGED <<queue, holding>>
    BY <1>3 DEF ProcessConnectionEvent, AcceptConnection, AcceptUnwatched, AcceptFails,
       Dispatching, NextEvent, pool
  <2>2. \/ UNCHANGED <<file, knote>>
        \/ \E c \in Conn, g \in Fd :
             /\ file[g] = None /\ file' = [file EXCEPT ![g] = c]
             /\ knote' = [knote EXCEPT ![g] = "armed"] \/ knote' = knote
    BY <1>3 DEF ProcessConnectionEvent, AcceptConnection, AcceptUnwatched, AcceptFails,
       FreeFds, kernel
  <2>3. file'[f] = file[f] /\ knote'[f] = knote[f]
    BY <1>0, <2>2 DEF TypeOK
  <2>4. /\ Pending' = 1..Len(batch')
        /\ \A i \in 1..Len(batch') : batch'[i] = batch[i + 1] /\ i + 1 \in Pending
    BY <1>0, <2>1, NextEventIs
  <2> QED
    BY <1>0, <2>1, <2>3, <2>4 DEF Orphan, InFlight, Pool!InFlight
<1>4. CASE EnqueueEvent
  <2> DEFINE e == Event.ident
  <2>1. /\ Dispatching /\ Event.ident # Listen /\ queue' = Append(queue, e)
        /\ UNCHANGED <<file, knote, holding>> /\ batch # <<>> /\ main_pc = "loop"
    BY <1>4 DEF EnqueueEvent, kernel, Dispatching
  <2>2. e \in Fd /\ ~InFlight(e)
    BY <1>0, <2>1, EventIsCurrent
  <2>3. e # f
    <3>1. Event = batch[1] /\ 1 \in Pending
      BY <1>0, <2>1, TailEvents, PendingIs DEF TypeOK, Event
    <3> QED
      BY <1>0, <3>1
  <2> HIDE DEF e
  <2>4. (~InFlight(f))'
    BY <1>0, <2>1, <2>2, <2>3, EnqueueGrows
  <2>5. \A i \in Pending' : \E j \in Pending : batch'[i] = batch[j]
    <3>1. CASE batch' = batch /\ main_pc' = "delete"
      <4>1. batch \in Seq(Events) /\ Len(batch) \in Nat
        BY <1>0, EventAt DEF TypeOK
      <4>2. Pending' \subseteq Pending
        BY <2>1, <3>1, <4>1 DEF Pending
      <4> QED
        BY <3>1, <4>2
    <3>2. CASE batch' = Tail(batch) /\ main_pc' = "loop"
      BY <1>0, <2>1, <3>2, NextEventIs
    <3> QED
      BY <1>4, <2>1, <3>1, <3>2 DEF EnqueueEvent, NextEvent
  <2> QED
    BY <1>0, <2>1, <2>4, <2>5 DEF Orphan
<1>5. CASE EnqueueFails
  <2>1. /\ batch # <<>> /\ batch' = Tail(batch) /\ main_pc' = "loop"
        /\ UNCHANGED <<file, knote, queue, holding>>
    BY <1>5 DEF EnqueueFails, Dispatching, NextEvent, kernel, pool
  <2>2. /\ Pending' = 1..Len(batch')
        /\ \A i \in 1..Len(batch') : batch'[i] = batch[i + 1] /\ i + 1 \in Pending
    BY <1>0, <2>1, NextEventIs
  <2> QED
    BY <1>0, <2>1, <2>2 DEF Orphan, InFlight, Pool!InFlight
<1>6. CASE DeleteEvent
  <2>1. /\ batch' = Tail(batch) /\ main_pc' = "loop" /\ main_pc = "delete"
        /\ UNCHANGED <<file, queue, holding>>
        /\ knote' = [knote EXCEPT ![Event.ident] = "none"]
    BY <1>6 DEF DeleteEvent, pool
  <2>2. batch # <<>>
    BY <1>0, <2>1 DEF InFlightIsUnwatched
  <2>3. /\ Pending' = 1..Len(batch')
        /\ \A i \in 1..Len(batch') : batch'[i] = batch[i + 1] /\ i + 1 \in Pending
    BY <1>0, <2>1, <2>2, NextEventIs
  <2>4. knote'[f] # "armed"
    BY <1>0, <2>1 DEF TypeOK
  <2> QED
    BY <1>0, <2>1, <2>3, <2>4 DEF Orphan, InFlight, Pool!InFlight
<1>7. ASSUME NEW w \in Worker, PullTask(w)
      PROVE  Orphan(f)' /\ file'[f] = file[f]
  <2>1. Pool!Take(w) /\ UNCHANGED <<file, knote, batch, main_pc>>
    BY <1>7 DEF PullTask, kernel, loop
  <2>2. (~InFlight(f))'
    BY <1>0, <2>1, TakeMoves
  <2> QED
    BY <1>0, <2>1, <2>2 DEF Orphan, Pending
<1>8. ASSUME NEW w \in Worker, CloseDescriptor(w)
      PROVE  Orphan(f)' /\ file'[f] = file[f]
  <2>1. /\ Pool!Release(w) /\ UNCHANGED <<batch, main_pc>>
        /\ file' = [file EXCEPT ![holding[w]] = None]
        /\ knote' = [knote EXCEPT ![holding[w]] = "none"]
    BY <1>8 DEF CloseDescriptor, loop
  <2>2. holding[w] # f /\ (~InFlight(f))'
    BY <1>0, <2>1, ReleaseFrees
  <2>3. file'[f] = file[f] /\ knote'[f] = knote[f]
    BY <1>0, <2>1, <2>2 DEF TypeOK
  <2> QED
    BY <1>0, <2>1, <2>2, <2>3 DEF Orphan, Pending
<1> QED
  BY <1>1, <1>2, <1>3, <1>4, <1>5, <1>6, <1>7, <1>8 DEF Next, ProcessDataEvent

(* What a failed call leaves behind is lost for good, and disturbs no      *)
(* other connection.                                                       *)
THEOREM LostDescriptorsStay == Spec => OrphansStay
<1> DEFINE Kept == \A f \in Fd : Orphan(f) => Orphan(f)' /\ file'[f] = file[f]
<1>1. IInv /\ [Next]_vars => [Kept]_vars
  BY OrphanIsLeftAlone
<1> QED
  BY <1>1, Invariance, PTL DEF Spec, OrphansStay

-----------------------------------------------------------------------------
(* A descriptor loses its owner only in the step of a failing call.        *)
LEMMA OrphanIsMadeByFault ==
  ASSUME IInv, Next, NEW f \in Fd, ~Orphan(f), Orphan(f)'
  PROVE  \/ \E c \in Conn : AcceptUnwatched(c, f)
         \/ EnqueueFails /\ f = Event.ident
<1>0. /\ TypeOK /\ BatchIsCurrent /\ InFlightIsUnwatched /\ Pool!OnePlace
  BY DEF IInv
<1>a. /\ file'[f] # None /\ knote'[f] # "armed" /\ (~InFlight(f))'
      /\ \A i \in Pending' : batch'[i].ident # f
  BY DEF Orphan
<1>1. CASE \E c \in Conn : Connect(c) \/ Speak(c) \/ HangUp(c) \/ Abort(c)
  <2>1. UNCHANGED <<file, knote, batch, main_pc, queue, holding>>
    BY <1>1 DEF Connect, Speak, HangUp, Abort, kernel, loop, pool
  <2> QED
    BY <2>1 DEF Orphan, Pending, InFlight, Pool!InFlight
<1>2. CASE Poll
  <2>1. PICK x \in Ready : PollReturning(x)
    BY <1>2 DEF Poll
  <2> DEFINE P(n, s) ==
        /\ batch' = [i \in 1..n |-> EventFor(s[i])]
        /\ knote' = [g \in Fd |-> IF \E i \in 1..n : s[i] = g THEN "disabled"
                                                              ELSE knote[g]]
  <2>2. /\ UNCHANGED <<file, main_pc, queue, holding>> /\ main_pc = "loop"
        /\ batch = <<>>
    BY <2>1 DEF PollReturning, pool
  <2>3. PICK n \in 1..MaxEvents : \E s \in [1..n -> Ready] : P(n, s)
    BY <2>1 DEF PollReturning
  <2>4. PICK s \in [1..n -> Ready] : P(n, s)
    BY <2>3
  <2>5. P(n, s)
    BY <2>4
  <2>6. Pending' = 1..n /\ \A i \in 1..n : batch'[i].ident = s[i]
    <3>1. n \in Nat /\ DOMAIN batch' = 1..n
      BY <2>5
    <3>2. Len(batch') = n
      BY <2>5, <3>1
    <3>3. \A y : EventFor(y).ident = y
      BY DEF EventFor
    <3> QED
      BY <2>2, <2>5, <3>2, <3>3 DEF Pending
  <2>7. knote'[f] = knote[f]
    BY <1>a, <2>5, <2>6
  <2>8. Pending = {}
    BY <2>2, PendingIs
  <2> QED
    BY <1>a, <2>2, <2>7, <2>8 DEF Orphan, InFlight, Pool!InFlight
<1>3. CASE ProcessConnectionEvent /\ ~\E c \in Conn : AcceptUnwatched(c, f)
  <2>1. /\ batch # <<>> /\ batch' = Tail(batch) /\ main_pc' = "loop" /\ main_pc = "loop"
        /\ UNCHANGED <<queue, holding>> /\ Event.ident = Listen
    BY <1>3 DEF ProcessConnectionEvent, AcceptConnection, AcceptUnwatched, AcceptFails,
       Dispatching, NextEvent, pool
  <2>2. \/ UNCHANGED <<file, knote>>
        \/ \E c \in Conn, g \in Fd :
             /\ file[g] = None /\ file' = [file EXCEPT ![g] = c]
             /\ knote' = [knote EXCEPT ![g] = "armed"]
        \/ \E c \in Conn, g \in Fd :
             /\ g # f /\ file' = [file EXCEPT ![g] = c] /\ knote' = knote
    BY <1>3 DEF ProcessConnectionEvent, AcceptConnection, AcceptUnwatched, AcceptFails,
       FreeFds, kernel
  <2>3. file[f] # None /\ knote[f] # "armed"
    BY <1>0, <1>a, <2>2 DEF TypeOK
  <2>4. /\ Event = batch[1]
        /\ \A i \in Pending : i # 1 => i - 1 \in Pending' /\ batch'[i - 1] = batch[i]
    BY <1>0, <2>1, NextEventIs
  <2>5. \A i \in Pending : batch[i].ident # f
    BY <1>a, <2>1, <2>4, OrchestratorAssumption
  <2> QED
    BY <1>a, <2>1, <2>3, <2>5 DEF Orphan, InFlight, Pool!InFlight
<1>4. CASE EnqueueEvent
  <2> DEFINE e == Event.ident
  <2>1. /\ Dispatching /\ Event.ident # Listen /\ queue' = Append(queue, e)
        /\ UNCHANGED <<file, knote, holding>> /\ batch # <<>> /\ main_pc = "loop"
    BY <1>4 DEF EnqueueEvent, kernel, Dispatching
  <2>2. e \in Fd /\ ~InFlight(e)
    BY <1>0, <2>1, EventIsCurrent
  <2>3. batch \in Seq(Events) /\ Len(batch) \in Nat \ {0} /\ e = batch[1].ident
        /\ Pending = 1..Len(batch)
    BY <1>0, <2>1, TailEvents, PendingIs DEF TypeOK, Event
  <2> HIDE DEF e
  <2>4. ~InFlight(f) /\ f # e
    BY <1>0, <1>a, <2>1, <2>2, EnqueueGrows
  <2>5. \A i \in Pending : i # 1 => \E j \in Pending' : batch'[j] = batch[i]
    <3>1. CASE batch' = batch /\ main_pc' = "delete"
      <4>1. Pending' = 2..Len(batch)
        BY <3>1 DEF Pending
      <4>2. \A i \in 1..Len(batch) : i # 1 => i \in 2..Len(batch)
        BY <2>3
      <4> QED
        BY <2>3, <3>1, <4>1, <4>2
    <3>2. CASE batch' = Tail(batch) /\ main_pc' = "loop"
      BY <1>0, <2>1, <3>2, NextEventIs
    <3> QED
      BY <1>4, <2>1, <3>1, <3>2 DEF EnqueueEvent, NextEvent
  <2>6. \A i \in Pending : batch[i].ident # f
    BY <1>a, <2>3, <2>4, <2>5
  <2> QED
    BY <1>a, <2>1, <2>4, <2>6 DEF Orphan
<1>5. CASE EnqueueFails /\ f # Event.ident
  <2>1. /\ batch # <<>> /\ batch' = Tail(batch) /\ main_pc' = "loop"
        /\ UNCHANGED <<file, knote, queue, holding>>
    BY <1>5 DEF EnqueueFails, Dispatching, NextEvent, kernel, pool
  <2>2. /\ Event = batch[1]
        /\ \A i \in Pending : i # 1 => i - 1 \in Pending' /\ batch'[i - 1] = batch[i]
    BY <1>0, <2>1, NextEventIs
  <2>3. \A i \in Pending : batch[i].ident # f
    BY <1>5, <1>a, <2>2
  <2> QED
    BY <1>a, <2>1, <2>3 DEF Orphan, InFlight, Pool!InFlight
<1>6. CASE DeleteEvent
  <2>1. /\ batch' = Tail(batch) /\ main_pc' = "loop" /\ main_pc = "delete"
        /\ UNCHANGED <<file, queue, holding>>
        /\ knote' = [knote EXCEPT ![Event.ident] = "none"]
    BY <1>6 DEF DeleteEvent, pool
  <2>2. batch # <<>> /\ knote[Event.ident] # "armed"
    BY <1>0, <2>1 DEF InFlightIsUnwatched
  <2>3. \A i \in Pending : i # 1 => i - 1 \in Pending' /\ batch'[i - 1] = batch[i]
    BY <1>0, <2>1, <2>2, NextEventIs
  <2>4. \A i \in Pending : batch[i].ident # f
    <3>1. Pending = 2..Len(batch)
      BY <2>1, PendingIs
    <3>2. \A i \in Pending : i # 1
      BY <3>1
    <3> QED
      BY <1>a, <2>3, <3>2
  <2>5. knote[f] # "armed"
    BY <1>0, <1>a, <2>1, <2>2 DEF TypeOK
  <2> QED
    BY <1>a, <2>1, <2>4, <2>5 DEF Orphan, InFlight, Pool!InFlight
<1>7. ASSUME NEW w \in Worker, PullTask(w)
      PROVE  FALSE
  <2>1. Pool!Take(w) /\ UNCHANGED <<file, knote, batch, main_pc>>
    BY <1>7 DEF PullTask, kernel, loop
  <2>2. ~InFlight(f)
    BY <1>0, <1>a, <2>1, TakeMoves
  <2> QED
    BY <1>a, <2>1, <2>2 DEF Orphan, Pending
<1>8. ASSUME NEW w \in Worker, CloseDescriptor(w)
      PROVE  FALSE
  <2>1. /\ Pool!Release(w) /\ UNCHANGED <<batch, main_pc>>
        /\ file' = [file EXCEPT ![holding[w]] = None]
        /\ knote' = [knote EXCEPT ![holding[w]] = "none"]
    BY <1>8 DEF CloseDescriptor, loop
  <2>2. f # holding[w]
    BY <1>0, <1>a, <2>1 DEF TypeOK
  <2>3. ~InFlight(f)
    BY <1>0, <1>a, <2>1, <2>2, ReleaseFrees
  <2>4. file'[f] = file[f] /\ knote'[f] = knote[f]
    BY <1>0, <2>1, <2>2 DEF TypeOK
  <2> QED
    BY <1>a, <2>1, <2>3, <2>4 DEF Orphan, Pending
<1> QED
  BY <1>1, <1>2, <1>3, <1>4, <1>5, <1>6, <1>7, <1>8 DEF Next, ProcessDataEvent

(* A failing call is the only way to lose a descriptor.                    *)
THEOREM OnlyFailuresLose == Spec => OnlyFaultsOrphan
<1> DEFINE Blamed == \A f \in Fd : ~Orphan(f) /\ Orphan(f)' =>
                       \/ \E c \in Conn : AcceptUnwatched(c, f)
                       \/ EnqueueFails /\ f = Event.ident
<1>1. IInv /\ [Next]_vars => [Blamed]_vars
  BY OrphanIsMadeByFault
<1> QED
  BY <1>1, Invariance, PTL DEF Spec, OnlyFaultsOrphan

(* While setsockopt, EV_ADD and enqueue_task succeed, every descriptor     *)
(* that accept returned is watched, reported, queued or being processed.   *)
THEOREM EveryDescriptorIsOwned == ASSUME Faults = {} PROVE Spec => []NoOrphans
<1>1. Init => NoOrphans
  BY DEF Init, NoOrphans, Orphan
<1>2. IInv /\ NoOrphans /\ [Next]_vars => NoOrphans'
  <2> SUFFICES ASSUME IInv, NoOrphans, [Next]_vars, NEW f \in Fd, Orphan(f)'
               PROVE  FALSE
    BY DEF NoOrphans
  <2>1. CASE Next
    BY <2>1, OrphanIsMadeByFault DEF NoOrphans, AcceptUnwatched, EnqueueFails
  <2>2. CASE UNCHANGED vars
    BY <2>2 DEF vars, kernel, pool, loop, NoOrphans, Orphan, Pending, InFlight,
       Pool!InFlight
  <2> QED
    BY <2>1, <2>2
<1> QED
  BY <1>1, <1>2, Invariance, PTL DEF Spec

-----------------------------------------------------------------------------
(* Every step of the event loop and of the workers is a step of the pool,  *)
(* or leaves it alone.                                                     *)
LEMMA StepIsPoolStep == IInv /\ [Next]_vars => [Pool!Next]_Pool!vars
<1> SUFFICES ASSUME IInv, [Next]_vars PROVE [Pool!Next]_Pool!vars
  OBVIOUS
<1>1. CASE \E c \in Conn : Connect(c) \/ Speak(c) \/ HangUp(c) \/ Abort(c)
  BY <1>1 DEF Connect, Speak, HangUp, Abort, pool, Pool!vars
<1>2. CASE Poll
  BY <1>2 DEF Poll, PollReturning, pool, Pool!vars
<1>3. CASE ProcessConnectionEvent
  BY <1>3 DEF ProcessConnectionEvent, AcceptConnection, AcceptUnwatched, AcceptFails,
     pool, Pool!vars
<1>4. CASE EnqueueEvent
  <2>1. /\ Dispatching /\ Event.ident # Listen
        /\ queue' = Append(queue, Event.ident) /\ UNCHANGED holding
    BY <1>4 DEF EnqueueEvent
  <2>2. Event.ident \in Fd /\ ~InFlight(Event.ident)
    BY <2>1, EventIsCurrent DEF IInv
  <2>3. Pool!Submit(Event.ident)
    BY <2>1, <2>2 DEF Pool!Submit, InFlight
  <2> QED
    BY <2>2, <2>3 DEF Pool!Next
<1>5. CASE EnqueueFails \/ DeleteEvent
  BY <1>5 DEF EnqueueFails, DeleteEvent, pool, Pool!vars
<1>6. CASE \E w \in Worker : PullTask(w) \/ CloseDescriptor(w)
  BY <1>6 DEF PullTask, CloseDescriptor, Pool!Next
<1>7. CASE UNCHANGED vars
  BY <1>7 DEF vars, pool, Pool!vars
<1> QED
  BY <1>1, <1>2, <1>3, <1>4, <1>5, <1>6, <1>7 DEF Next, ProcessDataEvent

(* The event loop is a proper client of the pool: it submits a descriptor  *)
(* only while the pool does not have it.                                   *)
THEOREM LoopUsesPoolProperly == Spec => ImplementsPool
<1>1. Init => Pool!Init
  BY DEF Init
<1> QED
  BY <1>1, StepIsPoolStep, Invariance, PTL DEF Spec, ImplementsPool, Pool!Spec

-----------------------------------------------------------------------------
(* The inductive invariant of the refinement: a connection has one         *)
(* descriptor at most, and is in one of the places the kernel, the history *)
(* and the client give it.                                                 *)
OneDescriptorEach == \A f, g \in Fd : file[f] = file[g] /\ file[f] # None => f = g

LifeInv ==
  /\ OneDescriptorEach
  /\ \A c \in backlog : ~Open(c) /\ c \notin closed
  /\ \A f \in Fd : file[f] # None => file[f] \notin closed
  /\ \A c \in Conn : peer[c] = "absent" => c \notin backlog /\ ~Open(c) /\ c \notin closed

LEMMA InitLife == Init => LifeInv
<1> SUFFICES ASSUME Init PROVE LifeInv
  OBVIOUS
<1>1. \A f \in Fd : file[f] = None
  BY DEF Init
<1>2. backlog = {} /\ closed = {}
  BY DEF Init
<1>3. \A c \in Conn : ~Open(c)
  BY <1>1, OrchestratorAssumption DEF Open
<1> QED
  BY <1>1, <1>2, <1>3 DEF LifeInv, OneDescriptorEach

(* An accept gives a connection of the backlog a descriptor that was free. *)
LEMMA AcceptLife ==
  ASSUME TypeOK, LifeInv, NEW c \in backlog, NEW f \in Fd, file[f] = None,
         peer[c] # "absent",
         file' = [file EXCEPT ![f] = c], backlog' = backlog \ {c},
         UNCHANGED <<peer, closed>>
  PROVE  LifeInv'
<1>1. c \in Conn /\ c # None /\ None \notin Conn
  BY OrchestratorAssumption DEF TypeOK
<1>2. file'[f] = c /\ \A g \in Fd : g # f => file'[g] = file[g]
  BY DEF TypeOK
<1>3. \A g \in Fd : file[g] # c
  BY DEF LifeInv, Open
<1>4. OneDescriptorEach'
  BY <1>1, <1>2, <1>3 DEF LifeInv, OneDescriptorEach
<1>5. \A d : d # c => (Open(d)' <=> Open(d)) \/ d = None
  BY <1>1, <1>2 DEF Open
<1>6. \A g \in Fd : file'[g] # None => file'[g] \notin closed'
  BY <1>2 DEF LifeInv
<1>7. \A d \in backlog' : ~Open(d)' /\ d \notin closed'
  BY <1>1, <1>5 DEF LifeInv, TypeOK
<1>8. \A d \in Conn : peer'[d] = "absent" => d \notin backlog' /\ ~Open(d)' /\ d \notin closed'
  BY <1>1, <1>5 DEF LifeInv
<1> QED
  BY <1>4, <1>6, <1>7, <1>8 DEF LifeInv

(* A worker's close ends the life of one connection.                       *)
LEMMA CloseLife ==
  ASSUME TypeOK, LifeInv, NEW f \in Fd, file[f] # None,
         file' = [file EXCEPT ![f] = None], closed' = closed \cup {file[f]},
         UNCHANGED <<peer, backlog>>
  PROVE  LifeInv'
<1>1. file[f] \in Conn /\ None \notin Conn
  BY OrchestratorAssumption DEF TypeOK
<1>2. file'[f] = None /\ \A g \in Fd : g # f => file'[g] = file[g]
  BY DEF TypeOK
<1>3. OneDescriptorEach'
  BY <1>2 DEF LifeInv, OneDescriptorEach
<1>4. \A d \in Conn : Open(d)' <=> Open(d) /\ d # file[f]
  BY <1>1, <1>2 DEF Open, LifeInv, OneDescriptorEach
<1>5. Open(file[f])
  BY DEF Open
<1>6. \A d \in backlog' : ~Open(d)' /\ d \notin closed'
  BY <1>1, <1>4, <1>5 DEF LifeInv, TypeOK
<1>7. \A g \in Fd : file'[g] # None => file'[g] \notin closed'
  BY <1>1, <1>2 DEF LifeInv, OneDescriptorEach
<1>8. \A d \in Conn : peer'[d] = "absent" => d \notin backlog' /\ ~Open(d)' /\ d \notin closed'
  BY <1>1, <1>4, <1>5 DEF LifeInv
<1> QED
  BY <1>3, <1>6, <1>7, <1>8 DEF LifeInv

LEMMA LifeStep ==
  ASSUME IInv, LifeInv, Next
  PROVE  LifeInv'
<1>0. TypeOK
  BY DEF IInv
<1>1. ASSUME UNCHANGED <<file, closed>>, backlog' \subseteq backlog,
             \A c \in Conn : peer'[c] = "absent" => peer[c] = "absent"
      PROVE  LifeInv'
  BY <1>1 DEF LifeInv, OneDescriptorEach, Open
<1>2. ASSUME NEW c \in Conn, Connect(c)
      PROVE  LifeInv'
  <2>1. /\ UNCHANGED <<file, closed>> /\ backlog' = backlog \cup {c}
        /\ peer[c] = "absent" /\ peer'[c] = "silent"
        /\ \A d \in Conn : d # c => peer'[d] = peer[d]
    BY <1>0, <1>2 DEF Connect, kernel, history, TypeOK
  <2>2. \A d : Open(d)' <=> Open(d)
    BY <2>1 DEF Open
  <2>3. \A d \in backlog' : ~Open(d)' /\ d \notin closed'
    BY <2>1, <2>2 DEF LifeInv
  <2>4. \A d \in Conn : peer'[d] = "absent" => d \notin backlog' /\ ~Open(d)' /\ d \notin closed'
    BY <2>1, <2>2 DEF LifeInv
  <2> QED
    BY <2>1, <2>3, <2>4 DEF LifeInv, OneDescriptorEach
<1>3. CASE \E c \in Conn : Speak(c) \/ HangUp(c) \/ Abort(c)
  <2>1. UNCHANGED <<file, closed, backlog>>
    BY <1>3 DEF Speak, HangUp, Abort, kernel, history
  <2>2. \A c \in Conn : peer'[c] = "absent" => peer[c] = "absent"
    BY <1>0, <1>3 DEF Speak, HangUp, Abort, TypeOK
  <2> QED
    BY <1>1, <2>1, <2>2
<1>4. CASE Poll
  <2>1. UNCHANGED <<file, closed, backlog, peer>>
    BY <1>4 DEF Poll, PollReturning, clients, history
  <2> QED
    BY <1>1, <2>1
<1>5. ASSUME NEW c \in Conn, NEW f \in Fd, AcceptConnection(c, f) \/ AcceptUnwatched(c, f)
      PROVE  LifeInv'
  <2>1. /\ c \in backlog /\ file[f] = None /\ file' = [file EXCEPT ![f] = c]
        /\ backlog' = backlog \ {c} /\ UNCHANGED <<peer, closed>>
    BY <1>5 DEF AcceptConnection, AcceptUnwatched, FreeFds, history
  <2>2. peer[c] # "absent"
    BY <2>1 DEF LifeInv
  <2> QED
    BY <1>0, <2>1, <2>2, AcceptLife
<1>6. CASE AcceptFails
  <2>1. UNCHANGED <<file, closed, peer>> /\ backlog' \subseteq backlog
    BY <1>6 DEF AcceptFails, kernel, history
  <2> QED
    BY <1>1, <2>1
<1>7. CASE ProcessDataEvent
  <2>1. UNCHANGED <<file, closed, peer, backlog>>
    BY <1>7 DEF ProcessDataEvent, EnqueueEvent, EnqueueFails, DeleteEvent, kernel,
       clients, history
  <2> QED
    BY <1>1, <2>1
<1>8. ASSUME NEW w \in Worker, PullTask(w)
      PROVE  LifeInv'
  <2>1. UNCHANGED <<file, closed, peer, backlog>>
    BY <1>8 DEF PullTask, kernel, clients, history
  <2> QED
    BY <1>1, <2>1
<1>9. ASSUME NEW w \in Worker, CloseDescriptor(w)
      PROVE  LifeInv'
  <2>1. /\ Pool!Release(w) /\ file' = [file EXCEPT ![holding[w]] = None]
        /\ closed' = closed \cup {file[holding[w]]} /\ UNCHANGED <<peer, backlog>>
    BY <1>9 DEF CloseDescriptor, clients
  <2>2. holding[w] \in Fd /\ InFlight(holding[w])
    BY <1>0, <2>1, ReleaseFrees DEF IInv
  <2>3. file[holding[w]] # None
    BY <2>2 DEF IInv, WorkerReadsOwnConnection
  <2> QED
    BY <1>0, <2>1, <2>2, <2>3, CloseLife
<1> QED
  BY <1>2, <1>3, <1>4, <1>5, <1>6, <1>7, <1>8, <1>9 DEF Next, ProcessConnectionEvent

-----------------------------------------------------------------------------
(* What the state of an open connection's descriptor says of it.           *)
Busy(f) == \E w \in Worker : holding[w] = f

Place(f) == IF Busy(f) THEN "processing"
            ELSE IF InFlight(f) THEN "queued"
            ELSE IF Orphan(f) THEN "lost" ELSE "watched"

PhaseIsPlace ==
  \A c \in Conn :
    /\ c \in closed => Phase(c) = "closed"
    /\ c \in backlog => Phase(c) = "backlog"
    /\ \A f \in Fd : file[f] = c => Phase(c) = Place(f)
    /\ c \notin closed /\ c \notin backlog /\ ~Open(c) =>
         Phase(c) = IF peer[c] = "absent" THEN "absent" ELSE "refused"

LEMMA PhaseRead == IInv /\ LifeInv => PhaseIsPlace
<1> SUFFICES ASSUME IInv, LifeInv, NEW c \in Conn
             PROVE  /\ c \in closed => Phase(c) = "closed"
                    /\ c \in backlog => Phase(c) = "backlog"
                    /\ \A f \in Fd : file[f] = c => Phase(c) = Place(f)
                    /\ c \notin closed /\ c \notin backlog /\ ~Open(c) =>
                         Phase(c) = IF peer[c] = "absent" THEN "absent" ELSE "refused"
  BY DEF PhaseIsPlace
<1>1. c \in backlog => c \notin closed
  BY DEF LifeInv
<1>2. ASSUME NEW f \in Fd, file[f] = c
      PROVE  Phase(c) = Place(f)
  <2>1. c # None
    BY OrchestratorAssumption
  <2>2. c \notin closed /\ c \notin backlog /\ Open(c)
    BY <1>2, <2>1 DEF LifeInv, Open
  <2>3. f = CHOOSE g \in Fd : file[g] = c
    BY <1>2, <2>1 DEF LifeInv, OneDescriptorEach
  <2> QED
    BY <2>2, <2>3 DEF Phase, Place, Busy
<1> QED
  BY <1>1, <1>2 DEF Phase

LEMMA PhaseReadNext == (IInv /\ LifeInv)' => PhaseIsPlace'
BY PhaseRead, PTL

(* Steps that touch neither a descriptor nor its tasks leave it its place. *)
LEMMA PlaceStays ==
  ASSUME IInv, Next, NEW f \in Fd, file'[f] = file[f],
         Busy(f)' <=> Busy(f), InFlight(f)' <=> InFlight(f),
         \A c \in Conn : ~AcceptUnwatched(c, f), ~(EnqueueFails /\ f = Event.ident)
  PROVE  Place(f)' = Place(f)
<1>1. Orphan(f) => Orphan(f)'
  BY OrphanIsLeftAlone
<1>2. Orphan(f)' => Orphan(f)
  BY OrphanIsMadeByFault
<1> QED
  BY <1>1, <1>2 DEF Place

(* A connection whose records do not change, and whose descriptor keeps    *)
(* its place, is where it was.                                             *)
LEMMA PhaseStays ==
  ASSUME PhaseIsPlace, PhaseIsPlace', NEW d \in Conn,
         d \in closed' <=> d \in closed, d \in backlog' <=> d \in backlog,
         \A f \in Fd : file'[f] = d <=> file[f] = d,
         peer'[d] = "absent" <=> peer[d] = "absent",
         \A f \in Fd : file[f] = d => Place(f)' = Place(f)
  PROVE  Phase(d)' = Phase(d)
<1>1. Open(d)' <=> Open(d)
  BY DEF Open
<1>2. CASE Open(d)
  <2>1. PICK f \in Fd : file[f] = d
    BY <1>2 DEF Open
  <2>2. Phase(d) = Place(f)
    BY <2>1 DEF PhaseIsPlace
  <2>3. Phase(d)' = Place(f)'
    BY <2>1 DEF PhaseIsPlace
  <2> QED
    BY <2>1, <2>2, <2>3
<1>3. CASE ~Open(d)
  <2>1. CASE d \in closed
    BY <2>1 DEF PhaseIsPlace
  <2>2. CASE d \notin closed /\ d \in backlog
    BY <2>2 DEF PhaseIsPlace
  <2>3. CASE d \notin closed /\ d \notin backlog
    BY <1>1, <1>3, <2>3 DEF PhaseIsPlace
  <2> QED
    BY <2>1, <2>2, <2>3
<1> QED
  BY <1>2, <1>3

(* One connection moves, the others stay.                                  *)
LEMMA OneMoves ==
  ASSUME NEW c \in Conn, NEW p, NEW q, Phase(c) = p, Phase(c)' = q,
         \A d \in Conn : d # c => Phase(d)' = Phase(d)
  PROVE  Life!Move(c, p, q)
BY DEF Life!Move

AllStay == \A d \in Conn : Phase(d)' = Phase(d)

LEMMA NoneMoves == AllStay => UNCHANGED [c \in Conn |-> Phase(c)]
BY DEF AllStay

(* Room for one more: the connections in the given places have descriptors *)
(* or workers of their own, and one descriptor or worker is left.          *)
LEMMA OneLeft ==
  ASSUME NEW S, NEW T, IsFiniteSet(T), NEW x \in T, NEW m \in [S -> T \ {x}],
         \A a, b \in S : m[a] = m[b] => a = b
  PROVE  Cardinality(S) < Cardinality(T)
<1>1. /\ IsFiniteSet(T \ {x}) /\ Cardinality(T \ {x}) = Cardinality(T) - 1
      /\ Cardinality(T) \in Nat
  BY FS_RemoveElement, FS_CardinalityType
<1>2. m \in Injection(S, T \ {x})
  BY DEF Injection, IsInjective
<1>3. IsFiniteSet(S) /\ Cardinality(S) <= Cardinality(T \ {x})
  BY <1>1, <1>2, FS_Injection
<1>4. Cardinality(S) \in Nat
  BY <1>3, FS_CardinalityType
<1> QED
  BY <1>1, <1>3, <1>4

(* The cardinality an instance counts with is the usual one.               *)
LEMMA SameCount ==
  ASSUME NEW S
  PROVE  Life!Cardinality(S) = Cardinality(S)
BY DEF Life!Cardinality, Cardinality

LEMMA HeldIsOpen ==
  ASSUME IInv, LifeInv, NEW c \in Conn, Phase(c) \in {"watched", "queued", "processing", "lost"}
  PROVE  \E f \in Fd : file[f] = c /\ Phase(c) = Place(f)
<1>1. Open(c)
  BY PhaseRead DEF PhaseIsPlace
<1> QED
  BY <1>1, PhaseRead DEF PhaseIsPlace, Open

LEMMA DescriptorLeft ==
  ASSUME IInv, LifeInv, NEW f \in Fd, file[f] = None
  PROVE  Cardinality(Life!In(Life!Held)) < Cardinality(Fd)
<1> DEFINE S == {c \in Conn : Phase(c) \in Life!Held}
           m == [c \in S |-> CHOOSE g \in Fd : file[g] = c]
<1>1. Life!In(Life!Held) = S
  BY DEF Life!In
<1>2. \A c \in S : m[c] \in Fd /\ file[m[c]] = c
  BY HeldIsOpen DEF Life!Held
<1>3. \A c \in S : m[c] # f
  BY <1>2, OrchestratorAssumption
<1>4. m \in [S -> Fd \ {f}] /\ \A a, b \in S : m[a] = m[b] => a = b
  BY <1>2, <1>3
<1>5. IsFiniteSet(Fd)
  BY OrchestratorAssumption
<1> HIDE DEF S, m
<1>6. Cardinality(S) < Cardinality(Fd)
  BY <1>4, <1>5, OneLeft
<1> QED
  BY <1>1, <1>6

LEMMA WorkerLeft ==
  ASSUME IInv, LifeInv, NEW w \in Worker, holding[w] = None
  PROVE  Cardinality(Life!In({"processing"})) < Cardinality(Worker)
<1> DEFINE S == {c \in Conn : Phase(c) = "processing"}
           m == [c \in S |-> CHOOSE v \in Worker : holding[v] \in Fd /\ file[holding[v]] = c]
<1>1. Life!In({"processing"}) = S
  BY DEF Life!In
<1>2. \A c \in S : m[c] \in Worker /\ holding[m[c]] \in Fd /\ file[holding[m[c]]] = c
  <2> SUFFICES ASSUME NEW c \in S
               PROVE  \E v \in Worker : holding[v] \in Fd /\ file[holding[v]] = c
    OBVIOUS
  <2>1. PICK f \in Fd : file[f] = c /\ Place(f) = "processing"
    BY HeldIsOpen
  <2> QED
    BY <2>1 DEF Place, Busy
<1>3. \A c \in S : m[c] # w
  BY <1>2, OrchestratorAssumption
<1>4. m \in [S -> Worker \ {w}] /\ \A a, b \in S : m[a] = m[b] => a = b
  BY <1>2, <1>3
<1>5. IsFiniteSet(Worker)
  BY OrchestratorAssumption
<1> HIDE DEF S, m
<1>6. Cardinality(S) < Cardinality(Worker)
  BY <1>4, <1>5, OneLeft
<1> QED
  BY <1>1, <1>6

-----------------------------------------------------------------------------
LEMMA InitIsLife == Init => Life!Init
<1> SUFFICES ASSUME Init PROVE Life!Init
  OBVIOUS
<1>1. \A f \in Fd : file[f] = None
  BY DEF Init
<1>2. \A c \in Conn : c \notin closed /\ c \notin backlog /\ peer[c] = "absent"
  BY DEF Init
<1>3. \A c \in Conn : ~Open(c)
  BY <1>1, OrchestratorAssumption DEF Open
<1> QED
  BY <1>2, <1>3 DEF Life!Init, Phase

(* A step of one connection, and a step of none.                           *)
LifeStepped == Life!Next \/ UNCHANGED [c \in Conn |-> Phase(c)]

LEMMA ClientIsLife ==
  ASSUME IInv, LifeInv, IInv', LifeInv', Next,
         NEW c \in Conn, Connect(c) \/ Speak(c) \/ HangUp(c) \/ Abort(c)
  PROVE  LifeStepped
<1>1. PhaseIsPlace /\ PhaseIsPlace'
  BY PhaseRead, PhaseReadNext
<1>2. /\ UNCHANGED <<file, knote, batch, main_pc, queue, holding, closed>>
      /\ \A d \in Conn : d # c => peer'[d] = peer[d]
      /\ \A d \in Conn : d # c => (d \in backlog' <=> d \in backlog)
  BY DEF Connect, Speak, HangUp, Abort, kernel, pool, loop, history, IInv, TypeOK
<1>3. \A f \in Fd : Place(f)' = Place(f)
  BY <1>2 DEF Place, Busy, Orphan, Pending, InFlight, Pool!InFlight
<1>4. ASSUME NEW d \in Conn, d # c
      PROVE  Phase(d)' = Phase(d)
  BY <1>1, <1>2, <1>3, <1>4, PhaseStays
<1>5. CASE Connect(c)
  <2>1. peer[c] = "absent" /\ c \in backlog'
    BY <1>5 DEF Connect
  <2>2. Phase(c) = "absent"
    BY <1>1, <2>1 DEF PhaseIsPlace, LifeInv
  <2>3. Phase(c)' = "backlog"
    BY <1>1, <2>1 DEF PhaseIsPlace
  <2>4. Life!Arrive(c)
    BY <1>4, <2>2, <2>3, OneMoves DEF Life!Arrive
  <2> QED
    BY <2>4 DEF LifeStepped, Life!Next
<1>6. CASE Speak(c) \/ HangUp(c) \/ Abort(c)
  <2>1. peer[c] # "absent" /\ peer'[c] # "absent" /\ backlog' = backlog
    BY <1>6 DEF Speak, HangUp, Abort, IInv, TypeOK, LifeInv
  <2>2. Phase(c)' = Phase(c)
    BY <1>1, <1>2, <1>3, <2>1, PhaseStays
  <2>3. AllStay
    BY <1>4, <2>2 DEF AllStay
  <2> QED
    BY <2>3, NoneMoves DEF LifeStepped
<1> QED
  BY <1>5, <1>6

(* kevent and EV_DELETE move nobody.                                       *)
LEMMA WatchingIsNoMove ==
  ASSUME IInv, LifeInv, IInv', LifeInv', Next, Poll \/ DeleteEvent
  PROVE  LifeStepped
<1>1. PhaseIsPlace /\ PhaseIsPlace'
  BY PhaseRead, PhaseReadNext
<1>2. UNCHANGED <<file, peer, backlog, queue, holding, closed>>
  BY DEF Poll, PollReturning, DeleteEvent, clients, pool, history
<1>3. ASSUME NEW f \in Fd
      PROVE  Place(f)' = Place(f)
  <2>1. \A c \in Conn : ~AcceptUnwatched(c, f)
    BY <1>2, OrchestratorAssumption DEF AcceptUnwatched, FreeFds, IInv, TypeOK
  <2>2. ~EnqueueFails
    BY DEF Poll, PollReturning, DeleteEvent, EnqueueFails, Dispatching
  <2>3. (Busy(f)' <=> Busy(f)) /\ (InFlight(f)' <=> InFlight(f))
    BY <1>2 DEF Busy, InFlight, Pool!InFlight
  <2> QED
    BY <1>2, <2>1, <2>2, <2>3, PlaceStays
<1>4. AllStay
  BY <1>1, <1>2, <1>3, PhaseStays DEF AllStay
<1> QED
  BY <1>4, NoneMoves DEF LifeStepped

(* accept moves one connection out of the backlog, or none.                *)
LEMMA AcceptIsLife ==
  ASSUME IInv, LifeInv, IInv', LifeInv', Next,
         NEW c \in Conn, NEW f \in Fd, AcceptConnection(c, f) \/ AcceptUnwatched(c, f)
  PROVE  LifeStepped
<1>1. PhaseIsPlace /\ PhaseIsPlace'
  BY PhaseRead, PhaseReadNext
<1>2. /\ c \in backlog /\ file[f] = None /\ backlog' = backlog \ {c}
      /\ UNCHANGED <<peer, queue, holding, closed>>
      /\ Dispatching /\ Event.ident = Listen
  BY DEF AcceptConnection, AcceptUnwatched, FreeFds, pool, history
<1>3. file'[f] = c /\ \A g \in Fd : g # f => file'[g] = file[g]
  BY DEF AcceptConnection, AcceptUnwatched, IInv, TypeOK
<1>4. \A g \in Fd : file[g] # c
  BY <1>2 DEF LifeInv, Open
<1>5. \A g \in Fd : (Busy(g)' <=> Busy(g)) /\ (InFlight(g)' <=> InFlight(g))
  BY <1>2 DEF Busy, InFlight, Pool!InFlight
<1>6. ASSUME NEW g \in Fd, g # f
      PROVE  Place(g)' = Place(g)
  <2>1. \A d \in Conn : ~AcceptUnwatched(d, g)
    <3> SUFFICES ASSUME NEW d \in Conn, AcceptUnwatched(d, g) PROVE FALSE
      OBVIOUS
    <3>1. file[g] = None /\ file'[g] = d
      BY DEF AcceptUnwatched, FreeFds, IInv, TypeOK
    <3> QED
      BY <1>3, <1>6, <3>1, OrchestratorAssumption
  <2>2. ~EnqueueFails
    BY <1>2 DEF EnqueueFails
  <2> QED
    BY <1>3, <1>5, <1>6, <2>1, <2>2, PlaceStays
<1>7. ASSUME NEW d \in Conn, d # c
      PROVE  Phase(d)' = Phase(d)
  <2>1. d # None
    BY OrchestratorAssumption
  <2>2. \A g \in Fd : file'[g] = d <=> file[g] = d
    BY <1>2, <1>3, <1>7, <2>1
  <2>3. \A g \in Fd : file[g] = d => Place(g)' = Place(g)
    BY <1>2, <1>6, <2>1
  <2> QED
    BY <1>1, <1>2, <1>7, <2>2, <2>3, PhaseStays
<1>8. Phase(c) = "backlog" /\ Phase(c)' = Place(f)'
  BY <1>1, <1>2, <1>3 DEF PhaseIsPlace
<1>9. ~Busy(f)' /\ ~InFlight(f)'
  <2>1. ~InFlight(f) /\ ~Busy(f)
    BY <1>2 DEF IInv, WorkerReadsOwnConnection, InFlight, Pool!InFlight, Busy
  <2> QED
    BY <1>5, <2>1
<1>10. Place(f)' \in {"watched", "lost"} /\ (Orphan(f)' <=> Place(f)' = "lost")
  BY <1>9 DEF Place
<1>11. Orphan(f)' => Faults # {}
  <2>1. CASE AcceptConnection(c, f)
    BY <2>1 DEF AcceptConnection, Orphan, IInv, TypeOK
  <2>2. CASE AcceptUnwatched(c, f)
    BY <2>2 DEF AcceptUnwatched
  <2> QED
    BY <2>1, <2>2
<1>12. Cardinality(Life!In(Life!Held)) < Cardinality(Fd)
  BY <1>2, DescriptorLeft
<1>13. Life!Move(c, "backlog", Place(f)')
  BY <1>7, <1>8, OneMoves
<1>14. Life!Accept(c)
  <2>1. CASE Place(f)' = "watched"
    BY <1>12, <1>13, <2>1, SameCount DEF Life!Accept
  <2>2. CASE Place(f)' = "lost"
    BY <1>10, <1>11, <1>12, <1>13, <2>2, SameCount DEF Life!Accept
  <2> QED
    BY <1>10, <2>1, <2>2
<1> QED
  BY <1>14 DEF LifeStepped, Life!Next

LEMMA RefusalIsLife ==
  ASSUME IInv, LifeInv, IInv', LifeInv', Next, AcceptFails
  PROVE  LifeStepped
<1>1. PhaseIsPlace /\ PhaseIsPlace'
  BY PhaseRead, PhaseReadNext
<1>2. UNCHANGED <<file, knote, peer, queue, holding, closed>> /\ Dispatching /\ Event.ident = Listen
  BY DEF AcceptFails, kernel, pool, history
<1>3. ASSUME NEW f \in Fd
      PROVE  Place(f)' = Place(f)
  <2>1. \A c \in Conn : ~AcceptUnwatched(c, f)
    BY <1>2, OrchestratorAssumption DEF AcceptUnwatched, FreeFds, IInv, TypeOK
  <2>2. ~EnqueueFails
    BY <1>2 DEF EnqueueFails
  <2>3. (Busy(f)' <=> Busy(f)) /\ (InFlight(f)' <=> InFlight(f))
    BY <1>2 DEF Busy, InFlight, Pool!InFlight
  <2> QED
    BY <1>2, <2>1, <2>2, <2>3, PlaceStays
<1>4. ASSUME NEW c \in backlog, peer[c] = "aborted", backlog' = backlog \ {c}
      PROVE  LifeStepped
  <2>1. c \in Conn
    BY <1>4 DEF IInv, TypeOK
  <2>2. ASSUME NEW d \in Conn, d # c
        PROVE  Phase(d)' = Phase(d)
    BY <1>1, <1>2, <1>3, <1>4, <2>2, PhaseStays
  <2>3. Phase(c) = "backlog"
    BY <1>1, <2>1 DEF PhaseIsPlace
  <2>4. c \notin closed' /\ c \notin backlog' /\ ~Open(c)'
    BY <1>2, <1>4 DEF LifeInv, Open
  <2>5. Phase(c)' = "refused"
    BY <1>1, <1>2, <1>4, <2>1, <2>4 DEF PhaseIsPlace
  <2>6. Life!Refuse(c)
    BY <2>1, <2>2, <2>3, <2>5, OneMoves DEF Life!Refuse
  <2> QED
    BY <2>1, <2>6 DEF LifeStepped, Life!Next
<1>5. CASE backlog' = backlog
  <2>1. AllStay
    BY <1>1, <1>2, <1>3, <1>5, PhaseStays DEF AllStay
  <2> QED
    BY <2>1, NoneMoves DEF LifeStepped
<1> QED
  BY <1>4, <1>5 DEF AcceptFails

(* enqueue_task moves the connection of the event, and only that one.      *)
LEMMA EventIsWatched ==
  ASSUME IInv, LifeInv, Dispatching, Event.ident # Listen
  PROVE  /\ Event.ident \in Fd /\ Event.conn \in Conn
         /\ file[Event.ident] = Event.conn
         /\ ~InFlight(Event.ident) /\ ~Busy(Event.ident)
         /\ Phase(Event.conn) = "watched"
<1>1. /\ Event.ident \in Fd /\ Event.conn \in Conn
      /\ file[Event.ident] = Event.conn /\ ~InFlight(Event.ident)
  BY EventIsCurrent DEF IInv
<1>2. ~Busy(Event.ident)
  BY <1>1 DEF Busy, InFlight, Pool!InFlight
<1>3. 1 \in Pending /\ Event = batch[1]
  BY TailEvents, PendingIs DEF IInv, TypeOK, Dispatching, Event
<1>4. ~Orphan(Event.ident)
  BY <1>3 DEF Orphan
<1>5. Place(Event.ident) = "watched"
  BY <1>1, <1>2, <1>4 DEF Place
<1>6. PhaseIsPlace
  BY PhaseRead
<1> QED
  BY <1>1, <1>2, <1>5, <1>6 DEF PhaseIsPlace

LEMMA EnqueueIsLife ==
  ASSUME IInv, LifeInv, IInv', LifeInv', Next, EnqueueEvent \/ EnqueueFails
  PROVE  LifeStepped
<1>1. PhaseIsPlace /\ PhaseIsPlace'
  BY PhaseRead, PhaseReadNext
<1>2. /\ Dispatching /\ Event.ident # Listen
      /\ UNCHANGED <<file, peer, backlog, holding, closed>>
  BY DEF EnqueueEvent, EnqueueFails, kernel, clients, pool, history
<1>a. PICK f \in Fd, c \in Conn : f = Event.ident /\ c = Event.conn
  BY <1>2, EventIsWatched
<1>3. file[f] = c /\ ~InFlight(f) /\ ~Busy(f) /\ Phase(c) = "watched"
  BY <1>2, <1>a, EventIsWatched
<1>4. \A g \in Fd : Busy(g)' <=> Busy(g)
  BY <1>2 DEF Busy
<1>5. \A g \in Fd : g # f => (InFlight(g)' <=> InFlight(g))
  <2>1. CASE EnqueueEvent
    <3>1. queue' = Append(queue, f) /\ UNCHANGED holding
      BY <1>a, <2>1 DEF EnqueueEvent
    <3> QED
      BY <1>3, <3>1, EnqueueGrows DEF IInv
  <2>2. CASE EnqueueFails
    BY <2>2 DEF EnqueueFails, pool, InFlight, Pool!InFlight
  <2> QED
    BY <2>1, <2>2
<1>6. ASSUME NEW g \in Fd, g # f
      PROVE  Place(g)' = Place(g)
  <2>1. \A d \in Conn : ~AcceptUnwatched(d, g)
    BY <1>2 DEF AcceptUnwatched
  <2> QED
    BY <1>2, <1>a, <1>4, <1>5, <1>6, <2>1, PlaceStays
<1>7. ASSUME NEW d \in Conn, d # c
      PROVE  Phase(d)' = Phase(d)
  <2>1. \A g \in Fd : file[g] = d => Place(g)' = Place(g)
    BY <1>3, <1>6, <1>7
  <2> QED
    BY <1>1, <1>2, <2>1, PhaseStays
<1>8. Phase(c)' = Place(f)'
  BY <1>1, <1>2, <1>3 DEF PhaseIsPlace
<1>9. CASE EnqueueEvent
  <2>1. InFlight(f)'
    <3>1. queue' = Append(queue, f) /\ UNCHANGED holding
      BY <1>a, <1>9 DEF EnqueueEvent
    <3> QED
      BY <1>3, <3>1, EnqueueGrows DEF IInv
  <2>2. Phase(c)' = "queued"
    BY <1>3, <1>4, <1>8, <2>1 DEF Place
  <2>3. Life!Queue(c)
    BY <1>3, <1>7, <2>2, OneMoves DEF Life!Queue
  <2> QED
    BY <1>3, <2>3 DEF LifeStepped, Life!Next
<1>10. CASE EnqueueFails
  <2>1. ~InFlight(f)' /\ Faults # {}
    BY <1>3, <1>10 DEF EnqueueFails, pool, InFlight, Pool!InFlight
  <2>2. Phase(c)' \in {"watched", "lost"}
    BY <1>3, <1>4, <1>8, <2>1 DEF Place
  <2>3. CASE Phase(c)' = "lost"
    <3>1. Life!Queue(c)
      BY <1>3, <1>7, <2>1, <2>3, OneMoves DEF Life!Queue
    <3> QED
      BY <1>3, <3>1 DEF LifeStepped, Life!Next
  <2>4. CASE Phase(c)' = "watched"
    <3>1. AllStay
      BY <1>3, <1>7, <2>4 DEF AllStay
    <3> QED
      BY <3>1, NoneMoves DEF LifeStepped
  <2> QED
    BY <2>2, <2>3, <2>4
<1> QED
  BY <1>9, <1>10

(* A worker's take.                                                        *)
LEMMA PullIsLife ==
  ASSUME IInv, LifeInv, IInv', LifeInv', Next, NEW w \in Worker, PullTask(w)
  PROVE  LifeStepped
<1>1. PhaseIsPlace /\ PhaseIsPlace'
  BY PhaseRead, PhaseReadNext
<1>2. /\ Pool!Take(w) /\ UNCHANGED <<file, knote, peer, backlog, batch, main_pc, closed>>
  BY DEF PullTask, kernel, clients, loop, history
<1>a. queue # <<>> /\ holding[w] = None /\ holding' = [holding EXCEPT ![w] = Head(queue)]
  BY <1>2 DEF Pool!Take
<1>b. Len(queue) \in Nat \ {0} /\ Head(queue) = queue[1] /\ queue[1] \in Fd
  BY <1>a, TailTasks DEF IInv, TypeOK
<1>3. PICK f \in Fd : f = queue[1] /\ holding[w] = None /\ holding' = [holding EXCEPT ![w] = f]
  BY <1>a, <1>b
<1>4. \A v \in Worker : holding[v] # f
  BY <1>b, <1>3 DEF IInv, Pool!OnePlace
<1>5. \A g \in Fd : InFlight(g)' <=> InFlight(g)
  BY <1>2, TakeMoves DEF IInv
<1>6. holding'[w] = f /\ \A v \in Worker : v # w => holding'[v] = holding[v]
  BY <1>3 DEF IInv, TypeOK
<1>7. InFlight(f)
  BY <1>b, <1>3 DEF InFlight, Pool!InFlight
<1>8. ~Busy(f) /\ Busy(f)'
  BY <1>4, <1>6 DEF Busy
<1>9. \A g \in Fd : g # f => (Busy(g)' <=> Busy(g))
  BY <1>3, <1>6, OrchestratorAssumption DEF Busy
<1>10. PICK c \in Conn : c = file[f]
  BY <1>7 DEF IInv, TypeOK, WorkerReadsOwnConnection
<1>11. ASSUME NEW g \in Fd, g # f
       PROVE  Place(g)' = Place(g)
  <2>1. Busy(g)' <=> Busy(g)
    BY <1>9, <1>11
  <2>2. InFlight(g)' <=> InFlight(g)
    BY <1>5
  <2>3. Orphan(g)' <=> Orphan(g)
    BY <1>2, <2>2 DEF Orphan, Pending
  <2> QED
    BY <2>1, <2>2, <2>3 DEF Place
<1>12. ASSUME NEW d \in Conn, d # c
       PROVE  Phase(d)' = Phase(d)
  <2>1. \A g \in Fd : file[g] = d => Place(g)' = Place(g)
    BY <1>10, <1>11, <1>12
  <2> QED
    BY <1>1, <1>2, <2>1, PhaseStays
<1>13. Phase(c) = Place(f) /\ Phase(c)' = Place(f)'
  BY <1>1, <1>2, <1>10 DEF PhaseIsPlace
<1>14. Place(f) = "queued" /\ Place(f)' = "processing"
  BY <1>7, <1>8 DEF Place
<1>15. Cardinality(Life!In({"processing"})) < Cardinality(Worker)
  BY <1>3, WorkerLeft
<1>16. Life!Move(c, "queued", "processing")
  BY <1>10, <1>12, <1>13, <1>14, OneMoves
<1>17. Life!Take(c)
  BY <1>15, <1>16, SameCount DEF Life!Take
<1> QED
  BY <1>10, <1>17 DEF LifeStepped, Life!Next

(* A worker's close.                                                       *)
LEMMA CloseIsLife ==
  ASSUME IInv, LifeInv, IInv', LifeInv', Next, NEW w \in Worker, CloseDescriptor(w)
  PROVE  LifeStepped
<1>1. PhaseIsPlace /\ PhaseIsPlace'
  BY PhaseRead, PhaseReadNext
<1>a. Pool!Release(w)
  BY DEF CloseDescriptor
<1>b. PICK f \in Fd : f = holding[w]
  BY <1>a, ReleaseFrees DEF IInv
<1>3. InFlight(f) /\ \A g \in Fd : InFlight(g)' <=> InFlight(g) /\ g # f
  BY <1>a, <1>b, ReleaseFrees DEF IInv
<1>c. PICK c \in Conn : c = file[f]
  BY <1>3 DEF IInv, TypeOK, WorkerReadsOwnConnection
<1>2. /\ UNCHANGED <<peer, backlog, batch, main_pc>>
      /\ file' = [file EXCEPT ![f] = None] /\ knote' = [knote EXCEPT ![f] = "none"]
      /\ closed' = closed \cup {c}
  BY <1>b, <1>c DEF CloseDescriptor, clients, loop
<1>4. c # None
  BY OrchestratorAssumption
<1>5. /\ file'[f] = None /\ \A g \in Fd : g # f => file'[g] = file[g] /\ knote'[g] = knote[g]
  BY <1>2 DEF IInv, TypeOK
<1>6. holding' = [holding EXCEPT ![w] = None] /\ holding \in [Worker -> Fd \cup {None}]
  BY <1>a DEF Pool!Release, IInv, TypeOK
<1>7. Busy(f)
  BY <1>b DEF Busy
<1>8. ASSUME NEW g \in Fd, g # f
      PROVE  Busy(g)' <=> Busy(g)
  <2>1. holding'[w] # g /\ holding[w] # g
    BY <1>b, <1>6, <1>8, OrchestratorAssumption
  <2>2. \A v \in Worker : v # w => holding'[v] = holding[v]
    BY <1>6
  <2> QED
    BY <2>1, <2>2 DEF Busy
<1>9. ASSUME NEW g \in Fd, g # f
      PROVE  Place(g)' = Place(g)
  <2>1. Busy(g)' <=> Busy(g)
    BY <1>8, <1>9
  <2>2. InFlight(g)' <=> InFlight(g)
    BY <1>3, <1>9
  <2>3. Orphan(g)' <=> Orphan(g)
    BY <1>2, <1>5, <1>9, <2>2 DEF Orphan, Pending
  <2> QED
    BY <2>1, <2>2, <2>3 DEF Place
<1>10. ASSUME NEW d \in Conn, d # c
       PROVE  Phase(d)' = Phase(d)
  <2>1. d # None
    BY OrchestratorAssumption
  <2>2. \A g \in Fd : file'[g] = d <=> file[g] = d
    BY <1>5, <1>c, <1>10, <2>1
  <2>3. \A g \in Fd : file[g] = d => Place(g)' = Place(g)
    BY <1>c, <1>9, <1>10
  <2> QED
    BY <1>1, <1>2, <1>10, <2>2, <2>3, PhaseStays
<1>11. Place(f) = "processing" /\ Phase(c) = Place(f)
  BY <1>1, <1>c, <1>7 DEF PhaseIsPlace, Place
<1>12. Phase(c)' = "closed"
  BY <1>1, <1>2 DEF PhaseIsPlace
<1>13. Life!Close(c)
  BY <1>4, <1>10, <1>11, <1>12, OneMoves DEF Life!Close
<1> QED
  BY <1>4, <1>13 DEF LifeStepped, Life!Next

LEMMA StepIsLifeStep ==
  IInv /\ LifeInv /\ IInv' /\ LifeInv' /\ [Next]_vars
    => [Life!Next]_([c \in Conn |-> Phase(c)])
<1> SUFFICES ASSUME IInv, LifeInv, IInv', LifeInv', [Next]_vars PROVE LifeStepped
  BY DEF LifeStepped
<1>1. CASE Next
  BY <1>1, ClientIsLife, WatchingIsNoMove, AcceptIsLife, RefusalIsLife, EnqueueIsLife,
     PullIsLife, CloseIsLife DEF Next, ProcessConnectionEvent, ProcessDataEvent
<1>2. CASE UNCHANGED vars
  <2>1. UNCHANGED <<file, knote, backlog, peer, queue, holding, batch, main_pc, closed>>
    BY <1>2 DEF vars, kernel, clients, pool, loop, history
  <2>2. AllStay
    BY <2>1 DEF AllStay, Phase, Open, Orphan, Pending, InFlight, Pool!InFlight
  <2> QED
    BY <2>2, NoneMoves DEF LifeStepped
<1> QED
  BY <1>1, <1>2

LEMMA LifeKept == IInv /\ LifeInv /\ [Next]_vars => LifeInv'
<1>1. CASE UNCHANGED vars
  BY <1>1 DEF vars, kernel, clients, history, LifeInv, OneDescriptorEach, Open
<1> QED
  BY <1>1, LifeStep

(* Whatever the interleaving of clients, event loop and workers, and       *)
(* whichever calls fail, a connection waits, is accepted while a descriptor *)
(* is left, is watched, queued once, taken by one worker and closed, in    *)
(* that order; it is lost only where a call failed.                        *)
THEOREM ConnectionsLiveAsPromised == Spec => ImplementsLife
<1>1. Spec => []LifeInv
  BY InitLife, LifeKept, Invariance, PTL DEF Spec
<1> QED
  BY <1>1, InitIsLife, StepIsLifeStep, Invariance, PTL DEF Spec, ImplementsLife, Life!Spec
=============================================================================
