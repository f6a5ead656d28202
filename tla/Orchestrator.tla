----------------------------- MODULE Orchestrator -----------------------------
(***************************************************************************)
(* The event loop of orchestrator.c with accept_connection, the kernel's   *)
(* descriptor table and kqueue, the workers that close descriptors, and    *)
(* the clients.                                                            *)
(*                                                                         *)
(* Descriptors are small integers the kernel reuses as soon as a worker    *)
(* closes one, and events, tasks and kqueue registrations name a           *)
(* connection by descriptor only.  The properties say that the name never  *)
(* outlives the connection it was given for.  The pool is the abstract one *)
(* of WorkPool, which ThreadPool implements.                               *)
(***************************************************************************)
EXTENDS Integers, Sequences, FiniteSets

CONSTANTS
  Fd,           \* descriptors left for connections
  Conn,         \* connections that clients open, each at most once
  Worker,
  Listen,       \* the listening socket
  None,         \* no descriptor, no connection
  MaxEvents,    \* MAX_EVENTS
  Faults        \* calls that may fail although a descriptor is free

ASSUME OrchestratorAssumption ==
  /\ Listen \notin Fd /\ None \notin Fd /\ None \notin Conn
  /\ IsFiniteSet(Fd) /\ IsFiniteSet(Worker)
  /\ MaxEvents \in Nat \ {0}
  /\ Faults \subseteq {"setsockopt", "ev_add", "enqueue"}

VARIABLES
  file,         \* the descriptor table: descriptor -> connection
  knote,        \* the kqueue's registration of each descriptor
  backlog,      \* connections completed but not accepted
  peer,         \* what each client has done
  batch,        \* events[cursor..num_events-1] of poll_events
  main_pc,      \* "loop", or "delete": EV_DELETE is next for Head(batch)
  queue, holding, \* the pool
  ticket,       \* history: the connection an in-flight descriptor was queued for
  closed        \* history: connections that were processed and closed

kernel == <<file, knote>>
clients == <<backlog, peer>>
pool == <<queue, holding>>
loop == <<batch, main_pc>>
history == <<ticket, closed>>
vars == <<kernel, clients, pool, loop, history>>

Pool == INSTANCE WorkPool WITH Descriptors <- Fd, NoTask <- None

Init ==
  /\ file = [f \in Fd |-> None]
  /\ knote = [f \in Fd |-> "none"]
  /\ backlog = {}
  /\ peer = [c \in Conn |-> "absent"]
  /\ batch = <<>>
  /\ main_pc = "loop"
  /\ Pool!Init
  /\ ticket = [f \in Fd |-> None]
  /\ closed = {}

-----------------------------------------------------------------------------
(* Clients                                                                 *)

Connect(c) ==
  /\ peer[c] = "absent"
  /\ peer' = [peer EXCEPT ![c] = "silent"]
  /\ backlog' = backlog \cup {c}
  /\ UNCHANGED <<kernel, pool, loop, history>>

(* The request, or a part of it, arrives.                                  *)
Speak(c) ==
  /\ peer[c] = "silent"
  /\ peer' = [peer EXCEPT ![c] = "data"]
  /\ UNCHANGED <<kernel, backlog, pool, loop, history>>

HangUp(c) ==
  /\ peer[c] \in {"silent", "data"}
  /\ peer' = [peer EXCEPT ![c] = "eof"]
  /\ UNCHANGED <<kernel, backlog, pool, loop, history>>

(* A reset before accept: the kernel keeps the entry and accept reports it. *)
Abort(c) ==
  /\ c \in backlog /\ peer[c] # "aborted"
  /\ peer' = [peer EXCEPT ![c] = "aborted"]
  /\ UNCHANGED <<kernel, backlog, pool, loop, history>>

-----------------------------------------------------------------------------
(* poll_events                                                             *)

Readable(f) == file[f] # None /\ peer[file[f]] \in {"data", "eof"}

(* Mutant: a disabled registration is still reported (EV_CLEAR, say).      *)
ReadyAgain == {f \in Fd : knote[f] # "none" /\ Readable(f)}
              \cup (IF backlog # {} THEN {Listen} ELSE {})

(* The listening socket is registered without EV_DISPATCH: it is reported  *)
(* for as long as a connection waits.                                      *)
Ready == {f \in Fd : knote[f] = "armed" /\ Readable(f)}
         \cup (IF backlog # {} THEN {Listen} ELSE {})

EventFor(x) ==
  IF x = Listen THEN [ident |-> Listen, eof |-> FALSE, conn |-> None]
  ELSE [ident |-> x, eof |-> peer[file[x]] = "eof", conn |-> file[x]]

(* Mutant: connections are registered without EV_DISPATCH.                 *)
PollKeepsArmed(x) ==
  /\ main_pc = "loop" /\ batch = <<>>
  /\ batch' = <<EventFor(x)>>
  /\ UNCHANGED <<kernel, clients, pool, main_pc, history>>

(* kevent returns what is ready, MAX_EVENTS at most, in any order; EV_DISPATCH *)
(* disables each connection's registration as its event is delivered.      *)
PollReturning(x) ==
  /\ main_pc = "loop" /\ batch = <<>>
  /\ \E n \in 1..MaxEvents : \E s \in [1..n -> Ready] :
       /\ \A i, j \in 1..n : s[i] = s[j] => i = j
       /\ n = MaxEvents \/ \A y \in Ready : \E i \in 1..n : s[i] = y
       /\ \E i \in 1..n : s[i] = x
       /\ batch' = [i \in 1..n |-> EventFor(s[i])]
       /\ knote' = [f \in Fd |-> IF \E i \in 1..n : s[i] = f THEN "disabled"
                                                              ELSE knote[f]]
  /\ UNCHANGED <<file, clients, pool, main_pc, history>>

Poll == \E x \in Ready : PollReturning(x)

(* The event being processed.                                              *)
Event == Head(batch)
Dispatching == main_pc = "loop" /\ batch # <<>>
NextEvent == batch' = Tail(batch) /\ UNCHANGED main_pc

-----------------------------------------------------------------------------
(* process_connection_event and accept_connection                          *)

FreeFds == {f \in Fd : file[f] = None}

(* Mutants: the connection is registered disabled, or the handler does not *)
(* return after one accept.                                                *)
AcceptAs(c, f, registration, rest) ==
  /\ Dispatching /\ Event.ident = Listen
  /\ c \in backlog /\ peer[c] # "aborted" /\ f \in FreeFds
  /\ file' = [file EXCEPT ![f] = c]
  /\ knote' = [knote EXCEPT ![f] = registration]
  /\ backlog' = backlog \ {c}
  /\ batch' = rest
  /\ UNCHANGED <<main_pc, peer, pool, history>>
AcceptDisabled(c, f) == AcceptAs(c, f, "disabled", Tail(batch))
AcceptTwice(c, f)    == AcceptAs(c, f, "armed", batch)

(* Mutant: the new connection goes to a worker at once.                    *)
AcceptEnqueues(c, f) ==
  /\ Dispatching /\ Event.ident = Listen
  /\ c \in backlog /\ peer[c] # "aborted" /\ f \in FreeFds
  /\ file' = [file EXCEPT ![f] = c]
  /\ knote' = [knote EXCEPT ![f] = "disabled"]
  /\ backlog' = backlog \ {c}
  /\ queue' = Append(queue, f)
  /\ ticket' = [ticket EXCEPT ![f] = c]
  /\ NextEvent
  /\ UNCHANGED <<peer, holding, closed>>

(* accept, setsockopt and EV_ADD | EV_DISPATCH succeed.                    *)
AcceptConnection(c, f) ==
  /\ Dispatching /\ Event.ident = Listen
  /\ c \in backlog /\ peer[c] # "aborted"
  /\ f \in FreeFds
  /\ file' = [file EXCEPT ![f] = c]
  /\ knote' = [knote EXCEPT ![f] = "armed"]
  /\ backlog' = backlog \ {c}
  /\ NextEvent
  /\ UNCHANGED <<peer, pool, history>>

(* accept returns a descriptor; setsockopt (connection_handler.c:125-133)  *)
(* or kevent (orchestrator.c:161-165) fails, and the handler returns.      *)
AcceptUnwatched(c, f) ==
  /\ Dispatching /\ Event.ident = Listen
  /\ c \in backlog /\ peer[c] # "aborted"
  /\ f \in FreeFds
  /\ Faults \cap {"setsockopt", "ev_add"} # {}
  /\ file' = [file EXCEPT ![f] = c]
  /\ backlog' = backlog \ {c}
  /\ NextEvent
  /\ UNCHANGED <<knote, peer, pool, history>>

(* accept returns -1: the connection was aborted and is gone, or there is  *)
(* no descriptor for it and it stays in the backlog.                       *)
AcceptFails ==
  /\ Dispatching /\ Event.ident = Listen
  /\ \/ \E c \in backlog : peer[c] = "aborted" /\ backlog' = backlog \ {c}
     \/ FreeFds = {} /\ backlog # {} /\ UNCHANGED backlog
  /\ NextEvent
  /\ UNCHANGED <<kernel, peer, pool, history>>

ProcessConnectionEvent ==
  \/ \E c \in Conn, f \in Fd : AcceptConnection(c, f) \/ AcceptUnwatched(c, f)
  \/ AcceptFails

-----------------------------------------------------------------------------
(* process_data_event                                                      *)

(* Mutants: the listening socket's events are queued as well, or the       *)
(* registration is enabled again at once.                                  *)
EnqueueAs(guard, registrations) ==
  /\ Dispatching /\ guard
  /\ queue' = Append(queue, Event.ident)
  /\ ticket' = [f \in Fd |-> IF f = Event.ident THEN Event.conn ELSE ticket[f]]
  /\ knote' = registrations
  /\ NextEvent
  /\ UNCHANGED <<file, clients, holding, closed>>
EnqueueAny    == EnqueueAs(TRUE, knote)
EnqueueRearms == EnqueueAs(Event.ident # Listen, [knote EXCEPT ![Event.ident] = "armed"])

(* enqueue_task succeeds; EV_EOF leads on to the deletion.                 *)
EnqueueEvent ==
  /\ Dispatching /\ Event.ident # Listen
  /\ queue' = Append(queue, Event.ident)
  /\ ticket' = [ticket EXCEPT ![Event.ident] = Event.conn]
  /\ IF Event.eof THEN main_pc' = "delete" /\ UNCHANGED batch ELSE NextEvent
  /\ UNCHANGED <<kernel, clients, holding, closed>>

(* enqueue_task fails: the handler returns before it looks at EV_EOF.      *)
EnqueueFails ==
  /\ Dispatching /\ Event.ident # Listen
  /\ "enqueue" \in Faults
  /\ NextEvent
  /\ UNCHANGED <<kernel, clients, pool, history>>

(* Mutant: the connection is closed with its registration.                 *)
DeleteCloses ==
  /\ main_pc = "delete"
  /\ knote' = [knote EXCEPT ![Event.ident] = "none"]
  /\ file' = [file EXCEPT ![Event.ident] = None]
  /\ main_pc' = "loop"
  /\ batch' = Tail(batch)
  /\ UNCHANGED <<clients, pool, history>>

(* EV_DELETE; its result is ignored, a worker may have closed the          *)
(* descriptor and with it the registration.                                *)
DeleteEvent ==
  /\ main_pc = "delete"
  /\ knote' = [knote EXCEPT ![Event.ident] = "none"]
  /\ main_pc' = "loop"
  /\ batch' = Tail(batch)
  /\ UNCHANGED <<file, clients, pool, history>>

ProcessDataEvent == EnqueueEvent \/ EnqueueFails \/ DeleteEvent

-----------------------------------------------------------------------------
(* The workers                                                             *)

PullTask(w) == /\ Pool!Take(w)
               /\ UNCHANGED <<kernel, clients, loop, history>>

(* Mutant: a path through thread_runner does not close the descriptor.     *)
CloseForgotten(w) == /\ Pool!Release(w)
                     /\ UNCHANGED <<kernel, clients, loop, history>>

(* The request is read from whatever the descriptor names by now, and      *)
(* close() frees the descriptor and drops its registration.                *)
CloseDescriptor(w) ==
  LET f == holding[w]
  IN  /\ Pool!Release(w)
      /\ file' = [file EXCEPT ![f] = None]
      /\ knote' = [knote EXCEPT ![f] = "none"]
      /\ closed' = closed \cup {file[f]}
      /\ UNCHANGED <<clients, loop, ticket>>

-----------------------------------------------------------------------------
Next ==
  \/ \E c \in Conn : Connect(c) \/ Speak(c) \/ HangUp(c) \/ Abort(c)
  \/ Poll \/ ProcessConnectionEvent \/ ProcessDataEvent
  \/ \E w \in Worker : PullTask(w) \/ CloseDescriptor(w)

Spec == Init /\ [][Next]_vars

(* The loop keeps running and kevent starves no registration that is ready *)
(* over and over; the pool keeps WorkPool's promises.  Clients owe nothing. *)
Fairness ==
  /\ \A x \in Fd \cup {Listen} : SF_vars(PollReturning(x))
  /\ WF_vars(ProcessConnectionEvent \/ ProcessDataEvent)
  /\ WF_vars(\E w \in Worker : PullTask(w))
  /\ \A w \in Worker : WF_vars(CloseDescriptor(w))

FairSpec == Spec /\ Fairness
-----------------------------------------------------------------------------
Events == [ident : Fd \cup {Listen}, eof : BOOLEAN, conn : Conn \cup {None}]

TypeOK ==
  /\ file \in [Fd -> Conn \cup {None}]
  /\ knote \in [Fd -> {"none", "armed", "disabled"}]
  /\ backlog \in SUBSET Conn
  /\ peer \in [Conn -> {"absent", "silent", "data", "eof", "aborted"}]
  /\ batch \in Seq(Events)
  /\ main_pc \in {"loop", "delete"}
  /\ queue \in Seq(Fd)
  /\ holding \in [Worker -> Fd \cup {None}]
  /\ ticket \in [Fd -> Conn \cup {None}]
  /\ closed \in SUBSET (Conn \cup {None})

InFlight(f) == Pool!InFlight(f)

(* The events of the batch that have not been acted on yet.                *)
Pending == (IF main_pc = "delete" THEN 2 ELSE 1)..Len(batch)

(* An event that waits its turn in the batch still means what it meant     *)
(* when kevent returned it, although workers close descriptors and accepts *)
(* reuse them meanwhile: its descriptor is the same connection, disabled,  *)
(* and in nobody else's hands.                                             *)
BatchIsCurrent ==
  /\ \A i, j \in 1..Len(batch) : batch[i].ident = batch[j].ident => i = j
  /\ \A i \in Pending :
       LET e == batch[i]
       IN  e.ident # Listen =>
             /\ e.conn # None /\ file[e.ident] = e.conn
             /\ knote[e.ident] = "disabled"
             /\ ~InFlight(e.ident)

(* A worker reads from, and closes, the connection whose event put its     *)
(* descriptor into the queue, never one that reuses the number.            *)
WorkerReadsOwnConnection ==
  \A f \in Fd : InFlight(f) => file[f] # None /\ file[f] = ticket[f]

(* A connection in flight is never reported again: process_data_event      *)
(* cannot queue a descriptor twice, and EV_DELETE after the enqueue finds  *)
(* the event's own registration, still disabled, or none.                  *)
InFlightIsUnwatched ==
  /\ \A f \in Fd : InFlight(f) => knote[f] # "armed"
  /\ main_pc = "delete" =>
       /\ batch # <<>> /\ Event.ident \in Fd
       /\ knote[Event.ident] # "armed"
       /\ knote[Event.ident] # "none" => file[Event.ident] = Event.conn

(* accept is called on a blocking socket: when the event of the listening  *)
(* socket has its turn there is still a connection to accept, so the loop  *)
(* never blocks anywhere but in kevent (orchestrator.c:81).                *)
AcceptNeverBlocks ==
  \A i \in 1..Len(batch) : batch[i].ident = Listen => backlog # {}

(* No connection is closed on a client that has neither sent anything nor  *)
(* hung up: it is not given up for being slow, and none of the deletions,  *)
(* reused descriptors and late events ever puts it into a worker's hands.  *)
(* The price is that a silent client keeps its descriptor for ever:        *)
(* there is no timeout before thread_runner has its task.                  *)
Heard(c) == peer[c] \notin {"absent", "silent"}

NobodyCutOff == \A c \in Conn : c \in closed => Heard(c)

(* An open descriptor that is neither watched, nor reported, nor queued,   *)
(* nor processed: nobody will ever close it.                               *)
Orphan(f) ==
  /\ file[f] # None
  /\ knote[f] # "armed"
  /\ ~InFlight(f)
  /\ \A i \in Pending : batch[i].ident # f

(* Every descriptor accept returned has an owner.  With failing calls this *)
(* does not hold: orchestrator.c:151-152, on a failed accept_connection,   *)
(* "no need to close connection here, it was never instantiated", is wrong *)
(* when it was setsockopt that failed (connection_handler.c:125-133).      *)
NoOrphans == \A f \in Fd : ~Orphan(f)

(* What a failed setsockopt, EV_ADD or enqueue_task leaves behind is lost  *)
(* for the life of the process, and disturbs no other connection.          *)
OrphansStay == [][\A f \in Fd : Orphan(f) => Orphan(f)' /\ file'[f] = file[f]]_vars

(* A descriptor loses its owner only in the very step of a failing call,   *)
(* and then it is the descriptor that call was about.                      *)
OnlyFaultsOrphan ==
  [][\A f \in Fd : ~Orphan(f) /\ Orphan(f)' =>
       \/ \E c \in Conn : AcceptUnwatched(c, f)
       \/ EnqueueFails /\ f = Event.ident]_vars

Open(c) == \E f \in Fd : file[f] = c

(* Every accepted client that sends data or hangs up is eventually         *)
(* processed and its connection closed.                                    *)
SpeakerIsServed ==
  \A c \in Conn : Open(c) /\ peer[c] # "silent" ~> c \in closed

(* If no accepted client stays silent for ever, every connection leaves    *)
(* the backlog, however few descriptors there are.                         *)
BacklogDrains ==
  (\A c \in Conn : []<>~(Open(c) /\ peer[c] = "silent"))
    => \A c \in Conn : []<>(c \notin backlog)

(* The event loop submits a descriptor only when it is nowhere in the pool, *)
(* which is what the pool's own properties rest on.                        *)
ImplementsPool == Pool!Spec

(* Where each connection is, by the state of its descriptor.               *)
Phase(c) ==
  IF c \in closed THEN "closed"
  ELSE IF c \in backlog THEN "backlog"
  ELSE IF ~Open(c) THEN IF peer[c] = "absent" THEN "absent" ELSE "refused"
  ELSE LET f == CHOOSE f \in Fd : file[f] = c
       IN  IF \E w \in Worker : holding[w] = f THEN "processing"
           ELSE IF InFlight(f) THEN "queued"
           ELSE IF Orphan(f) THEN "lost" ELSE "watched"

Life == INSTANCE ConnectionLife
          WITH phase    <- [c \in Conn |-> Phase(c)],
               Capacity <- Cardinality(Fd),
               Workers  <- Cardinality(Worker),
               Lossy    <- Faults # {}

(* Descriptors, registrations, events and tasks together give every        *)
(* connection the life ConnectionLife describes.                           *)
ImplementsLife == Life!Spec
=============================================================================
