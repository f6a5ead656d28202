---------------------------------- MODULE Boot ----------------------------------
(***************************************************************************)
(* main: boot_server, start_processing and init_thread_handler down to the *)
(* poll loop, and the way back out through free_thread_memory, while the   *)
(* workers that were already created run.  Every call to the system may    *)
(* fail.                                                                   *)
(***************************************************************************)
EXTENDS ConfigurationHandler

CONSTANTS Files,           \* configuration files: sequences of characters
          Cores,           \* what sysctl may report for hw.perflevel0.physicalcpu
          MaxAddresses,    \* getaddrinfo's longest list
          SizeOfSizeT,     \* sizeof(size_t), the bytes of port_string
          MaxTasks         \* bound: descriptors enqueued by the poll loop

ASSUME BootAssumption == /\ Files \subseteq Seq(Nat)
                         /\ Cores \subseteq Nat
                         /\ MaxAddresses \in Nat /\ MaxTasks \in Nat
                         /\ SizeOfSizeT \in Nat \ {0}

VARIABLES
  pc,              \* what main's thread does next
  file,            \* what the configuration file holds
  position,        \* characters of it that fgets has taken
  line,            \* _parse_configuration's buffer
  config,
  port_string,     \* config.port for getaddrinfo, <<>> before
  addresses,       \* "none", "held" or "freed": getaddrinfo's list
  candidates,      \* addresses find_bind has not tried
  socket_descriptor,    \* the address it is bound to, 0 before
  listening,
  threads, queue_head,  \* "none", "held" or "freed"
  cursor,          \* entries of threads that init_thread_handler has filled
  created,         \* workers running
  num_connections,
  tasks,           \* enqueued so far
  fault            \* what happened that is undefined, or "none"

text == <<file, position, line>>
net  == <<port_string, addresses, candidates, socket_descriptor, listening>>
pool == <<threads, queue_head, cursor, created>>
work == <<num_connections, tasks>>
vars == <<pc, text, config, net, pool, work, fault>>

Init == /\ pc = "configuration"
        /\ file \in Files /\ position = 0
        /\ line = [i \in 1..MaxFieldLength |-> Nul]
        /\ config = Defaults
        /\ port_string = <<>> /\ addresses = "none" /\ candidates = 0
        /\ socket_descriptor = 0 /\ listening = FALSE
        /\ threads = "none" /\ queue_head = "none" /\ cursor = 0 /\ created = 0
        /\ num_connections = 0 /\ tasks = 0
        /\ fault = "none"

At(p)     == pc = p /\ fault = "none"
Goto(p)   == pc' = p
Fail      == Goto("free_threads")     \* main gives up

-----------------------------------------------------------------------------
(* boot_server: initialize_configuration                                   *)
Rest == SubSeq(file, position + 1, Len(file))

ReadLine ==
  /\ At("configuration") /\ Rest # <<>>
  /\ line' = Fgets(Rest, line)
  /\ position' = position + Taken(Rest)
  /\ \/ Skipped(line') /\ UNCHANGED <<pc, config>>
     \/ /\ ~Skipped(line')
        /\ LET named == Named(line')
           IN  \E v \in ParseLine(line') :
                 IF v = Refused THEN Fail /\ UNCHANGED config
                 ELSE /\ config' = [f \in Fields |-> IF f \in named THEN v ELSE config[f]]
                      /\ UNCHANGED pc
  /\ UNCHANGED <<file, net, pool, work, fault>>

(* The end of the file, or a file or folder that is not there; then the    *)
(* number of performance cores replaces whatever num_cores was.            *)
FetchCores ==
  /\ At("configuration") /\ Rest = <<>>
  /\ \/ Fail /\ UNCHANGED config
     \/ /\ \E n \in Cores : config' = [config EXCEPT !.num_cores = n]
        /\ Goto("addresses")
  /\ UNCHANGED <<text, net, pool, work, fault>>

(* get_local_addresses: port_string, which malloc may refuse and the port  *)
(* overrun, then getaddrinfo.                                              *)
GetLocalAddresses ==
  /\ At("addresses")
  /\ \/ fault' = "port_string" /\ UNCHANGED <<pc, port_string, addresses, candidates>>
     \/ /\ port_string' = size_t_to_string(config.port)
        /\ IF Len(port_string') > SizeOfSizeT
             THEN fault' = "port_string" /\ UNCHANGED <<pc, addresses, candidates>>
             ELSE /\ UNCHANGED fault
                  /\ \/ Fail /\ UNCHANGED <<addresses, candidates>>
                     \/ /\ candidates' \in 1..MaxAddresses
                        /\ addresses' = "held" /\ Goto("bind")
  /\ UNCHANGED <<text, config, socket_descriptor, listening, pool, work>>

(* find_bind                                                               *)
Bind == /\ At("bind") /\ candidates > 0
        /\ socket_descriptor' = candidates /\ Goto("listen")
        /\ UNCHANGED <<text, config, port_string, addresses, candidates, listening, pool, work, fault>>

(* Mutant: after the last address the first is tried again.                *)
BindForever == /\ At("bind")
               /\ candidates' = IF candidates > 1 THEN candidates - 1 ELSE MaxAddresses
               /\ UNCHANGED <<pc, text, config, port_string, addresses, socket_descriptor, listening,
                              pool, work, fault>>

BindFails == /\ At("bind")
             /\ IF candidates > 0 THEN candidates' = candidates - 1 /\ UNCHANGED pc
                ELSE Fail /\ UNCHANGED candidates
             /\ UNCHANGED <<text, config, port_string, addresses, socket_descriptor, listening,
                            pool, work, fault>>

(* listen, and the end of boot_server: bound_address now dangles.          *)
Listen == /\ At("listen")
          /\ \/ Fail /\ UNCHANGED <<listening, addresses>>
             \/ listening' = TRUE /\ addresses' = "freed" /\ Goto("threads")
          /\ UNCHANGED <<text, config, port_string, candidates, socket_descriptor, pool, work, fault>>

-----------------------------------------------------------------------------
(* start_processing: init_thread_handler                                   *)
AllocateThreads ==
  /\ At("threads")
  /\ \/ Fail /\ UNCHANGED threads
     \/ threads' = "held" /\ Goto("create")
  /\ UNCHANGED <<text, config, net, queue_head, cursor, created, work, fault>>

(* pthread_create says by a positive number that it failed, which          *)
(* validate_syscall takes for success.  What is left is the -1 put into    *)
(* thread_id before, and nothing says what a failed call leaves there:     *)
(* still the -1, and the pool is given up, or anything else, and init goes *)
(* on with an entry that is no thread.                                     *)
CreateThread ==
  /\ At("create") /\ cursor < config.num_cores
  /\ \/ /\ cursor' = cursor + 1 /\ created' \in {created, created + 1}
        /\ UNCHANGED <<pc, threads>>
     \/ threads' = "freed" /\ Fail /\ UNCHANGED <<cursor, created>>
  /\ UNCHANGED <<text, config, net, queue_head, work, fault>>

(* Mutant: nobody asks whether calloc returned a queue.                    *)
QueueUntested ==
  /\ At("create") /\ cursor = config.num_cores
  /\ queue_head' \in {"none", "held"} /\ Goto("kqueue")
  /\ UNCHANGED <<text, config, net, threads, cursor, created, work, fault>>

AllocateQueue ==
  /\ At("create") /\ cursor = config.num_cores
  /\ \/ queue_head' = "held" /\ Goto("kqueue") /\ UNCHANGED threads
     \/ threads' = "freed" /\ Fail /\ UNCHANGED queue_head
  /\ UNCHANGED <<text, config, net, cursor, created, work, fault>>

(* kqueue() and the subscription to the listening socket.                  *)
Kqueue ==
  /\ At("kqueue")
  /\ Fail \/ Goto("poll")
  /\ UNCHANGED <<text, config, net, pool, work, fault>>

(* poll_events hands a descriptor on, or fails and so ends the server.     *)
Poll ==
  /\ At("poll")
  /\ \/ Fail /\ UNCHANGED work
     \/ /\ tasks < MaxTasks /\ tasks' = tasks + 1
        /\ num_connections' = num_connections + 1
        /\ UNCHANGED pc
  /\ UNCHANGED <<text, config, net, pool, fault>>

-----------------------------------------------------------------------------
(* Mutant: a worker looks at the queue without looking at the count.       *)
WorkerLooks ==
  /\ pc # "exit" /\ fault = "none" /\ created > 0
  /\ IF queue_head = "held"
       THEN num_connections > 0 /\ num_connections' = num_connections - 1 /\ UNCHANGED fault
       ELSE fault' = "no_queue" /\ UNCHANGED num_connections
  /\ UNCHANGED <<pc, text, config, net, pool, tasks>>

(* One of the workers pulls a task through queue_head; process exit ends   *)
(* them all.                                                               *)
WorkerPulls ==
  /\ pc # "exit" /\ fault = "none" /\ created > 0 /\ num_connections > 0
  /\ IF queue_head = "held"
       THEN num_connections' = num_connections - 1 /\ UNCHANGED fault
       ELSE fault' = "no_queue" /\ UNCHANGED num_connections
  /\ UNCHANGED <<pc, text, config, net, pool, tasks>>

-----------------------------------------------------------------------------
(* main: free_thread_memory, whose pointers no failure has reset.          *)
FreeThreads ==
  /\ At("free_threads")
  /\ CASE threads = "none"  -> Goto("free_queue") /\ UNCHANGED <<threads, fault>>
       [] threads = "held"  -> threads' = "freed" /\ Goto("free_queue") /\ UNCHANGED fault
       [] threads = "freed" -> fault' = "double_free" /\ UNCHANGED <<pc, threads>>
  /\ UNCHANGED <<text, config, net, queue_head, cursor, created, work>>

FreeQueue ==
  /\ At("free_queue")
  /\ queue_head' = IF queue_head = "held" THEN "freed" ELSE queue_head
  /\ Goto("return")
  /\ UNCHANGED <<text, config, net, threads, cursor, created, work, fault>>

(* main returns, and with it the process and every worker end.             *)
Exit == /\ At("return") /\ Goto("exit")
        /\ UNCHANGED <<text, config, net, pool, work, fault>>

Main == \/ ReadLine \/ FetchCores \/ GetLocalAddresses \/ Bind \/ BindFails \/ Listen
        \/ AllocateThreads \/ CreateThread \/ AllocateQueue \/ Kqueue
        \/ FreeThreads \/ FreeQueue \/ Exit

Next == Main \/ Poll \/ WorkerPulls

Spec == Init /\ [][Next]_vars

(* main's thread runs.  Nothing makes the poll loop fail or clients come.  *)
FairSpec == Spec /\ WF_vars(Main)
-----------------------------------------------------------------------------
Held == {"none", "held", "freed"}

TypeOK ==
  /\ pc \in {"configuration", "addresses", "bind", "listen", "threads", "create",
             "kqueue", "poll", "free_threads", "free_queue", "return", "exit"}
  /\ config \in [Fields -> Nat]
  /\ position \in 0..Len(file) /\ Len(line) = MaxFieldLength
  /\ addresses \in Held /\ threads \in Held /\ queue_head \in Held
  /\ candidates \in 0..MaxAddresses
  /\ socket_descriptor \in 0..MaxAddresses
  /\ listening \in BOOLEAN
  /\ cursor \in 0..config.num_cores /\ created \in 0..cursor
  /\ num_connections \in 0..tasks /\ tasks \in 0..MaxTasks
  /\ fault \in {"none", "port_string", "double_free", "no_queue"}

(* The file is the configuration (configuration_handler.c:66, 87, 117):    *)
(* when an ordinary file has been read, every field but num_cores is what  *)
(* the last line that gives it says, or its default, whatever the other    *)
(* lines left behind in the buffer; and no file at all makes a field 0     *)
(* (configuration_handler.c:144, "values must all be positive non-zero     *)
(* integer types").  num_cores is always what sysctl says.                 *)
ConfigIsItsLines ==
  \A f \in Fields \ {"num_cores"} :
    /\ config[f] > 0
    /\ pc = "addresses" /\ Ordinary(file) => config[f] = Said(file, f)

(* The server polls only when all it touches is there: a bound socket that *)
(* listens, found by the digits of the configured port, a queue, and an    *)
(* entry of the thread array for every core.  How many of these entries    *)
(* are workers it cannot know (CreateThread): when it polls with fewer, or *)
(* with none, a descriptor it hands on may wait for ever, but nothing that *)
(* is missing is touched, and no task is pulled without a worker.          *)
ServingIsReady ==
  pc = "poll" => /\ listening /\ socket_descriptor > 0 /\ addresses = "freed"
                 /\ Decimal(Before(port_string, {Nul})) = config.port
                 /\ threads = "held" /\ queue_head = "held"
                 /\ cursor = config.num_cores
                 /\ fault = "none"
                 /\ created = 0 => num_connections = tasks

(* Workers start before queue_head is allocated, and still run when main   *)
(* frees it.  The count keeps them off until it is there; they meet it     *)
(* freed only while main returns from a failed poll loop with descriptors  *)
(* still queued.  And the thread array is freed twice only if the pool was *)
(* never completed: a server that has served gives each block back once.   *)
CleanUpFaults ==
  /\ fault = "no_queue" => pc = "return" /\ queue_head = "freed" /\ num_connections > 0
  /\ fault = "double_free" => queue_head = "none" /\ tasks = 0

(* Boot ends, one way or the other.                                        *)
BootEnds == <>(pc \in {"poll", "exit"} \/ fault # "none")
=============================================================================
