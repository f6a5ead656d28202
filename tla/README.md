# A verification project for orb-weaver

orb-weaver is the beginning of a reverse proxy: one thread runs a kqueue event
loop that accepts connections and turns "this descriptor is readable" into
tasks, and a pool of POSIX threads takes the tasks, reads one request from the
descriptor, parses it and closes the descriptor. This directory holds TLA+
models of that program, TLC configurations that check them on small instances,
and theorems about them checked by TLAPS for every value of their constants.

Source paths below are relative to `src/orb-weaver/`.

## 1. The system

| part | files | state | operations |
|---|---|---|---|
| orchestrator | `services/orchestration/orchestrator` | the kqueue, the batch of events being processed | `boot_server`, `start_processing`, `poll_events`, `process_connection_event`, `process_data_event` |
| thread pool | `services/orchestration/thread-handler` | `thread_lock`, `enqueue_lock`, `thread_lock_available`, `num_connections`, `threads` | `init_thread_handler`, `thread_runner`, `enqueue_task`, `_pull_next_task`, `free_thread_memory` |
| task queue | the same file, `types/thread-types` | `queue_head`, `queue_tail`, the list of `connection_instance` | the bodies of `enqueue_task` and `_pull_next_task` |
| request reader | the same file, `receive_data` of the connection handler | receive buffer, byte counts | `_process_request`, `_get_request_headers`, `_get_request_contents` |
| connection handler | `services/tcp/connection-handler` | the listening socket | `find_bind`, `find_listen`, `accept_connection`, `receive_data`; uncalled: `find_connection`, `close_connection`, `send_data`, ... |
| host resolver | `services/tcp/host-resolver` | none | `get_local_addresses` |
| HTTP handler | `services/http/http-handler`, `types/http-types` | the request being parsed | `process_http_request` and its validators, `allocate_http_request`, `free_http_request` |
| hash tools | `utilities/hash-tools` | an open-addressing table | allocate, add, fetch, remove, free |
| configuration | `configuration/parsers/configuration-handler` | `config` | `initialize_configuration` |
| main | `main.c` | none | boot, run, clean up |
| dynamic router, routing parser | `services/http/dynamic-router`, `configuration/parsers/routing-parser` | routes | unfinished: neither compiles |
| string tools, error handler, logging | `utilities`, `services/logging` | none | helpers |

How they interact:

- The loop and the workers share the task queue (under `enqueue_lock`), the
  counter `num_connections` (written under `enqueue_lock`, tested under
  `thread_lock`) and the condition variable (signalled under no lock).
- They also share the kernel's descriptor table. A worker's `close` frees a
  number that the loop's next `accept` may return while events that name that
  number still wait in the loop's batch. Nothing in the program ties a number
  to a connection; the one-shot registration (`EV_DISPATCH`) does so indirectly.
- A worker depends on its client only within `recv`, bounded by `SO_RCVTIMEO`.
- `main` starts the workers before the queue exists, and frees thread array and
  queue while they run.

What is hard here: the interleaving of the two locks and the signal; pointers
into freed nodes; reuse of descriptors; calls that fail half-way through a
handler; the portions in which a request arrives; clean-up in a process whose
threads go on; and probing that must visit every slot exactly once. The list,
with lines, is `hazards` in `PROJECT.json`.

What makes each part correct:

- *queue*: first in, first out, nothing lost, no access to freed memory;
- *pool*: each task to one worker, locks released on every path, a queued task
  is taken;
- *loop*: a name never outlives the connection it was given for, no connection
  is forgotten, `accept` does not block, nobody starves;
- *reader*: the buffer is a prefix of the stream, complete requests are read,
  every block is released, no client holds a worker;
- *parser*: only validated requests are routed, and a request is released;
- *hash table*: a bounded bag, whatever the collisions;
- *configuration*: each field is what the file's last word on it is, or its
  default, and never 0;
- *boot*: the server polls only when everything it touches is there.

## 2. The modules

| module | models | implements |
|---|---|---|
| `TaskQueue` | the list at the level of blocks and pointers | `FifoQueue` |
| `ThreadPool` | workers and `enqueue_task`, one action per lock operation, test, store and signal | `WorkPool` |
| `Orchestrator` | loop, kernel, clients, and the pool as `WorkPool` | `ConnectionLife`, and `WorkPool`'s rules of use |
| `Server` | composes the three: the loop calls `ThreadPool`'s `enqueue_task`, and both sides work on `TaskQueue`'s blocks | `ThreadPool`, `Orchestrator` |
| `RequestReader` | one request, from `calloc` to the parser and back | |
| `HttpHandler` | `process_http_request`, one line of the request a step | |
| `HashTable` | one call after another, one probe a step | `MultiMap` |
| `Worker` | composes reader and handler with `thread_runner`'s close: what happens to one task | `RequestTask` |
| `StringTools` | operators: characters, `size_t_to_string` | |
| `ConfigurationHandler` (extends it) | operators: `fgets` into a reused buffer and what a round of the loop makes of it | |
| `Boot` (extends that) | `main`, boot and shutdown beside running workers | |
| `FifoQueue`, `WorkPool`, `ConnectionLife`, `RequestTask`, `MultiMap` | what the parts promise | |
| `..._proofs` (of `TaskQueue`, `ThreadPool`, `Orchestrator`, `Server`, `RequestReader`, `Worker` with `HttpHandler`, `HashTable`, `Boot`) | theorems | |
| `MC...` | finite constants for TLC | |

Each of the three modules the server consists of makes assumptions about the
other two: `TaskQueue` takes calls in any order, each for one step, `ThreadPool`
uses a plain sequence for the list and accepts only descriptors that are nowhere
yet, `Orchestrator` uses `WorkPool` in place of the pool. `Server` is the loop, the
threads and the blocks in one behaviour, in which nothing is assumed of a
descriptor or of the list. What happens to the blocks is still one step, taken
with `enqueue_lock` held: nobody else touches them meanwhile (`LockInv`), and the
counter, which workers read without that lock, has a step of its own (`counted`).
`Server` is shown to be a behaviour of all three modules at once:
`ImplementsThreads` and `ImplementsLoop` by TLC on a small instance and by TLAPS
for every value of the constants, `QueueInServer` by TLAPS. The safety properties
of each of them therefore hold in the server.

`ThreadPool` implements `WorkPool`, and `Orchestrator` is shown to submit
descriptors only as `WorkPool` assumes; liveness is checked on these two, each
over the other in abstract form.

What all of them take for granted of a task, that its processing comes to an end
and closes the descriptor once, is `RequestTask`, which `Worker` implements with the
reader and the handler themselves, except where the code leaves defined
behaviour. That a request's headers end in an empty line is `RequestReader`'s
`ParserSeesHeaders` and what `HttpHandler` starts from; `BufferOutlivesParser`
says it of the two together.

How state and actions correspond to the code:

- **TaskQueue.** `next`, `previous` and `socket_descriptor` are the fields of
  `connection_instance`, as functions of a block's address. `queue_tail` is a
  pointer to a `next` field and is written as the block that field is in, or
  `Root` for `&queue_head`. `live` holds the allocated blocks; `OverwriteFreed`
  lets a freed block be overwritten, `EnqueueTask` lets the allocator return it.
  `fault` records the first store through a stale pointer, after which C says
  nothing and the model stops. `tail_spared` marks executions in which the
  allocator happens to leave alone the block `queue_tail` still points into;
  it separates what the algorithm does from what the dangling pointer does.
- **ThreadPool.** `pc[w]` is the place of a worker in `thread_runner` and
  `_pull_next_task`, `main_pc` the loop's place in `enqueue_task`. A waiter may
  wake spuriously. `num_connections > 0` is read without `enqueue_lock`, as in
  the code.
- **Orchestrator.** `file` is the descriptor table, `knote` the registrations
  (armed, disabled by `EV_DISPATCH`, none), `batch` the events of one `kevent`
  call that have not been processed, each with the connection it was reported
  for, which the program does not see. `ticket` and `closed` are history.
  `Faults` says which calls may fail. `enable_event` has no caller.
- **Server.** It extends `TaskQueue` and has instances of the other two: `queue`,
  the descriptors read through the nodes, is their list, and `counted` is the
  program's `num_connections`, which `TaskQueue` counts with the node and
  `enqueue_task` a statement later. `loop_pc` is `Orchestrator`'s `main_pc`. `Submit`
  to `CountAndSignal` are `process_data_event`'s call of `enqueue_task`; the
  loop's cursor moves as the task is linked, which nobody else can see, and the
  loop goes on when the call returns. `PullNextTask` is `_pull_next_task` under
  both locks, `ProcessTask` the request and the `close` that frees the number for
  the next `accept`. A step in which one module takes part is that module's
  action. A stray store ends the model.
- **RequestReader.** A byte is its position in the client's stream, so that
  `BufferIsPrefix` can speak of order, gaps and repetition. `request` says where
  the empty line is, what Content-Length declares, and how many bytes the client
  sends. `Declared` is what `strstr` finds, which may be text behind the headers
  (`echo`) if it came in the same portion. `_get_request_contents` advances the pointer `total_bytes_read` instead
  of the integer behind it: the offset of a second portion is read from
  undefined memory, and the model takes it for a stray store (`fault`).
- **HttpHandler.** A line is reduced to what the code branches on. Undefined
  behaviour (uninitialised `line_partition`, the NULL method name, reading a
  freed header, the one byte behind `key_cache`) is a choice between going on
  and `fault`. `http_host` is the line its value was copied from; the copy
  (`CopyHost`, a `strndup` nobody tests) may leave NULL, that is 0, although the
  header is good and kept.
- **Worker.** It extends `HttpHandler`, with its `pc` and `fault`, and has an
  instance of `RequestReader` whose `pc` and `fault` are `reading_pc` and
  `reading_fault`. `Read` is `_process_request` up to the response buffer
  (`response`), `CallHandler` to `HandlerReturns` the call of
  `process_http_request`, `CloseDescriptor` the end of `thread_runner`'s round.
  What the headers say is chosen where the handler first looks, so that the
  reader's states are not multiplied by messages nobody has read.
- **HashTable.** `keygen` is an arbitrary function from keys to numbers, so the
  model covers all hash functions; `HashIndex` reduces it as the code does.
- **ConfigurationHandler.** Characters are their codes. `line` is the buffer of
  `_parse_configuration`, stale characters included: `Fgets` overwrites its
  beginning, `Name` scans it without asking where the NUL is. Where the code
  reads past `line` or past the cache of a value, `Anything` may come out.
  `Said` is the independent reading of the file that `ConfigIsItsLines` compares
  with: by `Gives`, the ends of those lines of the file that give the field, the
  last of which counts. `Ordinary` says which files it is defined for. A file with
  a NUL in it is not: `po\0x = 5` sets `port`.
- **Boot.** `pc` walks through `boot_server`, `start_processing`,
  `init_thread_handler` and `free_thread_memory`; every call that may fail has a
  failing alternative. `cursor` counts the entries of the thread array that
  `init_thread_handler` has filled, `created` the workers that exist: a failing
  `pthread_create` returns a positive number, `validate_syscall` asks for a
  negative one, and the test of `thread_id` that is left reads what POSIX does
  not define after a failure, so `CreateThread` may also go on without the
  worker. Workers act beside `main` in `WorkerPulls`.

## 3. The runs

| run | what it shows | bounds, and why they do |
|---|---|---|
| `server` | the list is well formed until a store goes astray; a stray store takes a one-task list whose tail dangles; the server is a behaviour of `ThreadPool` and of `Orchestrator` | 3 nodes besides the dummy, 2 descriptors for 3 clients, 2 workers, batches of 2: a list of two, pulls of its front and its end, a dangling tail, freed nodes and closed descriptors handed out again, both locks contended |
| `server_fault` | **fails**, see finding 1 | the same with one worker |
| `pool` | both mutexes, the pull, one place per descriptor, never all workers asleep; refinement of `WorkPool` with its liveness | 3 workers, 4 descriptors: a sleeper, a woken and a busy worker at once, and a queue of several |
| `pool_lost` | **fails**, see finding 2 | 1 worker, 2 descriptors |
| `orchestrator` | names never outlive connections; failing calls hurt only their own descriptor; nobody is cut off unheard; life cycle | 3 descriptors for 4 connections, batches of 2, 2 workers: each descriptor is reused while events and tasks that name it may exist |
| `orchestrator_live` | no descriptor without an owner; speakers are served; the backlog drains | 2 descriptors for 3 connections, batches of 1, so that the loop must choose and run out of descriptors |
| `reader` | buffer contents, rejection, truncation, termination | header limit 3, buffer 5, requests of up to 7 bytes: one past every limit, and text behind the headers that ends within, at and past the limit |
| `reader_body` | **fails**, see finding 3 | the same |
| `http` | validation before routing, no Host beyond a later one, the requests that lead out of defined behaviour; the buffer under the parser; refinement of `RequestTask` with its liveness | room for 2 headers, 3 header lines: exactly what fits and one more (one line behind a first line that is refused); 5 requests of 2 or 3 bytes, with and without a body, cut short, too long: the reader's own run has the others |
| `http_free` | **fails**, see finding 4 | 2 header lines |
| `hash` | the table is a bounded bag and every call returns | 3 usable slots, 3 keys, 2 values, all hash functions: a full table, every collision pattern, holes |
| `boot` | the configuration is what the file says; what holds while polling and while failing; boot ends | files of 2 lines in a buffer of 9 characters, the last without its end, names of 2 and 3 characters, so that one line can show behind another; a cache of 3 digits in a 7-bit word, as 20 digits in 64 bits; a port string of 2 bytes; 0 to 2 cores, 2 addresses |

Bounds that are part of a model: `MaxTasks` (tasks accepted in `Boot`),
`MaxAddresses`, `MaxLines` and the finite sets of descriptors, connections and
requests. Everything else is unbounded or bounded by the code.
`CHECK_DEADLOCK FALSE` stands where the program really stops: all clients are
served and `kevent` blocks, a single request or boot is over, or a fault ended
the execution. `server` and `orchestrator` use symmetry; runs with liveness
do not.

Each property has a mutant of a mapped definition, kept in the module directly
before the definition it alters, under which the run finds the property
violated.

### Findings

1. `thread_handler.c:150`. `_pull_next_task` resets `queue_tail` only when it
   pulls the last task. `queue_tail` points into the node *before* the last, so
   pulling the last but one leaves it in a freed block. The next enqueue goes
   through that block, and so may the next pull. (`server_fault`: one worker and two
   connections in the list are enough.)
2. `thread_handler.c:109-114`. The count and the signal can fall between a
   worker's test of `num_connections` and its wait. With one worker the task is
   never taken. (`pool_lost`.) With two or more workers `SomebodyAwake` says
   that another worker will look, so a task is only late: the bell can still
   ring for nobody while an idle worker sleeps and the task waits for a busy one.
3. `thread_handler.c:353`. Body bytes that arrive in the same portion as the
   headers are not counted; the reader waits for as many again and rejects the
   request when the timeout passes. (`reader_body`.)
4. `http_types.c:61-69`. `free_http_request` walks through the memory of the
   first header as if headers lay in an array, and frees an address inside the
   block it has just freed. Every request that parses gets there.
   (`http_free`.) The models of pool and loop assume that processing returns;
   with an allocator that aborts on such a free, the process ends instead.

Found while modelling, and part of the models, without a run of their own:

- a body in two portions is stored at an undefined offset (`thread_handler.c:375`);
- the header limit counts body bytes of the same portion (`:310`);
- `process_http_request` cannot return true: the pointers `free_http_request`
  tests are never reset (`http_types.c:53-82`);
- `http_host = strndup(...)` is not tested: without memory for the copy an
  earlier Host is lost with the last one, and the request is refused for want of
  a Host (`http_handler.c:371`; `LastHostWins` says that the earlier one does not
  come back);
- `pthread_create` reports failure by a positive number, which `validate_syscall`
  takes for success (`thread_handler.c:264`, `error_handler.c:16`); what the entry
  holds then is undefined, so that init may go on with fewer workers than the
  cores that `thread_handler.c:249` plans for, or none;
- an unknown method is compared with NULL (`http_handler.c:87-88`);
- `setsockopt`, `EV_ADD` or `enqueue_task` failing leaks the descriptor
  (`OrphansStay`, and the theorem `OnlyFailuresLose`), against the comment `orchestrator.c:152`;
- several workers wait on the condition at once, although `thread_handler.c:47`
  says that a single one does;
- `hash_free` dereferences the pointers behind the caller's own pointer
  (`hash_tools.c:230`), and adding a key twice keeps both values;
- a failed `init_thread_handler` leads to a double free (`thread_handler.c:269`,
  `main.c:17`), and a failed poll loop frees the queue under running workers:
  `CleanUpFaults` says when exactly;
- a machine that reports no performance core gets a pool of no workers
  (`configuration_handler.c:171`): the server polls, and every task waits
  (`ServingIsReady`'s last conjunct);
- a last configuration line without its end and without a value, `port` say,
  takes the value that the line before left in the buffer if that had a longer
  name, because the scan for the name's end does not stop at the NUL
  (`configuration_handler.c:71-75`); on a line of its own it runs out of the
  buffer; `num_cores` of the file never counts (`:176`);
- eight digits of port, or no memory, overrun `port_string` (`host_resolver.c:25`);
- bytes of a body, or of a next request, that read like a Content-Length and
  came with the headers make the reader wait for a body (`thread_handler.c:185`);
- words behind the third of the first line are ignored, although
  `http_handler.c:54` says "this validates the entire first line";
- a request that is refused leaves what `allocate_http_request` allocated
  (`http_handler.c:32-35`);
- a bad configuration line ends the boot, although the message at
  `configuration_handler.c:158` announces the defaults.

## 4. Fairness

- `ThreadPool`: every thread keeps running (weak fairness of each worker's and
  of the loop's steps). Taking `enqueue_lock` gets strong fairness: the loop
  releases it between enqueues and spends its time in the kernel, so a worker
  that waits for it is not overtaken for ever. Spurious wakeups and new events
  get none. `_process_request` ends because `SO_RCVTIMEO` bounds every `recv`:
  `RequestReader`'s `ReadingEnds`.
- `Server`: none. Its properties are about what may happen; the liveness is
  checked in `ThreadPool` and `Orchestrator`, each with the other in abstract form.
- `Orchestrator`: the loop and the workers keep running; `kevent` has strong
  fairness per registration, since kqueue puts a delivered event behind the
  others. Clients owe nothing; `SpeakerIsServed` is about those that do speak,
  and `BacklogDrains` has their speaking as a premise, because no timeout frees
  an accepted connection that never sends anything.
- `RequestReader`, `Worker`, `HashTable`, `Boot`: the one thread that is modelled
  runs. `ImplementsTask` turns that into `RequestTask`'s promise that a task
  ends, on which the fairness of `WorkPool`'s `Release` rests.

## 5. What is proved

Every invariant of every passing run is a theorem, and so are the action
properties and the steps of every refinement: for every number of blocks, workers,
descriptors, connections, slots, limits and bytes, every set of failing calls,
every file and every message. What the proofs assume are the `ASSUME`s of the
modules:

- distinguished values are distinct (`NoTable` is no table, `NoCall` no call);
- `Server` assumes what its parts assume;
- sizes are positive, the table has two usable slots or more, the header limit
  is at least 2 and fits the buffer;
- there are finitely many descriptors and workers (`OrchestratorAssumption`:
  `getdtablesize` and `num_cores` bound them);
- files are sequences of characters; the names of the fields differ, have two
  characters or more and none that ends a name; defaults are not 0; and what
  fits the cache of a value with its NUL fits the word (19 digits in 64 bits).

**`TaskQueue_proofs`.** The inductive invariant is `TypeOK /\ ListInv /\
SparedTailNeverFaults`. `ListInv` ties the pointers to the history `order` of
the nodes; it is what tells, after a pull, which node `*queue_tail` is.
Theorems: `TypeCorrect`, `ListStaysWellFormed`, `SparedTailIsSafe`,
`OnlyStaleTailFaults` (the only way to a stray store), and `ListImplementsFifo`
(with the refinement that reads the descriptors through the nodes). They are
about any caller; the run checks them under the server's own calls.

**`ThreadPool_proofs`.** `TypeOK`, `LockInv`, `CountInv` and `PullFindsTask`
are inductive together; `PullFindsTask` needs `thread_lock` to say that no other
worker pulls in between and `CountInv` to turn the counter into a list that is
not empty. `ArgumentInv` says which descriptor is in whose hands and carries
`OnePlace`. `SomebodyAwake` is inductive given `LockInv`: only the holder of
`thread_lock` is between test and wait. Theorems: `TypeCorrect`, `LocksHold`,
`CountAgrees`, `PullNeverFails`, `DescriptorInOnePlace`, `NeverAllAsleep`, and
`ThreadsImplementPool`, the safety part of what `ImplementsFairPool` checks.

**`Orchestrator_proofs`.** `TypeOK`, `BatchIsCurrent`,
`WorkerReadsOwnConnection`, `InFlightIsUnwatched`, `AcceptNeverBlocks` and
`WorkPool`'s `OnePlace` are inductive only together: an event is current because
its descriptor is disabled and in nobody's hands, and it stays disabled because
a descriptor in flight is not registered again. `SilentClientsAreKept` adds that
whatever is reported, queued or in a worker's hands belongs to a client that has
spoken (`ReportedIsHeard`). Theorems: one for each of them,
`LostDescriptorsStay` and `OnlyFailuresLose` (action properties),
`EveryDescriptorIsOwned` (when no call fails), `LoopUsesPoolProperly`, and
`ConnectionsLiveAsPromised`: loop, kernel, pool and clients implement
`ConnectionLife`. The last one adds `LifeInv` (a connection has one descriptor
at most; none while it waits, after it was closed, or before it came), reads a
connection's phase off its descriptor (`Place`), and shows that each action
moves one connection or none. That an owner is lost only by a failing call is
what `OrphanIsMadeByFault` is used for; that `accept` and a worker's take find
room is a count: the open connections have different descriptors, all of them
other than the free one.

**`Server_proofs`** extends the list's proofs and takes instances of the threads'
and the loop's. The inductive invariant is the three inductive invariants and
`SubmissionInv`: while `enqueue_task` links a task, the loop waits at that task's
event. One lemma per action shows that a step of the server is a step of each
part or leaves it alone (`PartsStep`), and each part's own `StepKeeps` does the
rest. Every part is needed for another one's step: that the loop submits a
descriptor the threads accept is the loop's `BatchIsCurrent` (`EventIsFree`); that
the list is the sequence is `EnqueueAppends`, `PullTakes` and `NothingIsThere` of
`TaskQueue_proofs`; that the loop's abstract pool takes a task only for an idle
worker is the threads' `ArgumentInv` (`PoppingIsIdle`). Theorems: `QueueInServer`,
`ServerRunsThreads`, `ServerRunsLoop`, and what follows from them:
`ServerListStaysWellFormed`, `ServerFaultsOnlyThroughTail`,
`ServerKeepsItsPromises` (the parts' main invariants) and `ServerConnectionsLive`
(`ConnectionLife`).

**`RequestReader_proofs`.** `PlaceInv` says what each place of the program
counter means (nothing decided before the end, the buffer allocated while it is
read into, a body only behind a header section), `ReadInFull` is
`TruncatedOnlyByFin` from the moment nothing more is read. With the run's
invariants they are inductive. Theorems: `TypeCorrect`, `BufferStaysPrefix`,
`ParserGetsHeaders`, `SlowBodiesAreNotCut`, `BodilessIsRead`, and
`OnlyBodiesFault`: the undefined store takes a body in two portions, or headers
and first portion that are too long together.

**`Worker_proofs`** has two parts. The first is about the handler by itself.
`ParsedInv` says what is behind the parser at each place; `HandlerInv` adds the
run's properties. Theorems: `OnlyValidatedIsRouted`, `LastHostIsKept`, and
`FaultsHaveTheirRequests`, for which `EndedIs` says what a request has shown that
gets to the end of its headers with a Host: no more headers than places, none
broken. The second is about the worker and takes an instance of the
reader's proofs, whose step lemmas it cites: neither invariant is proved again.
`CallInv` is what joins them: the handler runs only while the reader is about to
respond, and has not begun before. Theorems: `BufferStaysForParser`,
`WorkerRoutesValidated` (the handler's properties of every request a worker
reads), and `WorkerDoesTask`, the safety part of what `ImplementsTask` checks.

**`HashTable_proofs`.** `Behind` is the set of slots a probe has looked at: from
home to the cursor, around the end of the table, and never slot 0. `AddInv` says
that all of them are taken, `SeekInv` that none holds the key. `CallOK` ties
`step_counter` to the cursor, so that the count that ends a search ends it when
`Behind` is the whole table, not a slot earlier. Theorems: `TypeCorrect`, and
`TableIsMultiMap` for every hash function: an addition is refused only by a full
table and an absence reported only of an absent key.

**`Boot_proofs`.** `NetworkInv` and `PoolInv` say what `main` holds at each
place (of the workers only that there are no more than entries, and that without
any of them every task is still queued), `TextOK` what is in `line`, `FileInv` that after the lines read so far
each field is what `SaidUpTo` says of that much of the file. Theorems:
`TypeCorrect`, `ServesWhenReady`, `CleanUpFaultsAreThese`, `StringIsNumber` (the digits
`size_t_to_string` writes read back as the number, for every number), and
`ConfigurationIsRead`: `ConfigIsItsLines` for every file of any length. The last
two are induction over data. The library's induction rules cannot be used, since
they take an operator; the proofs take the set of the numbers for which a
statement fails and cite `WFMin` for its least element (`LeastElement`,
`Induction`, `StrongInduction` state that for sets). The attempt found a file
for which the property was false: a NUL in a name. `Ordinary` excludes it now,
and the run has such a file.

Only model-checked: liveness (`SpeakerIsServed`, `BacklogDrains`, `ReadingEnds`,
`CallsReturn`, `BootEnds`, and the fairness of `ImplementsFairPool` and
`ImplementsTask`), which is outside what TLAPS proves here. The four properties
that runs refute (`QueueNeverFaults`, `TaskIsTaken`, `CompleteRequestIsRead`,
`FreeIsClean`) are false of the code and have no theorem.

## 6. What is not modelled

- Contents: header values, routes, bodies, log texts. `send_data`,
  `find_connection`, `close_connection`, `shutdown_connection`, `get_peer_name`,
  `get_host_name`, `enable_event`, `print_local_addresses`, the two
  `fetch_configuration_by_...` functions, `string_length` and `string_to_size_t`
  have no caller.
- `dynamic_router.c` and `routing_parser.c` do not compile (line 108 of the first
  is an `if` without a condition); of the router only the hash table it will use
  is modelled.
- The blocks a request holds are followed in the worker (`buffer`,
  `response_buffer`), not in the handler.
- The data race on `num_connections` is modelled as reads and writes of whole
  values, which is what an aligned int gives on the machines the program is
  built for.
- `EINTR` and closing by other processes.

## 7. Plan

The order was: the queue, the pool and the loop with their abstractions and
proofs, because every request depends on them; then what a worker does with a
descriptor; then the parts that stand alone; then the proofs, and last `Server`,
which puts the first three together. Every safety property and every refinement
has its theorem (section 5). Left to do:

1. `Worker` in `Server`: there, a task is one step, and `WorkerDoesTask` says why
   it may be.
2. The liveness of `Server` itself: so far that of `ThreadPool` and of
   `Orchestrator`, each over an abstraction of the other, stands for it.
3. Characters of a header line (`_validate_http_header`) as a recursive function
   checked against a definition of what a header is.
