-------------------------------- MODULE Worker --------------------------------
(***************************************************************************)
(* A worker with one task: RequestReader reads the request, HttpHandler    *)
(* parses it in the same buffer, and thread_runner closes the descriptor.  *)
(* The client goes on sending, or leaves, all the while.                   *)
(***************************************************************************)
EXTENDS HttpHandler

CONSTANTS HeaderLimit, BufferSize, EchoLength, Requests

VARIABLES
  request, sent, peer, consumed,              \* of RequestReader
  total_bytes_read, body_bytes_read, buffer, heap, outcome,
  reading_pc, reading_fault,                  \* its pc and fault
  response,                                   \* response_buffer is allocated
  descriptor                                  \* "open" or "closed"

reading == <<request, sent, peer, consumed, total_bytes_read, body_bytes_read,
             buffer, heap, outcome, reading_pc, reading_fault>>
worker_vars == <<vars, reading, response, descriptor>>

Reader == INSTANCE RequestReader WITH pc <- reading_pc, fault <- reading_fault

ASSUME WorkerAssumption == Reader!ReaderAssumption

WorkerInit ==
  /\ Reader!Init
  /\ request_line = [method |-> "short", route |-> "none", protocol |-> "none",
                     broken |-> FALSE]
  /\ lines = <<>>
  /\ Called
  /\ response = FALSE /\ descriptor = "open"

-----------------------------------------------------------------------------
Client == /\ Reader!Arrive \/ Reader!Leave
          /\ UNCHANGED <<vars, response, descriptor>>

(* _process_request up to the response buffer.                             *)
Read == /\ \/ Reader!Start \/ Reader!ReceiveHeaders \/ Reader!HeadersFail
           \/ Reader!ParseLength
           \/ Reader!ReceiveContents \/ Reader!ContentsFail \/ Reader!ContentsEnd
        /\ UNCHANGED <<vars, response, descriptor>>

NoResponse == /\ ~response
              /\ Reader!Respond /\ outcome' = "no_memory"
              /\ UNCHANGED <<vars, response, descriptor>>

(* process_http_request is called.  What the headers say is settled only   *)
(* now, where it is looked at first.  Bound: behind a first line that is to *)
(* be refused, one header is enough to see that it is.                     *)
CallHandler ==
  /\ reading_pc = "respond" /\ ~response
  /\ response' = TRUE
  /\ request_line' \in RequestLines
  /\ lines' \in {s \in Sections : FirstLineRefused' => Len(s) <= 1}
  /\ UNCHANGED <<pc, parsed, result, fault, reading, descriptor>>

Handle == /\ response
          /\ Next
          /\ UNCHANGED <<reading, response, descriptor>>

(* Whatever it returned, both blocks are freed.                            *)
HandlerReturns ==
  /\ response /\ pc = "done"
  /\ Reader!Respond /\ outcome' = "processed"
  /\ response' = FALSE
  /\ UNCHANGED <<vars, descriptor>>

(* Mutant: a request that could not be processed keeps its descriptor.     *)
CloseProcessed ==
  /\ reading_pc = "done" /\ outcome = "processed" /\ descriptor = "open"
  /\ descriptor' = "closed"
  /\ UNCHANGED <<vars, reading, response>>

(* thread_runner: processed or not, the descriptor is closed.              *)
CloseDescriptor ==
  /\ reading_pc = "done" /\ descriptor = "open"
  /\ descriptor' = "closed"
  /\ UNCHANGED <<vars, reading, response>>

Run == Read \/ NoResponse \/ CallHandler \/ Handle \/ HandlerReturns \/ CloseDescriptor

WorkerNext == Client \/ Run

(* The worker's thread runs and SO_RCVTIMEO ends every recv.               *)
WorkerSpec == WorkerInit /\ [][WorkerNext]_worker_vars /\ WF_worker_vars(Run)
-----------------------------------------------------------------------------
(* The handler reads from the worker's buffer, whose end it does not look  *)
(* at: for as long as it runs the buffer is allocated, holds the whole     *)
(* header section and has not been overwritten; and none of the early      *)
(* returns but the one without a response (thread_handler.c:199) leaves it *)
(* behind, or frees it and goes on.                                        *)
BufferOutlivesParser ==
  /\ response /\ fault = "none" =>
       /\ "buffer" \in heap
       /\ request.header \in 1..total_bytes_read
       /\ \A i \in 0..(request.header - 1) : buffer[i] = i + 1
  /\ descriptor = "closed" => heap = {} \/ outcome = "no_memory"

(* How far the task is, and what it has allocated.                         *)
Phase == IF fault # "none" \/ reading_fault THEN "undefined"
         ELSE IF descriptor = "closed" THEN "closed"
         ELSE IF reading_pc = "done" THEN "returned"
         ELSE IF response THEN "parsing" ELSE "reading"

Allocated == heap \cup (IF response THEN {"response"} ELSE {})

Task == INSTANCE RequestTask WITH phase <- Phase, blocks <- Allocated

(* Reader, handler and thread_runner together process a task as            *)
(* RequestTask promises the pool, whatever the client does.                *)
ImplementsTask == Task!Spec
=============================================================================
